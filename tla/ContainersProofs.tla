-------------------------- MODULE ContainersProofs --------------------------
(***************************************************************************)
(* Proofs about Containers, for any clients at any of the servers, any     *)
(* assignment of lock servers and any scenarios.                           *)
(***************************************************************************)
EXTENDS RedisStore, TLAPS

Places == {"out", "find", "wait", "locked", "insert", "assign", "in", "failed", "done"}
Owning == {"locked", "insert", "assign"}

(* TypeOK, and the rest of the invariant, of the variables that say where  *)
(* requests and handlers are.                                              *)
ControlType ==
  /\ bucket \in [Clients -> Buckets]
  /\ place \in [Handlers -> Places]
  /\ plugin \in [Servers -> [Buckets -> {"none", "null", "loaded"}]]
  /\ load_lock \in [Servers -> Handlers \cup {Nobody}]
  /\ \A d \in Clients, t \in Servers :
       load_lock[t] = <<d, t>> <=> place[<<d, t>>] \in Owning
  /\ dead \in SUBSET Servers
  /\ pc \in [Clients -> {"idle", "container", "body", "join", "exited"}]
  /\ holder \in [Buckets -> Clients \cup {Nobody}]

ControlInv == ControlType /\ RequestInv /\ LoadInv

(* TypeOK of the others. *)
DataType ==
  /\ kind \in [Clients -> Kinds]
  /\ seqno \in [Clients -> 0 .. MaxWrites]
  /\ got \in [Clients -> Seq(Chunk)]
  /\ files \in [Servers -> [Buckets -> Seq(Chunk) \cup {NoFile}]]
  /\ redis \in KeyValues
  /\ descriptors \in [Servers -> Nat \cup {Plenty}]

LEMMA TypeParts ==
  ASSUME bucket \in [Clients -> Buckets]
  PROVE  TypeOK <=> ControlType /\ DataType
<1>1. ASSUME NEW h \in Handlers
      PROVE  \E d \in Clients, t \in Servers : h = <<d, t>> /\ h[2] = t
  BY DEF Handlers
<1>2. \A d \in Clients, t \in Servers : <<d, t>> \in Handlers /\ <<d, t>>[2] = t
  BY DEF Handlers
<1>3. (\A h \in Handlers : load_lock[h[2]] = h <=> place[h] \in Owning)
      <=> \A d \in Clients, t \in Servers :
            load_lock[t] = <<d, t>> <=> place[<<d, t>>] \in Owning
  BY <1>1, <1>2
<1> QED
  BY <1>3 DEF TypeOK, ControlType, DataType, Places, Owning

LEMMA HomeType ==
  ASSUME NEW c \in Clients
  PROVE  /\ Home[c] \in Servers
         /\ Here(c) \in Handlers /\ Here(c)[1] = c /\ Here(c)[2] = Home[c]
         /\ Home[c] \notin Peers(c)
         /\ \A s \in Servers : <<c, s>> \in Handlers /\ (s = Home[c] \/ s \in Peers(c))
         /\ \A s \in Peers(c) : s \in Servers /\ s # Home[c] /\ <<c, s>> # Here(c)
BY ContainersAssumption DEF Here, Handlers, Peers

(* A handler is the pair of its client and its server. *)
LEMMA HandlerPairs ==
  /\ \A h \in Handlers : h[1] \in Clients /\ h[2] \in Servers /\ h = <<h[1], h[2]>>
  /\ \A c \in Clients, s \in Servers :
       <<c, s>> \in Handlers /\ <<c, s>>[1] = c /\ <<c, s>>[2] = s
BY DEF Handlers

(* The parts of RequestInv and of LoadInv, one by one. *)
Locked(c) ==
  pc[c] \in {"body", "join"} => holder[bucket[c]] = c /\ place[<<c, Home[c]>>] = "in"
Idle(c) == pc[c] = "idle" => place[<<c, Home[c]>>] = "out"
PeerLocked(c, s) ==
  s # Home[c] /\ place[<<c, s>>] # "out"
    => pc[c] \in {"join", "exited"} /\ holder[bucket[c]] = c
Holds(c, b) ==
  holder[b] = c => bucket[c] = b /\ pc[c] \in {"body", "join", "exited"}

LEMMA RequestParts ==
  RequestInv <=> /\ \A c \in Clients : Locked(c) /\ Idle(c)
                 /\ \A c \in Clients, s \in Servers : PeerLocked(c, s)
                 /\ \A c \in Clients, b \in Buckets : Holds(c, b)
BY HomeType DEF RequestInv, Locked, Idle, PeerLocked, Holds, Here, Peers

LEMMA NextRequests ==
  ASSUME \A c \in Clients : (Locked(c) /\ Idle(c))',
         \A c \in Clients, s \in Servers : PeerLocked(c, s)',
         \A c \in Clients, b \in Buckets : Holds(c, b)'
  PROVE  RequestInv'
BY HomeType DEF RequestInv, Locked, Idle, PeerLocked, Holds, Here, Peers

Stopped(c, s) == s \in dead => place[<<c, s>>] \in {"out", "done", "failed"}
NotLoaded(s, b) ==
  s \notin dead /\ plugin[s][b] = "none"
    /\ (\A c \in Clients : bucket[c] = b => place[<<c, s>>] # "insert")
  => loads[s][b] = 0

LEMMA LoadParts ==
  ASSUME dead \in SUBSET Servers
  PROVE  LoadInv <=> /\ loads \in [Servers -> [Buckets -> 0 .. 1]]
                     /\ \A c \in Clients, s \in Servers : Stopped(c, s)
                     /\ \A s \in Servers, b \in Buckets : NotLoaded(s, b)
BY DEF LoadInv, Stopped, NotLoaded

LEMMA NextLoads ==
  ASSUME dead' \in SUBSET Servers, loads' \in [Servers -> [Buckets -> 0 .. 1]],
         \A c \in Clients, s \in Servers : Stopped(c, s)',
         \A s \in Servers, b \in Buckets : NotLoaded(s, b)'
  PROVE  LoadInv'
BY DEF LoadInv, Stopped, NotLoaded
-----------------------------------------------------------------------------
(* What each way to go on does to the control state. *)
LEMMA DieKeepsControl ==
  ASSUME ControlInv, NEW s \in Servers, Die(s)
  PROVE  ControlInv'
<1>1. /\ dead' = dead \cup {s}
      /\ \A c \in Clients :
           pc'[c] = IF Home[c] = s /\ pc[c] # "idle" THEN "exited" ELSE pc[c]
      /\ \A c \in Clients, t \in Servers :
           place'[<<c, t>>] = IF t = s /\ place[<<c, t>>] \notin {"out", "done"}
                              THEN "failed" ELSE place[<<c, t>>]
      /\ \A t \in Servers : load_lock'[t] = IF t = s THEN Nobody ELSE load_lock[t]
      /\ UNCHANGED <<bucket, plugin, loads, holder>>
  BY HandlerPairs DEF ControlInv, ControlType, Die
<1>2. ControlType'
  <2>1. place' \in [Handlers -> Places] /\ load_lock' \in [Servers -> Handlers \cup {Nobody}]
    BY DEF ControlInv, ControlType, Die, Places
  <2>2. pc' \in [Clients -> {"idle", "container", "body", "join", "exited"}]
    BY DEF ControlInv, ControlType, Die
  <2>3. ASSUME NEW d \in Clients, NEW t \in Servers
        PROVE  load_lock'[t] = <<d, t>> <=> place'[<<d, t>>] \in Owning
    <3>1. <<d, t>> # Nobody
      BY HandlerPairs, NothingAssumption
    <3>2. load_lock[t] = <<d, t>> <=> place[<<d, t>>] \in Owning
      BY DEF ControlInv, ControlType
    <3> QED
      BY <1>1, <3>1, <3>2 DEF Owning
  <2> QED
    BY <1>1, <2>1, <2>2, <2>3 DEF ControlInv, ControlType
<1>3. RequestInv'
  <2>1. ASSUME NEW c \in Clients PROVE (Locked(c) /\ Idle(c))'
    BY <1>1, HomeType, RequestParts DEF ControlInv, Locked, Idle
  <2>2. ASSUME NEW c \in Clients, NEW t \in Servers PROVE PeerLocked(c, t)'
    BY <1>1, HomeType, RequestParts DEF ControlInv, PeerLocked
  <2>3. ASSUME NEW c \in Clients, NEW b \in Buckets PROVE Holds(c, b)'
    BY <1>1, HomeType, RequestParts DEF ControlInv, Holds
  <2> QED
    BY <2>1, <2>2, <2>3, NextRequests
<1>4. LoadInv'
  <2>1. ASSUME NEW c \in Clients, NEW t \in Servers PROVE Stopped(c, t)'
    BY <1>1, LoadParts DEF ControlInv, ControlType, Stopped
  <2>2. ASSUME NEW t \in Servers, NEW b \in Buckets PROVE NotLoaded(t, b)'
    BY <1>1, LoadParts DEF ControlInv, ControlType, NotLoaded
  <2> QED
    BY <1>1, <1>2, <2>1, <2>2, LoadParts, NextLoads DEF ControlInv, ControlType
<1> QED
  BY <1>2, <1>3, <1>4 DEF ControlInv

(* The lock is given up and the handlers have returned. *)
LEMMA LeaveKeepsControl ==
  ASSUME ControlInv, NEW c \in Clients, pc[c] \in {"body", "join"},
         \A s \in Peers(c) : place[<<c, s>>] \in {"out", "done"},
         NEW to \in {"idle", "exited"}, pc' = [pc EXCEPT ![c] = to],
         ReleaseLock(c), HandlersEnd(c)
  PROVE  ControlInv'
<1>1. /\ \A d \in Clients : pc'[d] = IF d = c THEN to ELSE pc[d]
      /\ \A d \in Clients, t \in Servers :
           place'[<<d, t>>] = IF d = c THEN "out" ELSE place[<<d, t>>]
      /\ \A b \in Buckets : holder'[b] = IF b = bucket[c] THEN Nobody ELSE holder[b]
      /\ UNCHANGED <<bucket, plugin, load_lock, loads, dead>>
  BY HandlerPairs DEF ControlInv, ControlType, ReleaseLock, HandlersEnd
<1>2. \A t \in Servers : place[<<c, t>>] \notin Owning
  BY HomeType DEF ControlInv, RequestInv, Here, Owning
<1>6. holder[bucket[c]] = c
  BY DEF ControlInv, RequestInv
<1>3. ControlType'
  <2>1. place' \in [Handlers -> Places] /\ holder' \in [Buckets -> Clients \cup {Nobody}]
    BY DEF ControlInv, ControlType, ReleaseLock, HandlersEnd, Places
  <2>2. pc' \in [Clients -> {"idle", "container", "body", "join", "exited"}]
    BY DEF ControlInv, ControlType
  <2>3. ASSUME NEW d \in Clients, NEW t \in Servers
        PROVE  load_lock'[t] = <<d, t>> <=> place'[<<d, t>>] \in Owning
    <3>1. load_lock[t] = <<d, t>> <=> place[<<d, t>>] \in Owning
      BY DEF ControlInv, ControlType
    <3> QED
      BY <1>1, <1>2, <3>1, HomeType DEF Owning
  <2> QED
    BY <1>1, <2>1, <2>2, <2>3 DEF ControlInv, ControlType
<1>4. RequestInv'
  <2>1. ASSUME NEW d \in Clients PROVE (Locked(d) /\ Idle(d))'
    BY <1>1, <1>6, HomeType, RequestParts, NothingAssumption DEF ControlInv, ControlType, Locked, Idle
  <2>2. ASSUME NEW d \in Clients, NEW t \in Servers PROVE PeerLocked(d, t)'
    BY <1>1, <1>6, HomeType, RequestParts, NothingAssumption DEF ControlInv, ControlType, PeerLocked, Peers
  <2>3. ASSUME NEW d \in Clients, NEW b \in Buckets PROVE Holds(d, b)'
    BY <1>1, <1>2, HomeType, NothingAssumption, RequestParts DEF ControlInv, ControlType, Holds
  <2> QED
    BY <2>1, <2>2, <2>3, NextRequests
<1>5. LoadInv'
  <2>1. ASSUME NEW d \in Clients, NEW t \in Servers PROVE Stopped(d, t)'
    BY <1>1, <1>2, LoadParts DEF ControlInv, ControlType, Stopped
  <2>3. ASSUME NEW t \in Servers, NEW d \in Clients
        PROVE  place'[<<d, t>>] = "insert" <=> place[<<d, t>>] = "insert"
    BY <1>1, <1>2, HomeType DEF Owning
  <2>2. ASSUME NEW t \in Servers, NEW b \in Buckets PROVE NotLoaded(t, b)'
    <3>1. NotLoaded(t, b)
      BY LoadParts DEF ControlInv, ControlType
    <3> QED
      BY <1>1, <2>3, <3>1 DEF NotLoaded
  <2> QED
    BY <1>1, <1>3, <2>1, <2>2, LoadParts, NextLoads DEF ControlInv, ControlType
<1> QED
  BY <1>3, <1>4, <1>5 DEF ControlInv

LEMMA ReturnKeepsControl ==
  ASSUME ControlInv, NEW c \in Clients, pc[c] \in {"body", "join"},
         \A s \in Peers(c) : place[<<c, s>>] \in {"out", "done"},
         Return(c)
  PROVE  ControlInv'
BY LeaveKeepsControl DEF Return

LEMMA ThrowKeepsControl ==
  ASSUME ControlInv, NEW c \in Clients, pc[c] = "body", Throw(c)
  PROVE  ControlInv'
<1>1. \A s \in Peers(c) : place[<<c, s>>] \in {"out", "done"}
  BY DEF ControlInv, RequestInv
<1> QED
  BY <1>1, LeaveKeepsControl, DieKeepsControl, HomeType DEF Throw

LEMMA ThreadsKeepControl ==
  ASSUME ControlInv, NEW c \in Clients, pc[c] = "body",
         NEW peers, peers \subseteq Peers(c), StartThreads(c, peers)
  PROVE  ControlInv'
<1>1. /\ \A d \in Clients : pc'[d] = IF d = c THEN "join" ELSE pc[d]
      /\ \A d \in Clients, t \in Servers :
           place'[<<d, t>>] = IF d = c /\ t \in peers
                              THEN IF t \in dead THEN "failed" ELSE "find"
                              ELSE place[<<d, t>>]
      /\ UNCHANGED <<bucket, plugin, load_lock, loads, dead, holder>>
  BY HandlerPairs DEF ControlInv, ControlType, StartThreads
<1>2. \A s \in Peers(c) : place[<<c, s>>] = "out"
  BY DEF ControlInv, RequestInv
<1>3. ControlType'
  <2>1. place' \in [Handlers -> Places]
    BY DEF ControlInv, ControlType, StartThreads, Places
  <2>2. pc' \in [Clients -> {"idle", "container", "body", "join", "exited"}]
    BY DEF ControlInv, ControlType, StartThreads
  <2>3. ASSUME NEW d \in Clients, NEW t \in Servers
        PROVE  load_lock'[t] = <<d, t>> <=> place'[<<d, t>>] \in Owning
    <3>1. load_lock[t] = <<d, t>> <=> place[<<d, t>>] \in Owning
      BY DEF ControlInv, ControlType
    <3> QED
      BY <1>1, <1>2, <3>1, HomeType DEF Owning
  <2> QED
    BY <1>1, <2>1, <2>2, <2>3 DEF ControlInv, ControlType
<1>4. RequestInv'
  <2>1. ASSUME NEW d \in Clients PROVE (Locked(d) /\ Idle(d))'
    BY <1>1, <1>2, HomeType, RequestParts DEF ControlInv, ControlType, Locked, Idle
  <2>2. ASSUME NEW d \in Clients, NEW t \in Servers PROVE PeerLocked(d, t)'
    <3>1. PeerLocked(d, t) /\ Locked(c)
      BY RequestParts DEF ControlInv
    <3> QED
      BY <1>1, <1>2, <3>1 DEF PeerLocked, Locked
  <2>3. ASSUME NEW d \in Clients, NEW b \in Buckets PROVE Holds(d, b)'
    BY <1>1, <1>2, HomeType, NothingAssumption, RequestParts DEF ControlInv, ControlType, Holds
  <2> QED
    BY <2>1, <2>2, <2>3, NextRequests
<1>5. LoadInv'
  <2>1. ASSUME NEW d \in Clients, NEW t \in Servers PROVE Stopped(d, t)'
    BY <1>1, <1>2, LoadParts DEF ControlInv, ControlType, Stopped
  <2>3. ASSUME NEW t \in Servers, NEW d \in Clients
        PROVE  place'[<<d, t>>] = "insert" <=> place[<<d, t>>] = "insert"
    BY <1>1, <1>2, HomeType DEF Owning
  <2>2. ASSUME NEW t \in Servers, NEW b \in Buckets PROVE NotLoaded(t, b)'
    <3>1. NotLoaded(t, b)
      BY LoadParts DEF ControlInv, ControlType
    <3> QED
      BY <1>1, <2>3, <3>1 DEF NotLoaded
  <2> QED
    BY <1>1, <1>3, <2>1, <2>2, LoadParts, NextLoads DEF ControlInv, ControlType
<1> QED
  BY <1>3, <1>4, <1>5 DEF ControlInv

LEMMA PeerEndKeepsControl ==
  ASSUME ControlInv, NEW c \in Clients, NEW s \in Peers(c), place[<<c, s>>] = "in",
         NEW to \in {"done", "failed"}, PeerEnds(c, s, to)
  PROVE  ControlInv'
<1>1. /\ \A d \in Clients, t \in Servers :
           place'[<<d, t>>] = IF d = c /\ t = s THEN to ELSE place[<<d, t>>]
      /\ UNCHANGED <<bucket, plugin, load_lock, loads, dead, pc, holder>>
  BY HandlerPairs, HomeType DEF ControlInv, ControlType, PeerEnds
<1>2. ControlType'
  <2>1. place' \in [Handlers -> Places]
    BY DEF ControlInv, ControlType, PeerEnds, Places
  <2>2. ASSUME NEW d \in Clients, NEW t \in Servers
        PROVE  load_lock'[t] = <<d, t>> <=> place'[<<d, t>>] \in Owning
    <3>1. load_lock[t] = <<d, t>> <=> place[<<d, t>>] \in Owning
      BY DEF ControlInv, ControlType
    <3> QED
      BY <1>1, <3>1, HomeType DEF Owning
  <2> QED
    BY <1>1, <2>1, <2>2 DEF ControlInv, ControlType
<1>3. RequestInv'
  <2>1. ASSUME NEW d \in Clients PROVE (Locked(d) /\ Idle(d))'
    BY <1>1, HomeType, RequestParts DEF ControlInv, ControlType, Locked, Idle
  <2>2. ASSUME NEW d \in Clients, NEW t \in Servers PROVE PeerLocked(d, t)'
    BY <1>1, HomeType, RequestParts DEF ControlInv, ControlType, PeerLocked, Peers
  <2>3. ASSUME NEW d \in Clients, NEW b \in Buckets PROVE Holds(d, b)'
    BY <1>1, HomeType, NothingAssumption, RequestParts DEF ControlInv, ControlType, Holds
  <2> QED
    BY <2>1, <2>2, <2>3, NextRequests
<1>4. LoadInv'
  <2>1. ASSUME NEW d \in Clients, NEW t \in Servers PROVE Stopped(d, t)'
    BY <1>1, LoadParts DEF ControlInv, ControlType, Stopped
  <2>3. ASSUME NEW t \in Servers, NEW d \in Clients
        PROVE  place'[<<d, t>>] = "insert" <=> place[<<d, t>>] = "insert"
    BY <1>1
  <2>2. ASSUME NEW t \in Servers, NEW b \in Buckets PROVE NotLoaded(t, b)'
    <3>1. NotLoaded(t, b)
      BY LoadParts DEF ControlInv, ControlType
    <3> QED
      BY <1>1, <2>3, <3>1 DEF NotLoaded
  <2> QED
    BY <1>1, <1>2, <2>1, <2>2, LoadParts, NextLoads DEF ControlInv, ControlType
<1> QED
  BY <1>2, <1>3, <1>4 DEF ControlInv
-----------------------------------------------------------------------------
(* The lookup of a container. *)
LEMMA MoveKeepsPlaces ==
  ASSUME ControlInv, NEW c \in Clients, NEW s \in Servers,
         NEW from \in {"find", "wait"} \cup Owning, NEW to \in Places \ {"out"},
         Move(<<c, s>>, from, to), UNCHANGED <<bucket, dead, pc, holder>>,
         to \in Owning /\ from \notin Owning => load_lock[s] = Nobody,
         load_lock' = [load_lock EXCEPT ![s] = IF to \in Owning THEN <<c, s>>
                                               ELSE IF from \in Owning THEN Nobody ELSE @]
  PROVE  /\ place' \in [Handlers -> Places]
         /\ load_lock' \in [Servers -> Handlers \cup {Nobody}]
         /\ \A d \in Clients, t \in Servers :
              load_lock'[t] = <<d, t>> <=> place'[<<d, t>>] \in Owning
         /\ RequestInv'
         /\ s \notin dead
         /\ \A d \in Clients, t \in Servers : Stopped(d, t)'
<1>1. /\ place[<<c, s>>] = from
      /\ \A d \in Clients, t \in Servers :
           place'[<<d, t>>] = IF d = c /\ t = s THEN to ELSE place[<<d, t>>]
      /\ \A t \in Servers :
           load_lock'[t] = IF t # s THEN load_lock[t] ELSE IF to \in Owning THEN <<c, s>>
                           ELSE IF from \in Owning THEN Nobody ELSE load_lock[t]
  BY HandlerPairs DEF ControlInv, ControlType, Move
<1>2. place' \in [Handlers -> Places]
  BY DEF ControlInv, ControlType, Move, Places, Owning
<1>3. load_lock' \in [Servers -> Handlers \cup {Nobody}]
  BY HandlerPairs DEF ControlInv, ControlType
<1>4. ASSUME NEW d \in Clients, NEW t \in Servers
      PROVE  load_lock'[t] = <<d, t>> <=> place'[<<d, t>>] \in Owning
  <2>1. load_lock[t] = <<d, t>> <=> place[<<d, t>>] \in Owning
    BY DEF ControlInv, ControlType
  <2>2. load_lock[s] = <<c, s>> <=> from \in Owning
    BY <1>1 DEF ControlInv, ControlType
  <2>3. <<d, t>> # Nobody /\ (<<d, t>> = <<c, s>> <=> d = c /\ t = s)
    BY HandlerPairs, NothingAssumption
  <2> QED
    BY <1>1, <2>1, <2>2, <2>3 DEF Owning
<1>5. from \notin {"out", "in", "done", "failed"}
  BY DEF Owning
<1>6. RequestInv'
  <2>1. ASSUME NEW d \in Clients PROVE (Locked(d) /\ Idle(d))'
    BY <1>1, <1>5, HomeType, RequestParts DEF ControlInv, Locked, Idle
  <2>2. ASSUME NEW d \in Clients, NEW t \in Servers PROVE PeerLocked(d, t)'
    <3>1. PeerLocked(d, t)
      BY RequestParts DEF ControlInv
    <3> QED
      BY <1>1, <1>5, <3>1 DEF PeerLocked
  <2>3. ASSUME NEW d \in Clients, NEW b \in Buckets PROVE Holds(d, b)'
    BY RequestParts DEF ControlInv, Holds
  <2> QED
    BY <2>1, <2>2, <2>3, NextRequests
<1>7. s \notin dead
  BY <1>1, <1>5, LoadParts DEF ControlInv, ControlType, Stopped
<1>8. ASSUME NEW d \in Clients, NEW t \in Servers PROVE Stopped(d, t)'
  <2>1. Stopped(d, t)
    BY LoadParts DEF ControlInv, ControlType
  <2> QED
    BY <1>1, <1>7, <2>1 DEF Stopped
<1> QED
  BY <1>2, <1>3, <1>4, <1>6, <1>7, <1>8

(* Who inserts an entry has the lock: nobody else does. *)
LEMMA OneInserts ==
  ASSUME ControlInv, NEW c \in Clients, NEW d \in Clients, NEW s \in Servers,
         place[<<c, s>>] \in Owning, place[<<d, s>>] \in Owning
  PROVE  c = d
<1>1. load_lock[s] = <<c, s>> /\ load_lock[s] = <<d, s>>
  BY DEF ControlInv, ControlType
<1> QED
  BY <1>1

LEMMA LookupKeepsControl ==
  ASSUME ControlInv, NEW h \in Handlers, GetContainer(h), UNCHANGED <<pc, holder>>
  PROVE  ControlInv'
<1> PICK c \in Clients, s \in Servers : h = <<c, s>>
  BY DEF Handlers
<1>a. h[1] = c /\ h[2] = s /\ Entry(h) = plugin[s][bucket[c]]
  BY DEF Entry
<1>b. bucket \in [Clients -> Buckets] /\ bucket[c] \in Buckets
  BY DEF ControlInv, ControlType
<1>c. ASSUME UNCHANGED <<plugin, loads, bucket, dead>>,
             \A d \in Clients, t \in Servers : Stopped(d, t)',
             \A d \in Clients, t \in Servers :
               place'[<<d, t>>] = "insert" <=> place[<<d, t>>] = "insert"
      PROVE  LoadInv'
  <2>1. ASSUME NEW t \in Servers, NEW b \in Buckets PROVE NotLoaded(t, b)'
    <3>1. NotLoaded(t, b)
      BY LoadParts DEF ControlInv, ControlType
    <3> QED
      BY <1>c, <3>1 DEF NotLoaded
  <2> QED
    BY <1>c, <2>1, NextLoads, LoadParts DEF ControlInv, ControlType
<1>d. ASSUME NEW from \in {"find", "wait"} \cup Owning, NEW to \in Places \ {"out"},
             Move(h, from, to), UNCHANGED <<bucket, dead, pc, holder>>,
             to \in Owning /\ from \notin Owning => load_lock[s] = Nobody,
             load_lock' = [load_lock EXCEPT ![s] = IF to \in Owning THEN <<c, s>>
                                                   ELSE IF from \in Owning THEN Nobody ELSE @],
             plugin' \in [Servers -> [Buckets -> {"none", "null", "loaded"}]],
             (from # "insert" /\ to # "insert" /\ UNCHANGED <<plugin, loads>>) \/ LoadInv'
      PROVE  ControlInv'
  <2>1. /\ place' \in [Handlers -> Places]
        /\ load_lock' \in [Servers -> Handlers \cup {Nobody}]
        /\ \A d \in Clients, t \in Servers :
             load_lock'[t] = <<d, t>> <=> place'[<<d, t>>] \in Owning
        /\ RequestInv'
        /\ \A d \in Clients, t \in Servers : Stopped(d, t)'
    BY <1>d, MoveKeepsPlaces
  <2>2. from # "insert" /\ to # "insert"
          => \A d \in Clients, t \in Servers :
               place'[<<d, t>>] = "insert" <=> place[<<d, t>>] = "insert"
    BY <1>d, HandlerPairs DEF ControlInv, ControlType, Move
  <2>3. LoadInv'
    BY <1>c, <1>d, <2>1, <2>2
  <2> QED
    BY <1>d, <2>1, <2>3 DEF ControlInv, ControlType
<1>1. CASE Find(h)
  BY <1>1, <1>a, <1>d DEF Find, Places, Owning, ControlInv, ControlType
<1>2. CASE FindNothing(h)
  BY <1>2, <1>a, <1>d DEF FindNothing, Places, Owning, ControlInv, ControlType
<1>3. CASE Lock(h)
  BY <1>3, <1>a, <1>d DEF Lock, TakeLoadLock, Places, Owning, ControlInv, ControlType
<1>4. CASE FindAgain(h)
  BY <1>4, <1>a, <1>d DEF FindAgain, DropLoadLock, Places, Owning, ControlInv, ControlType
<1>5. CASE Load(h)
  <2>1. /\ place[<<c, s>>] = "locked" /\ plugin[s][bucket[c]] = "none"
        /\ \A d \in Clients, t \in Servers :
             place'[<<d, t>>] = IF d = c /\ t = s THEN "insert" ELSE place[<<d, t>>]
    BY <1>5, <1>a, HandlerPairs DEF Load, Move, ControlInv, ControlType
  <2>0. load_lock' = [load_lock EXCEPT ![s] = <<c, s>>]
    <3>1. load_lock[s] = <<c, s>> /\ load_lock \in [Servers -> Handlers \cup {Nobody}]
      BY <2>1 DEF ControlInv, ControlType, Owning
    <3>2. load_lock' = load_lock
      BY <1>5 DEF Load
    <3> QED
      BY <3>1, <3>2
  <2>2. s \notin dead /\ \A d \in Clients, t \in Servers : Stopped(d, t)'
    BY <1>5, <2>0, MoveKeepsPlaces DEF Load, Places, Owning
  <2>3. loads[s][bucket[c]] = 0
    <3>1. NotLoaded(s, bucket[c])
      BY <1>b, LoadParts DEF ControlInv, ControlType
    <3>2. ASSUME NEW d \in Clients PROVE place[<<d, s>>] # "insert"
      BY <2>1, OneInserts DEF Owning
    <3> QED
      BY <2>1, <2>2, <3>1, <3>2 DEF NotLoaded
  <2>4. /\ loads' \in [Servers -> [Buckets -> 0 .. 1]]
        /\ \A t \in Servers, b \in Buckets :
             t # s \/ b # bucket[c] => loads'[t][b] = loads[t][b]
    <3>1. loads \in [Servers -> [Buckets -> 0 .. 1]]
      BY LoadParts DEF ControlInv, ControlType
    <3>2. loads' = [loads EXCEPT ![s] = [loads[s] EXCEPT ![bucket[c]] = 1]]
      <4>1. loads' = [loads EXCEPT ![s] = [loads[s] EXCEPT ![bucket[c]] = loads[s][bucket[c]] + 1]]
        BY <1>5, <1>a DEF Load
      <4> QED
        BY <2>3, <4>1
    <3> QED
      BY <1>b, <3>1, <3>2
  <2>5. ASSUME NEW t \in Servers, NEW b \in Buckets PROVE NotLoaded(t, b)'
    <3>1. NotLoaded(t, b)
      BY LoadParts DEF ControlInv, ControlType
    <3>2. UNCHANGED <<bucket, plugin, dead>>
      BY <1>5 DEF Load
    <3>3. CASE t = s /\ b = bucket[c]
      BY <2>1, <3>2, <3>3 DEF NotLoaded
    <3>4. CASE t # s \/ b # bucket[c]
      <4>1. ASSUME NEW d \in Clients, bucket[d] = b
            PROVE  place'[<<d, t>>] = "insert" <=> place[<<d, t>>] = "insert"
        BY <2>1, <3>4, <4>1
      <4> QED
        BY <2>4, <3>1, <3>2, <3>4, <4>1 DEF NotLoaded
    <3> QED
      BY <3>3, <3>4
  <2>6. LoadInv'
    BY <1>5, <2>2, <2>4, <2>5, NextLoads DEF Load, ControlInv, ControlType
  <2> QED
    BY <1>5, <1>d, <2>0, <2>6 DEF Load, Places, Owning, ControlInv, ControlType
<1>6. CASE LoadThrows(h)
  BY <1>6, <1>a, <1>d DEF LoadThrows, DropLoadLock, Places, Owning, ControlInv, ControlType
<1>e. ASSUME NEW from \in {"insert", "assign"}, NEW to \in {"assign", "in"},
             NEW value \in {"null", "loaded"}, Move(h, from, to), SetEntry(h, value),
             UNCHANGED <<bucket, loads, dead, pc, holder>>,
             load_lock' = [load_lock EXCEPT ![s] = IF to \in Owning THEN <<c, s>>
                                                   ELSE IF from \in Owning THEN Nobody ELSE @]
      PROVE  ControlInv'
  <2>1. \A d \in Clients, t \in Servers :
          place'[<<d, t>>] = IF d = c /\ t = s THEN to ELSE place[<<d, t>>]
    BY <1>e, HandlerPairs DEF Move, ControlInv, ControlType
  <2>2. /\ plugin' \in [Servers -> [Buckets -> {"none", "null", "loaded"}]]
        /\ \A t \in Servers, b \in Buckets :
             plugin'[t][b] = IF t = s /\ b = bucket[c] THEN value ELSE plugin[t][b]
    <3>1. plugin' = [plugin EXCEPT ![s] = [plugin[s] EXCEPT ![bucket[c]] = value]]
      BY <1>a, <1>e DEF SetEntry
    <3> QED
      BY <1>b, <3>1 DEF ControlInv, ControlType
  <2>3. \A d \in Clients, t \in Servers : Stopped(d, t)'
    BY <1>e, MoveKeepsPlaces DEF Places, Owning
  <2>4. ASSUME NEW t \in Servers, NEW b \in Buckets PROVE NotLoaded(t, b)'
    <3>1. NotLoaded(t, b)
      BY LoadParts DEF ControlInv, ControlType
    <3>2. CASE t = s /\ b = bucket[c]
      BY <2>2, <3>2 DEF NotLoaded
    <3>3. CASE t # s \/ b # bucket[c]
      <4>1. ASSUME NEW d \in Clients, bucket[d] = b
            PROVE  place'[<<d, t>>] = "insert" <=> place[<<d, t>>] = "insert"
        BY <2>1, <3>3, <4>1
      <4> QED
        BY <1>e, <2>2, <3>1, <3>3, <4>1 DEF NotLoaded
    <3> QED
      BY <3>2, <3>3
  <2>5. LoadInv'
    BY <1>e, <2>3, <2>4, NextLoads, LoadParts DEF ControlInv, ControlType
  <2> QED
    BY <1>e, <1>d, <2>2, <2>5 DEF Places, Owning
<1>7. CASE InsertEntry(h)
  BY <1>7, <1>a, <1>e DEF InsertEntry, Owning, Move, ControlInv, ControlType
<1>8. CASE AssignEntry(h)
  BY <1>8, <1>a, <1>e DEF AssignEntry, DropLoadLock, Owning
<1> QED
  BY <1>1, <1>2, <1>3, <1>4, <1>5, <1>6, <1>7, <1>8 DEF GetContainer
-----------------------------------------------------------------------------
(* The steps of a request outside its body. *)
LEMMA CallKeepsControl ==
  ASSUME ControlInv, NEW c \in Clients, NEW b \in Buckets, NEW k, Call(c, b, k),
         bucket' = bucket
  PROVE  ControlInv'
<1>1. /\ \A d \in Clients : pc'[d] = IF d = c THEN "container" ELSE pc[d]
      /\ \A d \in Clients, t \in Servers :
           place'[<<d, t>>] = IF d = c /\ t = Home[c] THEN "find" ELSE place[<<d, t>>]
      /\ UNCHANGED <<bucket, plugin, load_lock, loads, dead, holder>>
  BY HandlerPairs, HomeType DEF ControlInv, ControlType, Call, Here
<1>2. pc[c] = "idle" /\ Home[c] \notin dead /\ place[<<c, Home[c]>>] = "out"
  BY RequestParts DEF Call, ControlInv, Idle
<1>3. ControlType'
  <2>1. place' \in [Handlers -> Places]
    BY DEF ControlInv, ControlType, Call, Places
  <2>2. pc' \in [Clients -> {"idle", "container", "body", "join", "exited"}]
    BY DEF ControlInv, ControlType, Call
  <2>3. ASSUME NEW d \in Clients, NEW t \in Servers
        PROVE  load_lock'[t] = <<d, t>> <=> place'[<<d, t>>] \in Owning
    <3>1. load_lock[t] = <<d, t>> <=> place[<<d, t>>] \in Owning
      BY DEF ControlInv, ControlType
    <3> QED
      BY <1>1, <1>2, <3>1 DEF Owning
  <2> QED
    BY <1>1, <2>1, <2>2, <2>3 DEF ControlInv, ControlType
<1>4. RequestInv'
  <2>1. ASSUME NEW d \in Clients PROVE (Locked(d) /\ Idle(d))'
    <3>1. Locked(d) /\ Idle(d)
      BY RequestParts DEF ControlInv
    <3> QED
      BY <1>1, <3>1, HomeType DEF Locked, Idle
  <2>2. ASSUME NEW d \in Clients, NEW t \in Servers PROVE PeerLocked(d, t)'
    <3>1. PeerLocked(d, t)
      BY RequestParts DEF ControlInv
    <3> QED
      BY <1>1, <1>2, <3>1 DEF PeerLocked
  <2>3. ASSUME NEW d \in Clients, NEW a \in Buckets PROVE Holds(d, a)'
    <3>1. Holds(d, a)
      BY RequestParts DEF ControlInv
    <3> QED
      BY <1>1, <1>2, <3>1 DEF Holds
  <2> QED
    BY <2>1, <2>2, <2>3, NextRequests
<1>5. LoadInv'
  <2>1. ASSUME NEW d \in Clients, NEW t \in Servers PROVE Stopped(d, t)'
    <3>1. Stopped(d, t)
      BY LoadParts DEF ControlInv, ControlType
    <3> QED
      BY <1>1, <1>2, <3>1 DEF Stopped
  <2>2. ASSUME NEW t \in Servers, NEW d \in Clients
        PROVE  place'[<<d, t>>] = "insert" <=> place[<<d, t>>] = "insert"
    BY <1>1, <1>2
  <2>3. ASSUME NEW t \in Servers, NEW a \in Buckets PROVE NotLoaded(t, a)'
    <3>1. NotLoaded(t, a)
      BY LoadParts DEF ControlInv, ControlType
    <3> QED
      BY <1>1, <2>2, <3>1 DEF NotLoaded
  <2> QED
    BY <1>1, <1>3, <2>1, <2>3, LoadParts, NextLoads DEF ControlInv, ControlType
<1> QED
  BY <1>3, <1>4, <1>5 DEF ControlInv

LEMMA LoadsUnchanged ==
  ASSUME LoadInv, UNCHANGED mgrVars
  PROVE  LoadInv'
BY DEF LoadInv, mgrVars

LEMMA ContainerKeepsControl ==
  ASSUME ControlInv, NEW c \in Clients, pc[c] = "container", UNCHANGED mgrVars,
         \/ AcquireLock(c)
         \/ pc' = [pc EXCEPT ![c] = "exited"] /\ UNCHANGED holder
  PROVE  ControlInv'
<1>1. PICK to \in {"body", "exited"} :
        /\ \A d \in Clients : pc'[d] = IF d = c THEN to ELSE pc[d]
        /\ \A b \in Buckets : holder'[b] = IF to = "body" /\ b = bucket[c] THEN c ELSE holder[b]
        /\ to = "body" => holder[bucket[c]] = Nobody /\ place[Here(c)] = "in"
        /\ pc' \in [Clients -> {"idle", "container", "body", "join", "exited"}]
        /\ holder' \in [Buckets -> Clients \cup {Nobody}]
  <2>1. CASE AcquireLock(c)
    BY <2>1 DEF AcquireLock, ControlInv, ControlType
  <2>2. CASE pc' = [pc EXCEPT ![c] = "exited"] /\ UNCHANGED holder
    BY <2>2 DEF ControlInv, ControlType
  <2> QED
    BY <2>1, <2>2
<1>2. UNCHANGED <<bucket, place, plugin, load_lock, loads, dead>>
  BY DEF mgrVars
<1>3. ControlType'
  BY <1>1, <1>2 DEF ControlInv, ControlType
<1>4. RequestInv'
  <2>1. ASSUME NEW d \in Clients PROVE (Locked(d) /\ Idle(d))'
    <3>1. Locked(d) /\ Idle(d) /\ d # Nobody /\ bucket[d] \in Buckets
      BY RequestParts, NothingAssumption DEF ControlInv, ControlType
    <3> QED
      BY <1>1, <1>2, <3>1 DEF Locked, Idle, Here
  <2>2. ASSUME NEW d \in Clients, NEW t \in Servers PROVE PeerLocked(d, t)'
    <3>1. PeerLocked(d, t) /\ d # Nobody /\ bucket[d] \in Buckets
      BY RequestParts, NothingAssumption DEF ControlInv, ControlType
    <3> QED
      BY <1>1, <1>2, <3>1 DEF PeerLocked
  <2>3. ASSUME NEW d \in Clients, NEW a \in Buckets PROVE Holds(d, a)'
    <3>1. Holds(d, a)
      BY RequestParts DEF ControlInv
    <3> QED
      BY <1>1, <1>2, <3>1 DEF Holds
  <2> QED
    BY <2>1, <2>2, <2>3, NextRequests
<1> QED
  BY <1>3, <1>4, LoadsUnchanged DEF ControlInv

LEMMA RequestKeepsControl ==
  ASSUME ControlInv, NEW c \in Clients, RequestStep(c)
  PROVE  ControlInv'
<1>1. CASE ContainerThrows(c)
  BY <1>1, ContainerKeepsControl DEF ContainerThrows
<1>2. CASE AcquireLock(c)
  BY <1>2, ContainerKeepsControl DEF AcquireLock
<1>3. CASE AcquireThrows(c)
  BY <1>3, ContainerKeepsControl DEF AcquireThrows
<1>4. CASE ThreadThrows(c)
  BY <1>4, DieKeepsControl, HomeType DEF ThreadThrows
<1>5. CASE JoinThreads(c)
  BY <1>5, ReturnKeepsControl DEF JoinThreads
<1> QED
  BY <1>1, <1>2, <1>3, <1>4, <1>5 DEF RequestStep

(* The bodies of the functions, and the handlers at the peers. *)
LEMMA RedisKeepsControl ==
  ASSUME ControlInv, NEW c \in Clients, RedisStep(c)
  PROVE  ControlInv'
<1>1. pc[c] = "body" => \A s \in Peers(c) : place[<<c, s>>] \in {"out", "done"}
  BY DEF ControlInv, RequestInv
<1>2. CASE RedisFails(c)
  BY <1>2, DieKeepsControl, HomeType DEF RedisFails
<1>6. CASE RedisThrows(c)
  BY <1>6, ThrowKeepsControl DEF RedisThrows, RedisAnswers, InBody
<1>3. CASE RedisGet(c)
  BY <1>1, <1>3, ReturnKeepsControl DEF RedisGet, RedisAnswers, InBody
<1>4. CASE RedisPut(c) \/ RedisAppend(c)
  BY <1>4, ThreadsKeepControl DEF RedisPut, RedisAppend, RedisAnswers, InBody
<1>5. ASSUME NEW s \in Servers,
             RedisS2SPut(c, s) \/ RedisS2SAppend(c, s) \/ RedisS2SThrows(c, s)
      PROVE  ControlInv'
  BY <1>5, PeerEndKeepsControl
     DEF RedisS2SPut, RedisS2SAppend, RedisS2SThrows, AtPeer, Peers
<1> QED
  BY <1>2, <1>3, <1>4, <1>5, <1>6 DEF RedisStep

LEMMA PartialKeepsControl ==
  ASSUME ControlInv, NEW c \in Clients, PartialStep(c)
  PROVE  ControlInv'
<1>1. pc[c] = "body" => \A s \in Peers(c) : place[<<c, s>>] \in {"out", "done"}
  BY DEF ControlInv, RequestInv
<1>2. CASE PartialFails(c)
  BY <1>2, DieKeepsControl, HomeType DEF PartialFails
<1>3. CASE PartialThrows(c)
  BY <1>3, ThrowKeepsControl DEF PartialThrows, NoKey, Looks, Stores, InBody
<1>7. CASE PartialOpensNothing(c)
  BY <1>7, ThrowKeepsControl DEF PartialOpensNothing, Finds, Stores, InBody
<1>4. CASE PartialGetLocal(c) \/ PartialAppendLocal(c) \/ PartialPutLocal(c)
  BY <1>1, <1>4, ReturnKeepsControl
     DEF PartialGetLocal, PartialAppendLocal, PartialPutLocal, Finds, Stores, InBody
<1>5. CASE PartialGet(c) \/ PartialAppend(c) \/ PartialPut(c)
  BY <1>5, ThreadsKeepControl
     DEF PartialGet, PartialAppend, PartialPut, Finds, InBody, PeersAt
<1>6. ASSUME NEW s \in Servers,
             \/ PartialS2SPut(c, s) \/ PartialS2SPutFails(c, s)
             \/ PartialS2SAppend(c, s) \/ PartialS2SGet(c, s) \/ PartialS2SThrows(c, s)
      PROVE  ControlInv'
  <2>1. s \in Peers(c) /\ place[<<c, s>>] = "in"
    BY <1>6 DEF PartialS2SPut, PartialS2SPutFails, PartialS2SAppend, PartialS2SGet,
       PartialS2SThrows, AtPeer, Peers
  <2>2. Die(s) \/ \E to \in {"done", "failed"} : PeerEnds(c, s, to)
    BY <1>6 DEF PartialS2SPut, PartialS2SPutFails, PartialS2SAppend, PartialS2SGet,
       PartialS2SThrows
  <2> QED
    BY <2>1, <2>2, PeerEndKeepsControl, DieKeepsControl
<1> QED
  BY <1>2, <1>3, <1>4, <1>5, <1>6, <1>7 DEF PartialStep
-----------------------------------------------------------------------------
(* What every step but a call leaves alone, and what a call does.          *)
Rest == <<kind, seqno, bucket, named, scenario>>

LEMMA StepKeepsRest ==
  ASSUME NEW c \in Clients, Continue(c)
  PROVE  UNCHANGED Rest
<1>1. CASE RequestStep(c)
  BY <1>1 DEF Continue, RequestStep, ContainerThrows, AcquireLock, AcquireThrows, ThreadThrows,
     JoinThreads, Die, Return, HandlersEnd, mgrVars, Rest
<1>2. CASE RedisStep(c)
  BY <1>2 DEF Continue, RedisStep, RedisFails, RedisThrows, RedisGet, RedisPut, RedisAppend,
     RedisS2SPut, RedisS2SAppend, RedisS2SThrows, Die, Return, Throw, StartThreads, PeerEnds,
     HandlersEnd, Rest
<1>3. CASE PartialStep(c)
  BY <1>3 DEF Continue, PartialStep, PartialFails, PartialThrows, PartialOpensNothing,
     PartialGetLocal, PartialGet, PartialAppendLocal, PartialAppend, PartialPutLocal, PartialPut,
     PartialS2SPut, PartialS2SPutFails, PartialS2SAppend, PartialS2SGet, PartialS2SThrows, Die,
     Return, Throw, StartThreads, PeerEnds, HandlersEnd, Rest
<1> QED
  BY <1>1, <1>2, <1>3 DEF Continue

LEMMA LookupKeepsRest ==
  ASSUME NEW h \in Handlers, Lookup(h)
  PROVE  UNCHANGED Rest /\ UNCHANGED <<got, files, redis, descriptors>>
<1>1. CASE GetContainer(h) /\ UNCHANGED callVars
  BY <1>1 DEF Lookup, GetContainer, Find, FindNothing, Lock, FindAgain, Load, LoadThrows,
     InsertEntry, AssignEntry, callVars, Rest
<1>2. CASE NullReference(h)
  BY <1>2 DEF Lookup, NullReference, Die, Rest
<1> QED
  BY <1>1, <1>2 DEF Lookup

LEMMA ScenarioType ==
  ASSUME ScenarioInv
  PROVE  /\ scenario \in Scenario
         /\ bucket \in [Clients -> Buckets]
         /\ scenario.kinds \in [Clients -> SUBSET Kinds]
         /\ scenario.writes \in 0 .. MaxWrites
BY ContainersAssumption DEF ScenarioInv, Scenario

LEMMA NextKeepsScenario ==
  ASSUME TypeOK, ScenarioInv, [Next]_vars
  PROVE  ScenarioInv'
<1>1. ASSUME NEW c \in Clients, CallOne(c)
      PROVE  ScenarioInv'
  <2>1. PICK k \in scenario.kinds[c] : /\ k = "Get" \/ seqno[c] < scenario.writes
                                       /\ Call(c, scenario.use[c], k)
    BY <1>1 DEF CallOne
  <2>2. UNCHANGED <<scenario, named>>
    BY <1>1 DEF CallOne
  <2>3. bucket' = bucket
    BY <2>1, ScenarioType DEF Call, ScenarioInv
  <2>4. kind' = [kind EXCEPT ![c] = k]
        /\ seqno' = [seqno EXCEPT ![c] = IF k = "Get" THEN @ ELSE @ + 1]
    BY <2>1 DEF Call
  <2>5. ASSUME NEW d \in Clients
        PROVE  /\ kind'[d] \in scenario.kinds[d] \cup {"Get"}
               /\ kind'[d] # "Get" => seqno'[d] > 0
    BY <2>1, <2>4 DEF TypeOK, ScenarioInv
  <2> QED
    BY <2>2, <2>3, <2>5 DEF ScenarioInv
<1>2. ASSUME UNCHANGED Rest
      PROVE  ScenarioInv'
  BY <1>2 DEF ScenarioInv, Rest
<1>3. CASE UNCHANGED vars
  BY <1>2, <1>3 DEF vars, requestVars, mgrVars, callVars, Rest
<1> QED
  BY <1>1, <1>2, <1>3, StepKeepsRest, LookupKeepsRest DEF Next

LEMMA NextKeepsControl ==
  ASSUME ControlInv, ScenarioInv, [Next]_vars
  PROVE  ControlInv'
<1>1. ASSUME NEW c \in Clients, CallOne(c)
      PROVE  ControlInv'
  <2>1. PICK k : Call(c, scenario.use[c], k)
    BY <1>1 DEF CallOne
  <2>2. bucket' = bucket /\ scenario.use[c] \in Buckets
    BY <2>1, ScenarioType DEF Call, ScenarioInv
  <2> QED
    BY <2>1, <2>2, CallKeepsControl
<1>2. ASSUME NEW c \in Clients, Continue(c)
      PROVE  ControlInv'
  BY <1>2, RequestKeepsControl, RedisKeepsControl, PartialKeepsControl DEF Continue
<1>3. ASSUME NEW h \in Handlers, Lookup(h)
      PROVE  ControlInv'
  BY <1>3, LookupKeepsControl, DieKeepsControl, HandlerPairs DEF Lookup, NullReference, callVars
<1>4. CASE UNCHANGED vars
  <2>1. UNCHANGED <<mgrVars, pc, holder>>
    BY <1>4 DEF vars, requestVars, callVars
  <2> QED
    BY <2>1 DEF ControlInv, ControlType, RequestInv, LoadInv, mgrVars, Here
<1> QED
  BY <1>1, <1>2, <1>3, <1>4 DEF Next
-----------------------------------------------------------------------------
(* Contents of files. *)
LEMMA ContentType ==
  ASSUME TypeOK, ScenarioInv, NEW c \in Clients, kind[c] # "Get"
  PROVE  /\ seqno[c] \in 1 .. MaxWrites
         /\ Content(c) \in Seq(Chunk) /\ Len(Content(c)) = 1
         /\ Content(c)[1] = [client |-> c, n |-> seqno[c]]
<1>1. seqno[c] \in 1 .. MaxWrites
  BY DEF TypeOK, ScenarioInv
<1>2. [client |-> c, n |-> seqno[c]] \in Chunk
  BY <1>1 DEF Chunk
<1> QED
  BY <1>1, <1>2 DEF Content

LEMMA ReplacedType ==
  ASSUME TypeOK, ScenarioInv, NEW c \in Clients, NEW s, kind[c] # "Get"
  PROVE  Replaced(c, s) = Content(c)
<1>1. Len(<<>>) = 0
  OBVIOUS
<1> QED
  BY <1>1, ContentType DEF Replaced, WriteAtStart, Truncate

LEMMA AppendToType ==
  ASSUME NEW file \in Seq(Chunk) \cup {NoFile}, NEW content \in Seq(Chunk)
  PROVE  AppendTo(file, content) \in Seq(Chunk)
BY DEF AppendTo

LEMMA FileType ==
  ASSUME TypeOK, ScenarioInv, NEW c \in Clients, NEW s \in Servers
  PROVE  /\ File(c, s) \in Seq(Chunk) \cup {NoFile}
         /\ kind[c] # "Get" => AppendTo(File(c, s), Content(c)) \in Seq(Chunk)
<1>1. bucket[c] \in Buckets
  BY ScenarioType
<1>2. File(c, s) \in Seq(Chunk) \cup {NoFile}
  BY <1>1 DEF TypeOK, File
<1> QED
  BY <1>2, ContentType, AppendToType

(* Every write of a file gives it a content, one server's and one object's. *)
LEMMA SetFileType ==
  ASSUME TypeOK, ScenarioInv, NEW c \in Clients, NEW s \in Servers,
         NEW content \in Seq(Chunk), SetFile(c, s, content)
  PROVE  /\ files' \in [Servers -> [Buckets -> Seq(Chunk) \cup {NoFile}]]
         /\ \A t \in Servers, b \in Buckets :
              files'[t][b] = IF t = s /\ b = bucket[c] THEN content ELSE files[t][b]
<1>1. bucket[c] \in Buckets
  BY ScenarioType
<1>2. files' = [files EXCEPT ![s] = [files[s] EXCEPT ![bucket[c]] = content]]
  BY DEF SetFile
<1> QED
  BY <1>1, <1>2 DEF TypeOK

LEMMA HostsType ==
  ASSUME NEW hosts \in HostLists, NEW s \in Servers
  PROVE  Append(hosts, s) \in HostLists /\ Len(Append(hosts, s)) > 1
<1>1. hosts \in Seq(Servers) /\ Len(hosts) > 0
  BY DEF HostLists
<1>2. Append(hosts, s) \in Seq(Servers) /\ Len(Append(hosts, s)) = Len(hosts) + 1
  BY <1>1
<1>3. Append(hosts, s) # <<>>
  BY <1>1, <1>2
<1> QED
  BY <1>1, <1>2, <1>3 DEF HostLists

LEMMA OneIsNotMany ==
  ASSUME NEW hosts \in HostLists, Len(hosts) > 1
  PROVE  Len(hosts) # 1
BY DEF HostLists

(* What the bodies do to the files, to redis and to the answers. *)
Writes(c, s) ==
  \/ UNCHANGED files
  \/ kind[c] = "Put" /\ SetFile(c, s, Content(c))
  \/ kind[c] = "Append" /\ SetFile(c, s, AppendTo(File(c, s), Content(c)))

Answers(c, s) ==
  \/ UNCHANGED got
  \/ got' = [got EXCEPT ![c] = <<>>]
  \/ File(c, s) # NoFile /\ got' = [got EXCEPT ![c] = File(c, s)]

SetsKeys(c, s) ==
  \/ UNCHANGED redis
  \/ /\ kind[c] = "Put"
     /\ \/ redis' = PathSet
        \/ redis' = LocationSet
        \/ /\ redis.percent # Missing
           /\ redis' = [LocationSet EXCEPT !.hosts = Append(redis.percent, s)]

LEMMA DataSteps ==
  ASSUME TypeOK, ScenarioInv, NEW c \in Clients, Continue(c)
  PROVE  \E s \in Servers : Writes(c, s) /\ Answers(c, s) /\ SetsKeys(c, s)
<1>h. Home[c] \in Servers
  BY HomeType
<1>1. CASE RequestStep(c)
  BY <1>1, <1>h DEF RequestStep, ContainerThrows, AcquireLock, AcquireThrows, ThreadThrows,
     JoinThreads, Writes, Answers, SetsKeys
<1>2. CASE RedisFails(c) \/ PartialFails(c) \/ PartialThrows(c) \/ PartialPut(c) \/ PartialAppend(c)
  BY <1>2, <1>h DEF RedisFails, PartialFails, PartialThrows, PartialPut, PartialAppend,
     Writes, Answers, SetsKeys
<1>9. CASE RedisThrows(c) \/ PartialOpensNothing(c)
  <2>1. UNCHANGED <<got, files>>
    BY <1>9 DEF RedisThrows, PartialOpensNothing
  <2>2. UNCHANGED redis \/ (kind[c] = "Put" /\ (redis' = PathSet \/ redis' = LocationSet))
    BY <1>9 DEF RedisThrows, RedisAnswers, PartialOpensNothing, Stores, InBody
  <2> QED
    BY <1>h, <2>1, <2>2 DEF Writes, Answers, SetsKeys
<1>3. CASE RedisGet(c) \/ PartialGetLocal(c) \/ PartialGet(c)
  BY <1>3, <1>h DEF RedisGet, PartialGetLocal, PartialGet, Writes, Answers, SetsKeys
<1>4. CASE RedisPut(c) \/ PartialPutLocal(c)
  BY <1>4, <1>h, ReplacedType
     DEF RedisPut, RedisAnswers, PartialPutLocal, Stores, InBody, Writes, Answers, SetsKeys
<1>5. CASE RedisAppend(c) \/ PartialAppendLocal(c)
  BY <1>5, <1>h
     DEF RedisAppend, RedisAnswers, PartialAppendLocal, Finds, InBody, Writes, Answers, SetsKeys
<1>6. ASSUME NEW s \in Servers, RedisS2SPut(c, s) \/ PartialS2SPut(c, s)
      PROVE  Writes(c, s) /\ Answers(c, s) /\ SetsKeys(c, s)
  BY <1>6, ReplacedType DEF RedisS2SPut, PartialS2SPut, AtPeer, Writes, Answers, SetsKeys
<1>7. ASSUME NEW s \in Servers, RedisS2SAppend(c, s) \/ PartialS2SAppend(c, s)
      PROVE  Writes(c, s) /\ Answers(c, s) /\ SetsKeys(c, s)
  BY <1>7 DEF RedisS2SAppend, PartialS2SAppend, AtPeer, Writes, Answers, SetsKeys
<1>8. ASSUME NEW s \in Servers,
             \/ PartialS2SPutFails(c, s) \/ PartialS2SGet(c, s)
             \/ RedisS2SThrows(c, s) \/ PartialS2SThrows(c, s)
      PROVE  Writes(c, s) /\ Answers(c, s) /\ SetsKeys(c, s)
  BY <1>8 DEF PartialS2SPutFails, PartialS2SGet, RedisS2SThrows, PartialS2SThrows,
     Writes, Answers, SetsKeys
<1> QED
  BY <1>1, <1>2, <1>3, <1>4, <1>5, <1>6, <1>7, <1>8, <1>9 DEF Continue, RedisStep, PartialStep

(* A step takes at most one descriptor, of a server that has one, and      *)
(* gives none back.                                                        *)
LEMMA ConnectTakes ==
  ASSUME descriptors \in [Servers -> Nat \cup {Plenty}], NEW s \in Servers,
         UNCHANGED descriptors \/ Connect(s)
  PROVE  /\ descriptors' \in [Servers -> Nat \cup {Plenty}]
         /\ \A t \in Servers : Spare(t, 1)' => Spare(t, 1)
         /\ Connect(s) /\ Connected(s) /\ Spare(s, 1)' => Spare(s, 2)
<1>1. CASE UNCHANGED descriptors /\ ~Connect(s)
  BY <1>1 DEF Spare
<1>2. CASE Connect(s)
  <2>1. CASE Connected(s) /\ descriptors[s] # Plenty
    <3>1. descriptors[s] \in Nat \ {0}
      BY <2>1 DEF Connected, Spare
    <3>2. \A t \in Servers :
            descriptors'[t] = IF t = s THEN descriptors[s] - 1 ELSE descriptors[t]
      BY <1>2, <2>1 DEF Connect
    <3>3. descriptors' = [descriptors EXCEPT ![s] = descriptors[s] - 1]
      BY <1>2, <2>1 DEF Connect
    <3>4. descriptors' \in [Servers -> Nat \cup {Plenty}]
      BY <3>1, <3>3
    <3>5. ASSUME NEW t \in Servers, Spare(t, 1)'
          PROVE  Spare(t, 1)
      BY <3>1, <3>2, <3>5 DEF Spare
    <3>6. Spare(s, 1)' => Spare(s, 2)
      BY <3>1, <3>2 DEF Spare
    <3> QED
      BY <3>4, <3>5, <3>6
  <2>2. CASE ~(Connected(s) /\ descriptors[s] # Plenty)
    <3>1. descriptors' = descriptors
      BY <1>2, <2>2 DEF Connect
    <3>2. Connected(s) => Spare(s, 2)
      BY <2>2, NothingAssumption DEF Spare
    <3> QED
      BY <3>1, <3>2 DEF Spare
  <2> QED
    BY <2>1, <2>2
<1> QED
  BY <1>1, <1>2

LEMMA DescriptorSteps ==
  ASSUME NEW c \in Clients, Continue(c)
  PROVE  \E s \in Servers : UNCHANGED descriptors \/ Connect(s)
<1>h. Home[c] \in Servers
  BY HomeType
<1>1. CASE RequestStep(c)
  BY <1>1, <1>h DEF RequestStep, ContainerThrows, AcquireLock, AcquireThrows, ThreadThrows,
     JoinThreads
<1>2. CASE RedisStep(c)
  BY <1>2, <1>h DEF RedisStep, RedisFails, RedisThrows, RedisGet, RedisPut, RedisAppend,
     RedisAnswers, RedisS2SPut, RedisS2SAppend, RedisS2SThrows
<1>3. CASE PartialStep(c)
  BY <1>3, <1>h DEF PartialStep, PartialFails, PartialThrows, PartialOpensNothing,
     PartialGetLocal, PartialGet, PartialAppendLocal, PartialAppend, PartialPutLocal, PartialPut,
     PartialS2SPut, PartialS2SPutFails, PartialS2SAppend, PartialS2SGet, PartialS2SThrows, Finds
<1> QED
  BY <1>1, <1>2, <1>3 DEF Continue

LEMMA NextKeepsData ==
  ASSUME TypeOK, ScenarioInv, [Next]_vars
  PROVE  DataType'
<1>t. DataType
  BY TypeParts, ScenarioType
<1>1. ASSUME NEW c \in Clients, CallOne(c)
      PROVE  DataType'
  <2>1. PICK k \in scenario.kinds[c] : /\ k = "Get" \/ seqno[c] < scenario.writes
                                       /\ Call(c, scenario.use[c], k)
    BY <1>1 DEF CallOne
  <2>2. k \in Kinds /\ scenario.writes \in Nat /\ scenario.writes <= MaxWrites /\ MaxWrites \in Nat
    BY ScenarioType, ContainersAssumption
  <2>3. kind' = [kind EXCEPT ![c] = k] /\ UNCHANGED <<got, files, redis, descriptors>>
        /\ seqno' = [seqno EXCEPT ![c] = IF k = "Get" THEN @ ELSE @ + 1]
    BY <2>1 DEF Call
  <2> QED
    BY <1>t, <2>1, <2>2, <2>3 DEF DataType
<1>2. ASSUME NEW c \in Clients, Continue(c)
      PROVE  DataType'
  <2>1. PICK s \in Servers : Writes(c, s) /\ Answers(c, s) /\ SetsKeys(c, s)
    BY <1>2, DataSteps
  <2>2. files' \in [Servers -> [Buckets -> Seq(Chunk) \cup {NoFile}]]
    BY <1>t, <2>1, SetFileType, ContentType, FileType DEF Writes, DataType
  <2>3. got' \in [Clients -> Seq(Chunk)]
    <3>1. <<>> \in Seq(Chunk)
      OBVIOUS
    <3>2. File(c, s) # NoFile => File(c, s) \in Seq(Chunk)
      BY FileType
    <3> QED
      BY <1>t, <2>1, <3>1, <3>2 DEF Answers, DataType
  <2>4. redis' \in KeyValues
    <3>1. redis.percent # Missing => Append(redis.percent, s) \in HostLists
      BY <1>t, HostsType DEF DataType, KeyValues
    <3> QED
      BY <1>t, <2>1, <3>1 DEF SetsKeys, PathSet, LocationSet, DataType, KeyValues
  <2>5. descriptors' \in [Servers -> Nat \cup {Plenty}]
    BY <1>2, <1>t, DescriptorSteps, ConnectTakes DEF DataType
  <2> QED
    BY <1>2, <1>t, <2>2, <2>3, <2>4, <2>5, StepKeepsRest DEF DataType, Rest
<1>3. ASSUME NEW h \in Handlers, Lookup(h)
      PROVE  DataType'
  BY <1>3, <1>t, LookupKeepsRest DEF DataType, Rest
<1>4. CASE UNCHANGED vars
  BY <1>4, <1>t DEF vars, requestVars, callVars, DataType
<1> QED
  BY <1>1, <1>2, <1>3, <1>4 DEF Next
-----------------------------------------------------------------------------
(* A request that goes on stays where it was, as do its handlers at peers, *)
(* or these go on without having returned.                                 *)
Frame(d) ==
  pc'[d] \in {"body", "join"} =>
    /\ pc'[d] = pc[d]
    /\ \A s \in Servers :
         /\ place[<<d, s>>] # "out" => place'[<<d, s>>] # "out"
         /\ place'[<<d, s>>] = "done" <=> place[<<d, s>>] = "done"

LEMMA DieFrame ==
  ASSUME ControlInv, NEW s \in Servers, Die(s), NEW d \in Clients
  PROVE  Frame(d)
<1>1. pc'[d] = IF Home[d] = s /\ pc[d] # "idle" THEN "exited" ELSE pc[d]
  BY DEF Die
<1>2. \A t \in Servers : place'[<<d, t>>] = IF t = s /\ place[<<d, t>>] \notin {"out", "done"}
                                            THEN "failed" ELSE place[<<d, t>>]
  BY HandlerPairs DEF Die
<1> QED
  BY <1>1, <1>2 DEF Frame

LEMMA LookupFrame ==
  ASSUME ControlInv, NEW h \in Handlers, Lookup(h), NEW d \in Clients
  PROVE  Frame(d)
<1>1. CASE GetContainer(h) /\ UNCHANGED callVars
  <2>1. PICK from \in {"find", "wait", "locked", "insert", "assign"},
             to \in {"wait", "locked", "insert", "assign", "in", "failed"} :
          Move(h, from, to)
    BY <1>1 DEF GetContainer, Find, FindNothing, Lock, FindAgain, Load, LoadThrows,
       InsertEntry, AssignEntry
  <2>2. pc' = pc
    BY <1>1 DEF callVars
  <2>3. ASSUME NEW s \in Servers
        PROVE  /\ place[<<d, s>>] # "out" => place'[<<d, s>>] # "out"
               /\ place'[<<d, s>>] = "done" <=> place[<<d, s>>] = "done"
    <3>1. <<d, s>> \in Handlers
      BY HandlerPairs
    <3>2. place[h] = from /\ place'[<<d, s>>] = IF <<d, s>> = h THEN to ELSE place[<<d, s>>]
      BY <2>1, <3>1 DEF Move, ControlInv, ControlType
    <3> QED
      BY <3>2
  <2> QED
    BY <2>2, <2>3 DEF Frame
<1>2. CASE NullReference(h)
  BY <1>2, DieFrame, HandlerPairs DEF NullReference
<1> QED
  BY <1>1, <1>2 DEF Lookup

(* What a step of one client's request does to the others'. *)
Others(c) ==
  \A d \in Clients \ {c} :
    /\ pc'[d] = pc[d]
    /\ \A s \in Servers : place'[<<d, s>>] = place[<<d, s>>]

LEMMA ReturnOthers ==
  ASSUME ControlInv, NEW c \in Clients, NEW to, pc' = [pc EXCEPT ![c] = to], HandlersEnd(c)
  PROVE  Others(c)
BY HandlerPairs DEF HandlersEnd, Others, ControlInv, ControlType

LEMMA ThreadsOthers ==
  ASSUME ControlInv, NEW c \in Clients, NEW peers, StartThreads(c, peers)
  PROVE  Others(c)
BY HandlerPairs DEF StartThreads, Others, ControlInv, ControlType

LEMMA PeerOthers ==
  ASSUME ControlInv, NEW c \in Clients, NEW s \in Servers, NEW to, PeerEnds(c, s, to)
  PROVE  Others(c)
BY HandlerPairs DEF PeerEnds, Others, ControlInv, ControlType

LEMMA StepFrames ==
  ASSUME ControlInv, NEW c \in Clients, Continue(c)
  PROVE  Others(c) \/ \E s \in Servers : Die(s)
<1>h. Home[c] \in Servers
  BY HomeType
<1>1. CASE RequestStep(c)
  <2>1. CASE ContainerThrows(c) \/ AcquireLock(c) \/ AcquireThrows(c)
    BY <2>1 DEF ContainerThrows, AcquireLock, AcquireThrows, mgrVars, Others, ControlInv, ControlType
  <2>2. CASE ThreadThrows(c)
    BY <2>2, <1>h DEF ThreadThrows
  <2>3. CASE JoinThreads(c)
    BY <2>3, ReturnOthers DEF JoinThreads, Return
  <2> QED
    BY <1>1, <2>1, <2>2, <2>3 DEF RequestStep
<1>2. CASE RedisStep(c)
  BY <1>2, <1>h, ReturnOthers, ThreadsOthers, PeerOthers
     DEF RedisStep, RedisFails, RedisThrows, RedisGet, RedisPut, RedisAppend, RedisS2SPut,
         RedisS2SAppend, RedisS2SThrows, Return, Throw
<1>3. CASE PartialStep(c)
  <2>1. CASE PartialFails(c) \/ PartialThrows(c) \/ PartialOpensNothing(c) \/ PartialGetLocal(c)
    BY <2>1, <1>h, ReturnOthers
       DEF PartialFails, PartialThrows, PartialOpensNothing, PartialGetLocal, Return, Throw
  <2>2. CASE PartialGet(c) \/ PartialAppend(c) \/ PartialPut(c)
    BY <2>2, ThreadsOthers DEF PartialGet, PartialAppend, PartialPut
  <2>3. CASE PartialAppendLocal(c) \/ PartialPutLocal(c)
    BY <2>3, ReturnOthers DEF PartialAppendLocal, PartialPutLocal, Return
  <2>4. ASSUME NEW s \in Servers,
               \/ PartialS2SPut(c, s) \/ PartialS2SPutFails(c, s)
               \/ PartialS2SAppend(c, s) \/ PartialS2SGet(c, s) \/ PartialS2SThrows(c, s)
        PROVE  Others(c) \/ Die(s)
    BY <2>4, PeerOthers DEF PartialS2SPut, PartialS2SPutFails, PartialS2SAppend,
       PartialS2SGet, PartialS2SThrows
  <2> QED
    BY <1>3, <2>1, <2>2, <2>3, <2>4 DEF PartialStep
<1> QED
  BY <1>1, <1>2, <1>3 DEF Continue

LEMMA OthersFrame ==
  ASSUME ControlInv, NEW c \in Clients, Continue(c), NEW d \in Clients \ {c}
  PROVE  Frame(d)
BY StepFrames, DieFrame DEF Others, Frame

(* Who writes has the lock of what is written. *)
LEMMA WriterOwns ==
  ASSUME ControlInv, NEW c \in Clients, Continue(c)
  PROVE  UNCHANGED files \/ holder[bucket[c]] = c
<1>1. ASSUME NEW b, NEW k, InBody(c, b, k)
      PROVE  holder[bucket[c]] = c
  BY <1>1, RequestParts DEF InBody, ControlInv, Locked
<1>2. ASSUME NEW s \in Servers, NEW b, NEW k, AtPeer(c, s, b, k)
      PROVE  holder[bucket[c]] = c
  BY <1>2, RequestParts DEF AtPeer, ControlInv, PeerLocked
<1>3. CASE RequestStep(c)
  BY <1>3 DEF RequestStep, ContainerThrows, AcquireLock, AcquireThrows, ThreadThrows, JoinThreads
<1>4. CASE RedisStep(c)
  BY <1>1, <1>2, <1>4 DEF RedisStep, RedisFails, RedisThrows, RedisGet, RedisPut, RedisAppend,
     RedisAnswers, RedisS2SPut, RedisS2SAppend, RedisS2SThrows
<1>5. CASE PartialStep(c)
  BY <1>1, <1>2, <1>5 DEF PartialStep, PartialFails, PartialThrows, PartialOpensNothing,
     PartialGetLocal, PartialGet, PartialAppendLocal, PartialAppend, PartialPutLocal, PartialPut,
     PartialS2SPut, PartialS2SPutFails, PartialS2SAppend, PartialS2SGet, PartialS2SThrows, Finds,
     Stores
<1> QED
  BY <1>3, <1>4, <1>5 DEF Continue
-----------------------------------------------------------------------------
(* The copies of rep-redis. *)
CopyOk(c) ==
  bucket[c] = "rep-redis" =>
    /\ pc[c] = "body" => \A s \in Servers : File(c, s) = File(c, Home[c])
    /\ pc[c] = "join" =>
         /\ kind[c] # "Get"
         /\ \A s \in Servers : s # Home[c] =>
              /\ place[<<c, s>>] # "out"
              /\ File(c, Home[c]) = IF place[<<c, s>>] = "done" THEN File(c, s)
                                                             ELSE Updated(c, s)

LEMMA CopyParts == CopiesInv <=> \A c \in Clients : CopyOk(c)
BY HomeType DEF CopiesInv, CopyOk, Peers

LEMMA NextCopies ==
  ASSUME \A c \in Clients : CopyOk(c)'
  PROVE  CopiesInv'
<1>1. ASSUME NEW c \in Clients, NEW s \in Peers(c)
      PROVE  s \in Servers /\ s # Home[c]
  BY <1>1 DEF Peers
<1> QED
  BY <1>1 DEF CopiesInv, CopyOk

SameColumn == \A s \in Servers : files'[s]["rep-redis"] = files[s]["rep-redis"]

LEMMA FrameKeepsCopy ==
  ASSUME NEW c \in Clients, CopyOk(c), Frame(c), SameColumn,
         UNCHANGED <<kind, seqno, bucket>>
  PROVE  CopyOk(c)'
<1> SUFFICES ASSUME bucket[c] = "rep-redis", pc'[c] \in {"body", "join"}
             PROVE  CopyOk(c)'
  BY DEF CopyOk
<1>1. \A s \in Servers : File(c, s)' = File(c, s) /\ Updated(c, s)' = Updated(c, s)
  BY DEF SameColumn, File, Updated, Content
<1>2. pc'[c] = pc[c] /\ kind'[c] = kind[c]
  BY DEF Frame
<1>3. ASSUME pc[c] = "body", NEW s \in Servers
      PROVE  (File(c, s) = File(c, Home[c]))'
  BY <1>1, <1>3, HomeType DEF CopyOk
<1>4. ASSUME pc[c] = "join", NEW s \in Servers, s # Home[c]
      PROVE  /\ kind[c] # "Get" /\ place'[<<c, s>>] # "out"
             /\ (File(c, Home[c]) = IF place[<<c, s>>] = "done" THEN File(c, s)
                                                             ELSE Updated(c, s))'
  <2>1. /\ place[<<c, s>>] # "out" => place'[<<c, s>>] # "out"
        /\ place'[<<c, s>>] = "done" <=> place[<<c, s>>] = "done"
    BY DEF Frame
  <2> QED
    BY <1>1, <1>4, <2>1, HomeType DEF CopyOk
<1>5. CASE pc[c] = "body"
  BY <1>2, <1>3, <1>5 DEF CopyOk
<1>6. CASE pc[c] = "join"
  BY <1>2, <1>4, <1>6 DEF CopyOk
<1> QED
  BY <1>2, <1>5, <1>6

(* rep-partial leaves the copies of rep-redis and their locks alone. *)
LEMMA PartialBucket ==
  ASSUME NEW c \in Clients, PartialStep(c)
  PROVE  bucket[c] = "rep-partial"
BY DEF PartialStep, PartialFails, PartialThrows, PartialOpensNothing, PartialGetLocal, PartialGet,
   PartialAppendLocal, PartialAppend, PartialPutLocal, PartialPut, PartialS2SPut,
   PartialS2SPutFails, PartialS2SAppend, PartialS2SGet, PartialS2SThrows, Looks, Stores, NoKey,
   Finds, InBody, AtPeer

LEMMA ColumnKept ==
  ASSUME TypeOK, ScenarioInv, NEW c \in Clients, Continue(c),
         bucket[c] # "rep-redis" \/ UNCHANGED files
  PROVE  SameColumn
<1>1. PICK s \in Servers : Writes(c, s)
  BY DataSteps
<1>2. "rep-redis" \in Buckets
  BY ContainersAssumption
<1>3. ASSUME NEW content \in Seq(Chunk), SetFile(c, s, content), bucket[c] # "rep-redis"
      PROVE  SameColumn
  BY <1>2, <1>3, SetFileType DEF SameColumn
<1>4. kind[c] # "Get" => Content(c) \in Seq(Chunk) /\ AppendTo(File(c, s), Content(c)) \in Seq(Chunk)
  BY ContentType, FileType
<1>5. CASE UNCHANGED files
  BY <1>5 DEF SameColumn
<1> QED
  BY <1>1, <1>3, <1>4, <1>5 DEF Writes

(* Another request's step. *)
LEMMA OthersKeepCopy ==
  ASSUME TypeOK, ScenarioInv, ControlInv, NEW c \in Clients, Continue(c),
         NEW d \in Clients \ {c}, CopyOk(d)
  PROVE  CopyOk(d)'
<1>1. Frame(d) /\ UNCHANGED <<kind, seqno, bucket>>
  BY OthersFrame, StepKeepsRest DEF Rest
<1>2. CASE bucket[c] # "rep-redis" \/ UNCHANGED files
  BY <1>1, <1>2, ColumnKept, FrameKeepsCopy
<1>3. CASE bucket[c] = "rep-redis" /\ holder[bucket[c]] = c
  <2>1. bucket[d] = "rep-redis" => pc[d] \notin {"body", "join"}
    BY <1>3, RequestParts DEF ControlInv, Locked
  <2> QED
    BY <1>1, <2>1 DEF Frame, CopyOk
<1> QED
  BY <1>2, <1>3, WriterOwns

(* The steps of the request itself. *)
LEMMA RequestKeepsCopy ==
  ASSUME ControlInv, NEW c \in Clients, RequestStep(c), UNCHANGED <<kind, seqno, bucket>>,
         CopyOk(c), RedisReplicasAgree
  PROVE  CopyOk(c)'
<1>f. SameColumn
  BY DEF RequestStep, ContainerThrows, AcquireLock, AcquireThrows, ThreadThrows, JoinThreads,
     SameColumn
<1>1. CASE ContainerThrows(c) \/ AcquireThrows(c)
  BY <1>1 DEF ContainerThrows, AcquireThrows, ControlInv, ControlType, CopyOk
<1>2. CASE AcquireLock(c)
  <2>1. pc'[c] = "body" /\ UNCHANGED <<files, bucket>>
    BY <1>2 DEF AcquireLock, mgrVars, ControlInv, ControlType
  <2>2. bucket[c] = "rep-redis" => \A s \in Servers : File(c, s) = File(c, Home[c])
    BY <1>2, HomeType DEF AcquireLock, LockLost, RedisReplicasAgree, File
  <2> QED
    BY <2>1, <2>2 DEF CopyOk, File
<1>3. CASE ThreadThrows(c)
  BY <1>3, <1>f, HomeType, DieFrame, FrameKeepsCopy DEF ThreadThrows
<1>4. CASE JoinThreads(c)
  BY <1>4 DEF JoinThreads, Return, ControlInv, ControlType, CopyOk
<1> QED
  BY <1>1, <1>2, <1>3, <1>4 DEF RequestStep

LEMMA RedisThreadsKeepCopy ==
  ASSUME TypeOK, ScenarioInv, ControlInv, NEW c \in Clients, RedisPut(c) \/ RedisAppend(c),
         UNCHANGED <<kind, seqno, bucket>>, CopyOk(c)
  PROVE  CopyOk(c)'
<1>1. /\ bucket[c] = "rep-redis" /\ kind[c] # "Get" /\ pc[c] = "body" /\ pc'[c] = "join"
      /\ \A s \in Servers : s # Home[c] => place'[<<c, s>>] \in {"failed", "find"}
  BY HandlerPairs DEF RedisPut, RedisAppend, RedisAnswers, InBody, StartThreads, Peers,
     ControlInv, ControlType
<1>2. PICK content \in Seq(Chunk) :
        /\ SetFile(c, Home[c], content)
        /\ content = IF kind[c] = "Put" THEN Content(c) ELSE AppendTo(File(c, Home[c]), Content(c))
  <2>1. /\ Content(c) \in Seq(Chunk) /\ Replaced(c, Home[c]) = Content(c)
        /\ AppendTo(File(c, Home[c]), Content(c)) \in Seq(Chunk)
    BY <1>1, HomeType, ReplacedType, ContentType, FileType
  <2>2. CASE RedisPut(c)
    BY <2>1, <2>2 DEF RedisPut, RedisAnswers, InBody
  <2>3. CASE RedisAppend(c)
    BY <2>1, <2>3 DEF RedisAppend, RedisAnswers, InBody
  <2> QED
    BY <2>2, <2>3
<1>3. \A s \in Servers : File(c, s)' = IF s = Home[c] THEN content ELSE File(c, s)
  <2>1. \A t \in Servers, b \in Buckets :
          files'[t][b] = IF t = Home[c] /\ b = bucket[c] THEN content ELSE files[t][b]
    BY <1>2, HomeType, SetFileType
  <2> QED
    BY <2>1, ScenarioType DEF File
<1>4. \A s \in Servers : s # Home[c] =>
        Updated(c, s)' = IF kind[c] = "Put" THEN Content(c) ELSE AppendTo(File(c, s), Content(c))
  BY <1>3 DEF Updated, Content
<1>5. \A s \in Servers : File(c, s) = File(c, Home[c])
  BY <1>1 DEF CopyOk
<1>6. ASSUME NEW s \in Servers, s # Home[c]
      PROVE  place'[<<c, s>>] \notin {"out", "done"} /\ File(c, Home[c])' = Updated(c, s)'
  BY <1>1, <1>2, <1>3, <1>4, <1>5, <1>6, HomeType
<1> QED
  BY <1>1, <1>6 DEF CopyOk

LEMMA RedisPeerKeepsCopy ==
  ASSUME TypeOK, ScenarioInv, ControlInv, NEW c \in Clients, NEW s \in Servers,
         RedisS2SPut(c, s) \/ RedisS2SAppend(c, s),
         UNCHANGED <<kind, seqno, bucket>>, CopyOk(c)
  PROVE  CopyOk(c)'
<1>1. /\ bucket[c] = "rep-redis" /\ kind[c] # "Get" /\ s # Home[c] /\ pc' = pc
      /\ place[<<c, s>>] = "in"
      /\ \A t \in Servers : place'[<<c, t>>] = IF t = s THEN "done" ELSE place[<<c, t>>]
  <2>1. PeerEnds(c, s, "done") /\ \E k \in {"Put", "Append"} : AtPeer(c, s, "rep-redis", k)
    BY DEF RedisS2SPut, RedisS2SAppend
  <2>2. place' = [place EXCEPT ![<<c, s>>] = "done"] /\ place \in [Handlers -> Places]
    BY <2>1 DEF PeerEnds, ControlInv, ControlType
  <2>3. \A t \in Servers : place'[<<c, t>>] = IF t = s THEN "done" ELSE place[<<c, t>>]
    BY <2>2, HandlerPairs
  <2> QED
    BY <2>1, <2>3 DEF AtPeer, PeerEnds
<1>2. PICK content \in Seq(Chunk) : SetFile(c, s, content) /\ content = Updated(c, s)
  BY <1>1, ReplacedType, ContentType, FileType DEF RedisS2SPut, RedisS2SAppend, AtPeer, Updated
<1>3. \A t \in Servers : File(c, t)' = IF t = s THEN content ELSE File(c, t)
  <2>1. \A t \in Servers, b \in Buckets :
          files'[t][b] = IF t = s /\ b = bucket[c] THEN content ELSE files[t][b]
    BY <1>2, SetFileType
  <2> QED
    BY <2>1, ScenarioType DEF File
<1>4. \A t \in Servers : t # s => Updated(c, t)' = Updated(c, t)
  BY <1>3 DEF Updated, Content
<1>5. pc[c] # "body"
  BY <1>1, RequestParts DEF ControlInv, PeerLocked
<1>6. ASSUME pc[c] = "join", NEW t \in Servers, t # Home[c]
      PROVE  /\ place'[<<c, t>>] # "out"
             /\ File(c, Home[c])' = IF place'[<<c, t>>] = "done" THEN File(c, t)'
                                                              ELSE Updated(c, t)'
  <2>1. CASE t = s
    BY <1>1, <1>2, <1>3, <1>6, <2>1, HomeType DEF CopyOk
  <2>2. CASE t # s
    BY <1>1, <1>3, <1>4, <1>6, <2>2, HomeType DEF CopyOk
  <2> QED
    BY <2>1, <2>2
<1> QED
  BY <1>1, <1>5, <1>6 DEF CopyOk

LEMMA RedisKeepsCopy ==
  ASSUME TypeOK, ScenarioInv, ControlInv, NEW c \in Clients, RedisStep(c),
         UNCHANGED <<kind, seqno, bucket>>, CopyOk(c)
  PROVE  CopyOk(c)'
<1>1. CASE RedisFails(c)
  BY <1>1, HomeType, DieFrame, FrameKeepsCopy DEF RedisFails, SameColumn
<1>2. CASE RedisGet(c)
  BY <1>2 DEF RedisGet, Return, ControlInv, ControlType, CopyOk
<1>3. CASE RedisThrows(c)
  <2>1. CASE LockLost(c)
    BY <1>3, <2>1, HomeType, DieFrame, FrameKeepsCopy DEF RedisThrows, Throw, SameColumn
  <2>2. CASE ~LockLost(c)
    BY <1>3, <2>2 DEF RedisThrows, Throw, ControlInv, ControlType, CopyOk
  <2> QED
    BY <2>1, <2>2
<1>4. ASSUME NEW s \in Servers, RedisS2SThrows(c, s)
      PROVE  CopyOk(c)'
  <2>1. /\ pc' = pc /\ place[<<c, s>>] = "in"
        /\ \A t \in Servers : place'[<<c, t>>] = IF t = s THEN "failed" ELSE place[<<c, t>>]
    BY <1>4, HandlerPairs DEF RedisS2SThrows, AtPeer, PeerEnds, ControlInv, ControlType
  <2> QED
    BY <1>4, <2>1, FrameKeepsCopy DEF RedisS2SThrows, Frame, SameColumn
<1> QED
  BY <1>1, <1>2, <1>3, <1>4, RedisThreadsKeepCopy, RedisPeerKeepsCopy DEF RedisStep

LEMMA ProcessesStayDead ==
  ASSUME NEW c \in Clients, Continue(c)
  PROVE  dead \subseteq dead'
<1>1. CASE RequestStep(c)
  BY <1>1 DEF RequestStep, ContainerThrows, AcquireLock, AcquireThrows, ThreadThrows,
     JoinThreads, Die, Return, HandlersEnd, mgrVars
<1>2. CASE RedisStep(c)
  BY <1>2 DEF RedisStep, RedisFails, RedisThrows, RedisGet, RedisPut, RedisAppend,
     RedisS2SPut, RedisS2SAppend, RedisS2SThrows, Die, Return, Throw, StartThreads, PeerEnds,
     HandlersEnd
<1>3. CASE PartialStep(c)
  BY <1>3 DEF PartialStep, PartialFails, PartialThrows, PartialOpensNothing, PartialGetLocal,
     PartialGet, PartialAppendLocal, PartialAppend, PartialPutLocal, PartialPut, PartialS2SPut,
     PartialS2SPutFails, PartialS2SAppend, PartialS2SGet, PartialS2SThrows, Die, Return, Throw,
     StartThreads, PeerEnds, HandlersEnd
<1> QED
  BY <1>1, <1>2, <1>3 DEF Continue

LEMMA AgreeFrame ==
  ASSUME RedisReplicasAgree, SameColumn, dead \subseteq dead',
         holder'["rep-redis"] = Nobody => holder["rep-redis"] = Nobody
  PROVE  RedisReplicasAgree'
BY DEF RedisReplicasAgree, SameColumn

LEMMA ContinueKeepsAgreement ==
  ASSUME TypeOK, ScenarioInv, ControlInv, NEW c \in Clients, Continue(c), CopyOk(c),
         RedisReplicasAgree
  PROVE  RedisReplicasAgree'
<1>d. dead \subseteq dead'
  BY ProcessesStayDead
<1>r. "rep-redis" \in Buckets /\ c # Nobody
  BY ContainersAssumption, NothingAssumption
<1>a. ASSUME SameColumn, UNCHANGED holder
      PROVE  RedisReplicasAgree'
  BY <1>a, <1>d, AgreeFrame
<1>b. ASSUME ReleaseLock(c), bucket[c] # "rep-redis"
      PROVE  RedisReplicasAgree'
  <2>1. holder'["rep-redis"] = holder["rep-redis"]
    BY <1>b, <1>r DEF ReleaseLock, ControlInv, ControlType
  <2> QED
    BY <1>b, <1>d, <2>1, ColumnKept, AgreeFrame
<1>c. ASSUME UNCHANGED files, bucket[c] = "rep-redis",
             \A s \in Servers : File(c, s) = File(c, Home[c])
      PROVE  RedisReplicasAgree'
  BY <1>c DEF RedisReplicasAgree, File
<1>1. CASE RequestStep(c)
  <2>1. CASE ContainerThrows(c) \/ AcquireThrows(c) \/ ThreadThrows(c)
    BY <1>a, <2>1 DEF ContainerThrows, AcquireThrows, ThreadThrows, Die, SameColumn
  <2>2. CASE AcquireLock(c)
    <3>1. SameColumn /\ (holder'["rep-redis"] = Nobody => holder["rep-redis"] = Nobody)
      BY <2>2, <1>r DEF AcquireLock, SameColumn, ControlInv, ControlType
    <3> QED
      BY <1>d, <3>1, AgreeFrame
  <2>3. CASE JoinThreads(c)
    <3>1. ASSUME bucket[c] = "rep-redis", NEW s \in Servers
          PROVE  File(c, s) = File(c, Home[c])
      <4>1. s # Home[c] => place[<<c, s>>] = "done"
        BY <2>3, <3>1 DEF JoinThreads, CopyOk, Peers
      <4> QED
        BY <2>3, <3>1, <4>1 DEF JoinThreads, CopyOk
    <3>2. ReleaseLock(c) /\ UNCHANGED files
      BY <2>3 DEF JoinThreads, Return
    <3> QED
      BY <1>b, <1>c, <3>1, <3>2
  <2> QED
    BY <1>1, <2>1, <2>2, <2>3 DEF RequestStep
<1>2. CASE RedisStep(c)
  <2>1. CASE RedisFails(c)
    BY <1>a, <2>1 DEF RedisFails, Die, SameColumn
  <2>2. CASE RedisGet(c) \/ RedisThrows(c)
    BY <1>c, <2>2 DEF RedisGet, RedisThrows, RedisAnswers, InBody, CopyOk
  <2>3. ASSUME holder[bucket[c]] = c, bucket[c] = "rep-redis", UNCHANGED holder
        PROVE  RedisReplicasAgree'
    BY <1>r, <2>3 DEF RedisReplicasAgree
  <2>4. CASE RedisPut(c) \/ RedisAppend(c)
    BY <2>3, <2>4, RequestParts
       DEF RedisPut, RedisAppend, RedisAnswers, InBody, StartThreads, ControlInv, Locked
  <2>5. ASSUME NEW s \in Servers,
               RedisS2SPut(c, s) \/ RedisS2SAppend(c, s) \/ RedisS2SThrows(c, s)
        PROVE  RedisReplicasAgree'
    BY <2>3, <2>5, RequestParts
       DEF RedisS2SPut, RedisS2SAppend, RedisS2SThrows, AtPeer, PeerEnds, ControlInv, PeerLocked
  <2> QED
    BY <1>2, <2>1, <2>2, <2>4, <2>5 DEF RedisStep
<1>3. CASE PartialStep(c)
  <2>1. bucket[c] # "rep-redis"
    BY <1>3, PartialBucket
  <2>2. SameColumn
    BY <2>1, ColumnKept
  <2>3. UNCHANGED holder \/ ReleaseLock(c)
    BY <1>3 DEF PartialStep, PartialFails, PartialThrows, PartialOpensNothing, PartialGetLocal,
       PartialGet, PartialAppendLocal, PartialAppend, PartialPutLocal, PartialPut, PartialS2SPut,
       PartialS2SPutFails, PartialS2SAppend, PartialS2SGet, PartialS2SThrows, Die, Return, Throw,
       StartThreads, PeerEnds
  <2> QED
    BY <1>a, <1>b, <2>1, <2>2, <2>3
<1> QED
  BY <1>1, <1>2, <1>3 DEF Continue

LEMMA NextKeepsCopies ==
  ASSUME TypeOK, ScenarioInv, ControlInv, CopiesInv, RedisReplicasAgree, [Next]_vars
  PROVE  CopiesInv' /\ RedisReplicasAgree'
<1>c. \A c \in Clients : CopyOk(c)
  BY CopyParts
<1>1. ASSUME NEW c \in Clients, CallOne(c)
      PROVE  CopiesInv' /\ RedisReplicasAgree'
  <2>1. PICK k : Call(c, scenario.use[c], k)
    BY <1>1 DEF CallOne
  <2>2. bucket' = bucket /\ UNCHANGED <<files, holder, dead>>
    BY <2>1, ScenarioType DEF Call, ScenarioInv
  <2>3. ASSUME NEW d \in Clients
        PROVE  CopyOk(d)'
    <3>1. CASE d = c
      BY <2>1, <3>1 DEF Call, ControlInv, ControlType, CopyOk
    <3>2. CASE d # c
      <4>1. /\ pc'[d] = pc[d] /\ kind'[d] = kind[d] /\ seqno'[d] = seqno[d]
            /\ \A s \in Servers : place'[<<d, s>>] = place[<<d, s>>]
        BY <2>1, <3>2, HandlerPairs DEF Call, Here, ControlInv, ControlType, TypeOK
      <4>2. \A s \in Servers : File(d, s)' = File(d, s) /\ Updated(d, s)' = Updated(d, s)
        BY <2>2, <4>1 DEF File, Updated, Content
      <4>3. CopyOk(d)
        BY <1>c
      <4> QED
        BY <2>2, <4>1, <4>2, <4>3, HomeType DEF CopyOk
    <3> QED
      BY <3>1, <3>2
  <2> QED
    BY <2>2, <2>3, NextCopies DEF RedisReplicasAgree
<1>2. ASSUME NEW c \in Clients, Continue(c)
      PROVE  CopiesInv' /\ RedisReplicasAgree'
  <2>1. UNCHANGED <<kind, seqno, bucket>>
    BY <1>2, StepKeepsRest DEF Rest
  <2>2. CopyOk(c)'
    <3>1. CASE RequestStep(c)
      BY <1>c, <2>1, <3>1, RequestKeepsCopy
    <3>2. CASE RedisStep(c)
      BY <1>c, <2>1, <3>2, RedisKeepsCopy
    <3>3. CASE PartialStep(c)
      BY <2>1, <3>3, PartialBucket DEF CopyOk
    <3> QED
      BY <1>2, <3>1, <3>2, <3>3 DEF Continue
  <2> QED
    BY <1>2, <1>c, <2>2, OthersKeepCopy, ContinueKeepsAgreement, NextCopies
<1>3. ASSUME NEW h \in Handlers, Lookup(h)
      PROVE  CopiesInv' /\ RedisReplicasAgree'
  <2>1. UNCHANGED <<kind, seqno, bucket, files>>
    BY <1>3, LookupKeepsRest DEF Rest
  <2>2. ASSUME NEW d \in Clients
        PROVE  CopyOk(d)'
    BY <1>3, <1>c, <2>1, LookupFrame, FrameKeepsCopy DEF SameColumn
  <2>3. dead \subseteq dead' /\ UNCHANGED holder
    BY <1>3 DEF Lookup, GetContainer, Find, FindNothing, Lock, FindAgain, Load, LoadThrows,
       InsertEntry, AssignEntry, NullReference, Die, callVars
  <2> QED
    BY <2>1, <2>2, <2>3, NextCopies, AgreeFrame DEF SameColumn
<1>4. CASE UNCHANGED vars
  <2>1. UNCHANGED <<kind, seqno, bucket, files, holder, dead, place, pc>>
    BY <1>4 DEF vars, requestVars, mgrVars, callVars
  <2>2. ASSUME NEW d \in Clients
        PROVE  CopyOk(d)'
    BY <1>c, <2>1, FrameKeepsCopy DEF SameColumn, Frame
  <2> QED
    BY <2>1, <2>2, NextCopies, AgreeFrame DEF SameColumn
<1> QED
  BY <1>1, <1>2, <1>3, <1>4 DEF Next
-----------------------------------------------------------------------------
(* A prepared cluster. *)
Ready ==
  /\ dead = {}
  /\ plugin = [s \in Servers |-> [b \in Buckets |-> "loaded"]]
  /\ \A h \in Handlers : place[h] \in {"out", "find", "in", "done"}

Stocked ==
  /\ redis.up
  /\ Missing \notin {redis.path, redis.location, redis.hosts, redis.percent}
  /\ Len(redis.hosts) > 1
  /\ \A s \in Servers, b \in Buckets : files[s][b] # NoFile

LEMMA PreparedParts == PreparedInv <=> (Prepared /\ DescriptorsLeft => Ready /\ Stocked)
BY DEF PreparedInv, Ready, Stocked

LEMMA NextPrepared ==
  ASSUME UNCHANGED scenario, Prepared /\ DescriptorsLeft' => Ready' /\ Stocked'
  PROVE  PreparedInv'
BY DEF PreparedInv, Prepared, Ready, Stocked

LEMMA LookupKeepsReady ==
  ASSUME TypeOK, ScenarioInv, Ready, NEW h \in Handlers, Lookup(h)
  PROVE  Ready'
<1>1. Entry(h) = "loaded"
  BY HandlerPairs, ScenarioType DEF Ready, Entry
<1>2. ~Rearranging(h[2])
  BY DEF Ready, Rearranging
<1>3. place \in [Handlers -> Places] /\ place[h] \in {"out", "find", "in", "done"}
  BY DEF Ready, TypeOK, Places
<1>4. Find(h)
  BY <1>1, <1>2, <1>3 DEF Lookup, GetContainer, FindNothing, Lock, FindAgain, Load, LoadThrows,
     InsertEntry, AssignEntry, NullReference, FindsNull, Move
<1> QED
  BY <1>3, <1>4 DEF Find, Move, Ready

LEMMA DescriptorsWereLeft ==
  ASSUME TypeOK, NEW c \in Clients, Continue(c), DescriptorsLeft'
  PROVE  DescriptorsLeft
<1>1. PICK s \in Servers : UNCHANGED descriptors \/ Connect(s)
  BY DescriptorSteps
<1>2. \A t \in Servers : Spare(t, 1)' => Spare(t, 1)
  BY <1>1, ConnectTakes DEF TypeOK
<1> QED
  BY <1>2 DEF DescriptorsLeft

LEMMA ContinueKeepsReady ==
  ASSUME TypeOK, ScenarioInv, Ready, Stocked, NEW c \in Clients, Continue(c), DescriptorsLeft'
  PROVE  Ready'
<1>d. \A s \in Servers : Connected(s) /\ (Connect(s) => OpensConnected(s)) /\ Opens(s)
  <2>1. DescriptorsLeft
    BY DescriptorsWereLeft
  <2>2. ASSUME NEW s \in Servers
        PROVE  Connected(s)
    BY <2>1 DEF DescriptorsLeft, Connected, Stocked
  <2>3. ASSUME NEW s \in Servers, Connect(s)
        PROVE  Spare(s, 2)
    BY <2>2, <2>3, ConnectTakes DEF DescriptorsLeft, TypeOK
  <2> QED
    BY <2>1, <2>2, <2>3 DEF DescriptorsLeft, Opens, OpensConnected
<1>p. place \in [Handlers -> Places] /\ Home[c] \in Servers /\ Here(c) \in Handlers
  BY HomeType DEF TypeOK, Places
<1>f. \A s \in Servers : File(c, s) # NoFile
  BY ScenarioType DEF Stocked, File
<1>1. ASSUME Return(c) \/ (Throw(c) /\ ~LockLost(c))
      PROVE  Ready'
  BY <1>1 DEF Return, Throw, HandlersEnd, Ready
<1>2. ASSUME NEW peers, StartThreads(c, peers)
      PROVE  Ready'
  BY <1>2 DEF StartThreads, Ready
<1>3. ASSUME NEW s, PeerEnds(c, s, "done")
      PROVE  Ready'
  BY <1>3, <1>p DEF PeerEnds, Ready
<1>4. CASE RequestStep(c)
  <2>1. ~ContainerThrows(c)
    BY <1>p DEF ContainerThrows, Ready
  <2>2. ~ThreadThrows(c)
    BY HomeType DEF ThreadThrows, Ready
  <2>3. CASE AcquireLock(c) \/ AcquireThrows(c)
    BY <2>3 DEF AcquireLock, AcquireThrows, mgrVars, Ready
  <2> QED
    BY <1>1, <1>4, <2>1, <2>2, <2>3 DEF RequestStep, JoinThreads
<1>5. CASE RedisStep(c)
  <2>1. ~RedisFails(c)
    BY <1>d, <1>p DEF RedisFails, Stocked
  <2>2. ~RedisThrows(c)
    BY <1>d, <1>f, <1>p DEF RedisThrows, RedisAnswers
  <2>3. \A s \in Servers : ~RedisS2SThrows(c, s)
    BY <1>d DEF RedisS2SThrows
  <2> QED
    BY <1>1, <1>2, <1>3, <1>5, <2>1, <2>2, <2>3
       DEF RedisStep, RedisGet, RedisPut, RedisAppend, RedisS2SPut, RedisS2SAppend
<1>6. CASE PartialStep(c)
  <2>1. ~PartialFails(c)
    <3>1. Connected(Home[c])
      BY <1>d, <1>p
    <3>2. redis.hosts \in HostLists /\ Len(redis.hosts) > 1
      BY DEF Stocked, TypeOK, KeyValues
    <3>3. Len(redis.hosts) # 1
      BY <3>2, OneIsNotMany
    <3>4. ~OneHost
      BY <3>3 DEF OneHost
    <3> QED
      BY <3>1, <3>4 DEF PartialFails
  <2>2. ~PartialThrows(c)
    BY DEF PartialThrows, NoKey, Stocked
  <2>6. ~PartialOpensNothing(c)
    BY <1>d, <1>f, <1>p DEF PartialOpensNothing, Finds
  <2>3. CASE PartialGetLocal(c) \/ PartialAppendLocal(c) \/ PartialPutLocal(c)
    BY <1>1, <2>3 DEF PartialGetLocal, PartialAppendLocal, PartialPutLocal
  <2>4. CASE PartialGet(c) \/ PartialAppend(c) \/ PartialPut(c)
    BY <1>2, <2>4 DEF PartialGet, PartialAppend, PartialPut
  <2>5. ASSUME NEW s \in Servers,
               \/ PartialS2SPut(c, s) \/ PartialS2SPutFails(c, s)
               \/ PartialS2SAppend(c, s) \/ PartialS2SGet(c, s) \/ PartialS2SThrows(c, s)
        PROVE  Ready'
    BY <1>3, <1>d, <1>f, <2>5 DEF PartialS2SPut, PartialS2SPutFails, PartialS2SAppend,
       PartialS2SGet, PartialS2SThrows, Stocked
  <2> QED
    BY <1>6, <2>1, <2>2, <2>3, <2>4, <2>5, <2>6 DEF PartialStep
<1> QED
  BY <1>4, <1>5, <1>6 DEF Continue

LEMMA ContinueKeepsStocked ==
  ASSUME TypeOK, ScenarioInv, Stocked, NEW c \in Clients, Continue(c)
  PROVE  Stocked'
<1>1. PICK s \in Servers : Writes(c, s) /\ SetsKeys(c, s)
  BY DataSteps
<1>2. \A t \in Servers, b \in Buckets : files'[t][b] # NoFile
  <2>1. CASE UNCHANGED files
    BY <2>1 DEF Stocked
  <2>2. ASSUME NEW content \in Seq(Chunk), SetFile(c, s, content)
        PROVE  \A t \in Servers, b \in Buckets : files'[t][b] # NoFile
    BY <2>2, SetFileType, NothingAssumption DEF Stocked
  <2> QED
    BY <1>1, <2>1, <2>2, ContentType, FileType DEF Writes
<1>3. redis \in KeyValues
  BY DEF TypeOK
<1>4. redis.percent # Missing
        => /\ Append(redis.percent, s) \in HostLists
           /\ Len(Append(redis.percent, s)) > 1
  BY <1>3, HostsType DEF KeyValues
<1>5. /\ redis'.up
      /\ Missing \notin {redis'.path, redis'.location, redis'.hosts, redis'.percent}
      /\ Len(redis'.hosts) > 1
  <2>1. CASE redis.percent # Missing
             /\ redis' = [LocationSet EXCEPT !.hosts = Append(redis.percent, s)]
    <3>1. /\ redis'.hosts = Append(redis.percent, s)
          /\ redis'.location = "stg_root_dir/rep-partial/obj"
          /\ redis'.up = redis.up /\ redis'.path = redis.path /\ redis'.percent = redis.percent
      BY <1>3, <2>1 DEF LocationSet, KeyValues
    <3>2. Missing # redis'.hosts /\ Missing # redis'.location /\ Len(redis'.hosts) > 1
      BY <1>4, <2>1, <3>1, NothingAssumption
    <3> QED
      BY <3>1, <3>2 DEF Stocked
  <2>2. CASE redis' = PathSet \/ redis' = LocationSet
    <3>1. redis'.up = redis.up /\ redis'.hosts = redis.hosts /\ redis'.percent = redis.percent
      BY <1>3, <2>2 DEF PathSet, LocationSet, KeyValues
    <3>2. /\ redis'.path \in {redis.path, "stg_root_dir/rep-redis/obj"}
          /\ redis'.location \in {redis.location, "stg_root_dir/rep-partial/obj"}
      BY <1>3, <2>2 DEF PathSet, LocationSet, KeyValues
    <3> QED
      BY <3>1, <3>2, NothingAssumption DEF Stocked
  <2>3. CASE UNCHANGED redis
    BY <2>3 DEF Stocked
  <2> QED
    BY <1>1, <2>1, <2>2, <2>3 DEF SetsKeys
<1> QED
  BY <1>2, <1>5 DEF Stocked

LEMMA NextKeepsPrepared ==
  ASSUME TypeOK, ScenarioInv, PreparedInv, [Next]_vars
  PROVE  PreparedInv'
<1>1. ASSUME NEW c \in Clients, CallOne(c)
      PROVE  PreparedInv'
  <2>1. PICK k : Call(c, scenario.use[c], k)
    BY <1>1 DEF CallOne
  <2>2. Ready => Ready'
    BY <2>1 DEF Call, Ready, TypeOK
  <2>3. /\ Stocked => Stocked'
        /\ DescriptorsLeft' => DescriptorsLeft
    BY <2>1 DEF Call, Stocked, DescriptorsLeft, Spare
  <2> QED
    BY <1>1, <2>2, <2>3, PreparedParts, NextPrepared DEF CallOne
<1>2. ASSUME NEW c \in Clients, Continue(c)
      PROVE  PreparedInv'
  BY <1>2, DescriptorsWereLeft, ContinueKeepsReady, ContinueKeepsStocked, PreparedParts,
     NextPrepared, StepKeepsRest DEF Rest
<1>3. ASSUME NEW h \in Handlers, Lookup(h)
      PROVE  PreparedInv'
  BY <1>3, LookupKeepsReady, LookupKeepsRest, PreparedParts, NextPrepared
     DEF Rest, Stocked, DescriptorsLeft, Spare
<1>4. CASE UNCHANGED vars
  BY <1>4 DEF vars, requestVars, mgrVars, callVars, PreparedInv, Prepared, DescriptorsLeft, Spare
<1> QED
  BY <1>1, <1>2, <1>3, <1>4 DEF Next
-----------------------------------------------------------------------------
(* Where nobody uses Put. *)
SourceHas(c, n) == Source(c) \in Servers /\ Has(File(c, Source(c)), c, n)

Claimed(c, n) ==
  \/ n < seqno[c] \/ kind[c] = "Get" \/ pc[c] = "idle"
  \/ (pc[c] = "join" /\ SourceDone(c))

Answered(c) == kind[c] = "Get" /\ (pc[c] = "idle" \/ (pc[c] = "join" /\ SourceDone(c)))

AtSource(c) ==
  pc[c] = "join" /\ bucket[c] = "rep-partial" =>
    /\ Source(c) \in Servers /\ Source(c) # Home[c]
    /\ place[<<c, Source(c)>>] # "out"
    /\ kind[c] = "Get" =>
         \A s \in Servers : s # Home[c] /\ s # Source(c) => place[<<c, s>>] = "out"

AppendsOk(c) ==
  /\ \A n \in 1 .. seqno[c] : Claimed(c, n) => SourceHas(c, n)
  /\ AtSource(c)
  /\ \A n \in 1 .. seqno[c] : Answered(c) => Has(got[c], c, n)

LEMMA AppendsParts ==
  AppendsInv <=> (named /\ NobodyPuts => redis = scenario.redis /\ \A c \in Clients : AppendsOk(c))
BY DEF AppendsInv, AppendsOk, Claimed, SourceHas, Answered, AtSource, Peers

LEMMA NextAppends ==
  ASSUME UNCHANGED <<named, scenario>>,
         named /\ NobodyPuts => redis' = scenario.redis /\ \A c \in Clients : AppendsOk(c)'
  PROVE  AppendsInv'
BY DEF AppendsInv, AppendsOk, Claimed, SourceHas, Answered, AtSource, Peers, NobodyPuts

LEMMA NearestOfTwo ==
  ASSUME NEW local, NEW hosts \in HostLists, Len(hosts) > 1
  PROVE  /\ NearestHost(local, hosts) \in Servers
         /\ \E i \in DOMAIN hosts : hosts[i] = NearestHost(local, hosts)
<1>1. hosts \in Seq(Servers) /\ 1 \in DOMAIN hosts /\ 2 \in DOMAIN hosts
  BY DEF HostLists
<1>2. hosts[1] \in Servers /\ hosts[2] \in Servers
  BY <1>1
<1> QED
  BY <1>1, <1>2 DEF NearestHost

LEMMA FoundSource ==
  ASSUME TypeOK, NEW c \in Clients, NEW k, Finds(c, k)
  PROVE  /\ bucket[c] = "rep-partial" /\ pc[c] = "body" /\ kind[c] = k
         /\ Source(c) = NearestHost(Home[c], redis.hosts)
         /\ Source(c) \in Servers /\ Source(c) \in Hosts
         /\ Local(c) <=> Source(c) = Home[c]
<1>1. bucket[c] = "rep-partial" /\ pc[c] = "body" /\ kind[c] = k
  BY DEF Finds, InBody
<1>2. redis.hosts \in HostLists /\ Len(redis.hosts) > 1
  BY DEF Finds, TwoHosts, TypeOK, KeyValues
<1>3. Source(c) = NearestHost(Home[c], redis.hosts)
  BY <1>1 DEF Source
<1> QED
  BY <1>1, <1>2, <1>3, NearestOfTwo DEF Local, Hosts

(* An Append adds to a file, so files keep what they have. *)
LEMMA AppendToHas ==
  ASSUME NEW file \in Seq(Chunk) \cup {NoFile}, NEW content \in Seq(Chunk), NEW c, NEW n
  PROVE  /\ Has(file, c, n) => Has(AppendTo(file, content), c, n)
         /\ Has(content, c, n) => Has(AppendTo(file, content), c, n)
<1>1. AppendTo(file, content) # NoFile
  BY AppendToType, NothingAssumption
<1>2. CASE file = NoFile
  BY <1>2 DEF AppendTo, Has
<1>3. CASE file # NoFile
  <2>1. AppendTo(file, content) = file \o content /\ file \in Seq(Chunk)
    BY <1>3 DEF AppendTo
  <2>2. ASSUME NEW i \in DOMAIN file
        PROVE  i \in DOMAIN (file \o content) /\ (file \o content)[i] = file[i]
    BY <2>1, <2>2
  <2>3. ASSUME NEW i \in DOMAIN content
        PROVE  /\ Len(file) + i \in DOMAIN (file \o content)
               /\ (file \o content)[Len(file) + i] = content[i]
    BY <2>1, <2>3
  <2> QED
    BY <1>1, <2>1, <2>2, <2>3 DEF Has
<1> QED
  BY <1>2, <1>3

LEMMA ContentHas ==
  ASSUME TypeOK, ScenarioInv, NEW c \in Clients, kind[c] # "Get"
  PROVE  Has(Content(c), c, seqno[c])
<1>1. Content(c) \in Seq(Chunk) /\ Len(Content(c)) = 1
      /\ Content(c)[1] = [client |-> c, n |-> seqno[c]]
  BY ContentType
<1>2. 1 \in DOMAIN Content(c) /\ Content(c) # NoFile
  BY <1>1, NothingAssumption
<1> QED
  BY <1>1, <1>2 DEF Has

FilesKeep ==
  \A s \in Servers, b \in Buckets, c \in Clients, n \in 1 .. MaxWrites :
    Has(files[s][b], c, n) => Has(files'[s][b], c, n)

LEMMA NobodyPutsKinds ==
  ASSUME TypeOK, ScenarioInv, NobodyPuts
  PROVE  \A c \in Clients : kind[c] \in {"Get", "Append"}
<1>1. ASSUME NEW c \in Clients
      PROVE  kind[c] \in {"Get", "Put", "Append"} /\ kind[c] # "Put"
  <2>1. kind[c] \in {"Get", "Put", "Append"}
    BY DEF TypeOK, Kinds
  <2>2. kind[c] \in scenario.kinds[c] \cup {"Get"}
    BY DEF ScenarioInv
  <2> QED
    BY <2>1, <2>2 DEF NobodyPuts
<1> QED
  BY <1>1

LEMMA ContinueKeepsFiles ==
  ASSUME TypeOK, ScenarioInv, NobodyPuts, NEW c \in Clients, Continue(c)
  PROVE  FilesKeep /\ UNCHANGED redis
<1>1. PICK s \in Servers : Writes(c, s) /\ SetsKeys(c, s)
  BY DataSteps
<1>2. kind[c] # "Put"
  BY NobodyPutsKinds
<1>3. CASE UNCHANGED files
  BY <1>1, <1>2, <1>3 DEF SetsKeys, FilesKeep
<1>4. CASE kind[c] = "Append" /\ SetFile(c, s, AppendTo(File(c, s), Content(c)))
  <2>1. /\ Content(c) \in Seq(Chunk)
        /\ AppendTo(File(c, s), Content(c)) \in Seq(Chunk)
        /\ File(c, s) \in Seq(Chunk) \cup {NoFile}
    BY <1>4, ContentType, FileType
  <2>2. \A t \in Servers, b \in Buckets :
          files'[t][b] = IF t = s /\ b = bucket[c] THEN AppendTo(File(c, s), Content(c))
                         ELSE files[t][b]
    BY <1>4, <2>1, SetFileType
  <2>3. ASSUME NEW d, NEW n, Has(files[s][bucket[c]], d, n)
        PROVE  Has(AppendTo(File(c, s), Content(c)), d, n)
    BY <2>1, <2>3, AppendToHas DEF File
  <2>4. FilesKeep
    BY <2>2, <2>3 DEF FilesKeep
  <2> QED
    BY <1>1, <1>2, <2>4 DEF SetsKeys
<1> QED
  BY <1>1, <1>2, <1>3, <1>4 DEF Writes

(* A request that stays where it was, or is called, locked or ended. *)
AppendsFrame(c) ==
  \/ pc'[c] \notin {"idle", "join"}
  \/ /\ pc'[c] = pc[c] /\ got'[c] = got[c]
     /\ \A s \in Servers : /\ place'[<<c, s>>] = "out" <=> place[<<c, s>>] = "out"
                           /\ place'[<<c, s>>] = "done" <=> place[<<c, s>>] = "done"

LEMMA SourceKept ==
  ASSUME NEW c \in Clients, UNCHANGED <<redis, bucket>>
  PROVE  Source(c)' = Source(c)
BY DEF Source

LEMMA SourceKeepsHas ==
  ASSUME TypeOK, ScenarioInv, FilesKeep, UNCHANGED <<redis, bucket>>,
         NEW c \in Clients, NEW n \in 1 .. seqno[c], SourceHas(c, n)
  PROVE  SourceHas(c, n)'
<1>1. n \in 1 .. MaxWrites /\ bucket[c] \in Buckets
  <2>1. seqno[c] \in 0 .. MaxWrites /\ MaxWrites \in Nat
    BY ContainersAssumption DEF TypeOK
  <2> QED
    BY <2>1, ScenarioType
<1> QED
  BY <1>1, SourceKept DEF SourceHas, FilesKeep, File

LEMMA FrameKeepsAppends ==
  ASSUME TypeOK, ScenarioInv, FilesKeep, UNCHANGED <<kind, seqno, bucket, redis>>,
         NEW c \in Clients, AppendsFrame(c), AppendsOk(c)
  PROVE  AppendsOk(c)'
<1>s. Source(c)' = Source(c)
  BY SourceKept
<1>1. CASE pc'[c] \notin {"idle", "join"}
  <2>1. ASSUME NEW n \in 1 .. seqno[c], Claimed(c, n)'
        PROVE  SourceHas(c, n)'
    BY <1>1, <2>1, SourceKeepsHas DEF Claimed, AppendsOk
  <2> QED
    BY <1>1, <2>1 DEF AppendsOk, AtSource, Answered
<1>2. CASE /\ pc'[c] = pc[c] /\ got'[c] = got[c]
           /\ \A s \in Servers : /\ place'[<<c, s>>] = "out" <=> place[<<c, s>>] = "out"
                                 /\ place'[<<c, s>>] = "done" <=> place[<<c, s>>] = "done"
  <2>1. AtSource(c)'
    BY <1>2, <1>s DEF AppendsOk, AtSource
  <2>2. pc[c] = "join" => SourceDone(c)' = SourceDone(c)
    <3>1. CASE bucket[c] = "rep-redis"
      BY <3>1 DEF SourceDone
    <3>2. CASE bucket[c] = "rep-partial"
      BY <1>2, <1>s, <3>2 DEF AppendsOk, AtSource, SourceDone
    <3> QED
      BY <3>1, <3>2, ScenarioType, ContainersAssumption
  <2>3. ASSUME NEW n \in 1 .. seqno[c], Claimed(c, n)'
        PROVE  SourceHas(c, n)'
    BY <1>2, <2>2, <2>3, SourceKeepsHas DEF Claimed, AppendsOk
  <2>4. ASSUME NEW n \in 1 .. seqno[c], Answered(c)'
        PROVE  Has(got[c], c, n)'
    BY <1>2, <2>2, <2>4 DEF Answered, AppendsOk, Has
  <2> QED
    BY <2>1, <2>3, <2>4 DEF AppendsOk
<1> QED
  BY <1>1, <1>2 DEF AppendsFrame

LEMMA DieKeepsAppends ==
  ASSUME TypeOK, ScenarioInv, UNCHANGED <<kind, seqno, bucket, redis, files, got>>,
         NEW s \in Servers, Die(s), NEW c \in Clients, AppendsOk(c)
  PROVE  AppendsOk(c)'
<1>1. pc'[c] = IF Home[c] = s /\ pc[c] # "idle" THEN "exited" ELSE pc[c]
  BY DEF Die
<1>2. \A t \in Servers : place'[<<c, t>>] = IF t = s /\ place[<<c, t>>] \notin {"out", "done"}
                                            THEN "failed" ELSE place[<<c, t>>]
  BY HandlerPairs DEF Die
<1>3. AppendsFrame(c)
  BY <1>1, <1>2 DEF AppendsFrame
<1> QED
  BY <1>3, FrameKeepsAppends DEF FilesKeep

LEMMA DieAppendsFrame ==
  ASSUME NEW s \in Servers, Die(s), NEW c \in Clients, got'[c] = got[c]
  PROVE  AppendsFrame(c)
<1>1. pc'[c] = IF Home[c] = s /\ pc[c] # "idle" THEN "exited" ELSE pc[c]
  BY DEF Die
<1>2. \A t \in Servers : place'[<<c, t>>] = IF t = s /\ place[<<c, t>>] \notin {"out", "done"}
                                            THEN "failed" ELSE place[<<c, t>>]
  BY HandlerPairs DEF Die
<1> QED
  BY <1>1, <1>2 DEF AppendsFrame

LEMMA OthersKeepAppends ==
  ASSUME TypeOK, ScenarioInv, ControlInv, NobodyPuts, NEW c \in Clients, Continue(c),
         NEW d \in Clients \ {c}, AppendsOk(d)
  PROVE  AppendsOk(d)'
<1>1. PICK s \in Servers : Answers(c, s)
  BY DataSteps
<1>2. got'[d] = got[d]
  BY <1>1 DEF Answers, TypeOK
<1>3. AppendsFrame(d)
  <2>1. CASE Others(c)
    BY <1>2, <2>1 DEF Others, AppendsFrame
  <2>2. CASE \E t \in Servers : Die(t)
    BY <1>2, <2>2, DieAppendsFrame
  <2> QED
    BY <2>1, <2>2, StepFrames
<1> QED
  BY <1>3, ContinueKeepsFiles, StepKeepsRest, FrameKeepsAppends DEF Rest

(* A request that returns: all its client's writes are at the source. *)
LEMMA EndKeepsAppends ==
  ASSUME NEW c \in Clients, pc'[c] \in {"idle", "exited"}, UNCHANGED seqno,
         \A n \in 1 .. seqno[c] : SourceHas(c, n)',
         kind'[c] = "Get" => \A n \in 1 .. seqno[c] : Has(got'[c], c, n)
  PROVE  AppendsOk(c)'
BY DEF AppendsOk, AtSource, Answered, Has

LEMMA RequestKeepsAppends ==
  ASSUME TypeOK, ScenarioInv, ControlInv, FilesKeep, NEW c \in Clients, RequestStep(c),
         UNCHANGED <<kind, seqno, bucket, redis>>, AppendsOk(c)
  PROVE  AppendsOk(c)'
<1>1. CASE ContainerThrows(c) \/ AcquireLock(c) \/ AcquireThrows(c)
  <2>1. pc'[c] \in {"exited", "body"}
    BY <1>1 DEF ContainerThrows, AcquireLock, AcquireThrows, TypeOK
  <2> QED
    BY <2>1, FrameKeepsAppends DEF AppendsFrame
<1>2. CASE ThreadThrows(c)
  BY <1>2, HomeType, DieAppendsFrame, FrameKeepsAppends DEF ThreadThrows
<1>3. CASE JoinThreads(c)
  <2>1. pc[c] = "join" /\ pc'[c] \in {"idle", "exited"} /\ UNCHANGED <<files, got>>
    BY <1>3 DEF JoinThreads, Return, TypeOK
  <2>2. SourceDone(c)
    <3>1. CASE bucket[c] = "rep-redis"
      BY <3>1 DEF SourceDone
    <3>2. CASE bucket[c] = "rep-partial"
      BY <1>3, <2>1, <3>2 DEF JoinThreads, Peers, AppendsOk, AtSource, SourceDone
    <3> QED
      BY <3>1, <3>2, ScenarioType, ContainersAssumption
  <2>3. \A n \in 1 .. seqno[c] : SourceHas(c, n)'
    BY <2>1, <2>2, SourceKeepsHas DEF AppendsOk, Claimed
  <2>4. kind[c] = "Get" => \A n \in 1 .. seqno[c] : Has(got'[c], c, n)
    BY <2>1, <2>2 DEF AppendsOk, Answered
  <2> QED
    BY <2>1, <2>3, <2>4, EndKeepsAppends
<1> QED
  BY <1>1, <1>2, <1>3 DEF RequestStep

(* A Get that answers with the source's copy. *)
LEMMA AnswerKeepsAppends ==
  ASSUME TypeOK, ScenarioInv, FilesKeep, UNCHANGED <<kind, seqno, bucket, redis>>,
         NEW c \in Clients, AppendsOk(c), Return(c), kind[c] = "Get",
         got' = [got EXCEPT ![c] = File(c, Source(c))]
  PROVE  AppendsOk(c)'
<1>1. pc'[c] \in {"idle", "exited"}
  BY DEF Return, TypeOK
<1>2. \A n \in 1 .. seqno[c] : SourceHas(c, n)
  BY DEF AppendsOk, Claimed
<1>3. \A n \in 1 .. seqno[c] : Has(got'[c], c, n)
  BY <1>2 DEF SourceHas, TypeOK
<1> QED
  BY <1>1, <1>2, <1>3, SourceKeepsHas, EndKeepsAppends

LEMMA ThrowKeepsAppends ==
  ASSUME TypeOK, ScenarioInv, FilesKeep, UNCHANGED <<kind, seqno, bucket, redis, got>>,
         NEW c \in Clients, AppendsOk(c), Throw(c)
  PROVE  AppendsOk(c)'
<1>1. CASE LockLost(c)
  BY <1>1, HomeType, DieAppendsFrame, FrameKeepsAppends DEF Throw
<1>2. CASE ~LockLost(c)
  <2>1. pc'[c] = "exited"
    BY <1>2 DEF Throw, TypeOK
  <2> QED
    BY <2>1, FrameKeepsAppends DEF AppendsFrame
<1> QED
  BY <1>1, <1>2

(* An Append at the source. *)
LEMMA SourceAppends ==
  ASSUME TypeOK, ScenarioInv, FilesKeep, UNCHANGED <<kind, seqno, bucket, redis>>,
         NEW c \in Clients, kind[c] = "Append", NEW s \in Servers, s = Source(c),
         SetFile(c, s, AppendTo(File(c, s), Content(c))), AppendsOk(c)
  PROVE  \A n \in 1 .. seqno[c] : SourceHas(c, n)'
<1>1. /\ AppendTo(File(c, s), Content(c)) \in Seq(Chunk) /\ Content(c) \in Seq(Chunk)
      /\ File(c, s) \in Seq(Chunk) \cup {NoFile} /\ Has(Content(c), c, seqno[c])
  BY ContentType, FileType, ContentHas
<1>2. File(c, s)' = AppendTo(File(c, s), Content(c))
  BY <1>1, SetFileType, ScenarioType DEF File
<1>3. SourceHas(c, seqno[c])'
  BY <1>1, <1>2, SourceKept, AppendToHas DEF SourceHas
<1>4. seqno[c] \in Nat
  BY DEF TypeOK
<1>5. ASSUME NEW n \in 1 .. seqno[c], n # seqno[c]
      PROVE  SourceHas(c, n)'
  <2>1. n < seqno[c]
    BY <1>4, <1>5
  <2> QED
    BY <2>1, SourceKeepsHas DEF AppendsOk, Claimed
<1> QED
  BY <1>3, <1>5

LEMMA RedisKeepsAppends ==
  ASSUME TypeOK, ScenarioInv, ControlInv, NobodyPuts, FilesKeep, NEW c \in Clients, RedisStep(c),
         UNCHANGED <<kind, seqno, bucket, redis>>, AppendsOk(c)
  PROVE  AppendsOk(c)'
<1>k. kind[c] \in {"Get", "Append"} /\ Home[c] \in Servers
  BY NobodyPutsKinds, HomeType
<1>b. bucket[c] = "rep-redis" /\ Source(c) = Home[c]
  BY DEF RedisStep, RedisFails, RedisThrows, RedisGet, RedisPut, RedisAppend, RedisAnswers,
     RedisS2SPut, RedisS2SAppend, RedisS2SThrows, InBody, AtPeer, Source
<1>1. CASE RedisFails(c)
  BY <1>1, <1>k, DieAppendsFrame, FrameKeepsAppends DEF RedisFails
<1>6. CASE RedisThrows(c)
  BY <1>6, ThrowKeepsAppends DEF RedisThrows
<1>2. CASE RedisGet(c)
  BY <1>2, <1>b, AnswerKeepsAppends DEF RedisGet, RedisAnswers, InBody
<1>3. CASE RedisAppend(c)
  <2>1. kind[c] = "Append" /\ SetFile(c, Home[c], AppendTo(File(c, Home[c]), Content(c)))
    BY <1>3 DEF RedisAppend, RedisAnswers, InBody
  <2>2. \A n \in 1 .. seqno[c] : SourceHas(c, n)'
    BY <1>b, <1>k, <2>1, SourceAppends
  <2> QED
    BY <1>b, <2>1, <2>2 DEF AppendsOk, AtSource, Answered
<1>5. ~RedisPut(c) /\ \A s \in Servers : ~RedisS2SPut(c, s)
  BY <1>k DEF RedisPut, RedisAnswers, RedisS2SPut, InBody, AtPeer
<1>4. ASSUME NEW s \in Servers, RedisS2SAppend(c, s) \/ RedisS2SThrows(c, s)
      PROVE  AppendsOk(c)'
  <2>1. kind[c] = "Append" /\ pc' = pc /\ pc[c] \in {"join", "exited"}
    BY <1>4, <1>k, RequestParts
       DEF RedisS2SAppend, RedisS2SThrows, AtPeer, PeerEnds, ControlInv, PeerLocked
  <2>2. CASE pc[c] = "exited"
    BY <2>1, <2>2, FrameKeepsAppends DEF AppendsFrame
  <2>3. CASE pc[c] = "join"
    <3>1. \A n \in 1 .. seqno[c] : SourceHas(c, n)'
      BY <1>b, <2>3, SourceKeepsHas DEF AppendsOk, Claimed, SourceDone
    <3> QED
      BY <1>b, <2>1, <3>1 DEF AppendsOk, AtSource, Answered
  <2> QED
    BY <2>1, <2>2, <2>3
<1> QED
  BY <1>1, <1>2, <1>3, <1>4, <1>5, <1>6 DEF RedisStep

(* A thread for the source. *)
LEMMA ThreadsKeepAppends ==
  ASSUME TypeOK, ScenarioInv, ControlInv, FilesKeep, NEW c \in Clients,
         UNCHANGED <<kind, seqno, bucket, redis>>, AppendsOk(c),
         pc[c] = "body", bucket[c] = "rep-partial",
         Source(c) \in Servers, Source(c) # Home[c],
         NEW peers, peers \subseteq Peers(c), Source(c) \in peers,
         kind[c] = "Get" => peers = {Source(c)},
         StartThreads(c, peers)
  PROVE  AppendsOk(c)'
<1>1. /\ pc'[c] = "join"
      /\ \A t \in Servers : place'[<<c, t>>] = IF t \in peers
                                               THEN IF t \in dead THEN "failed" ELSE "find"
                                               ELSE place[<<c, t>>]
  BY HandlerPairs DEF StartThreads, TypeOK
<1>2. \A t \in Servers : t # Home[c] => place[<<c, t>>] = "out"
  BY RequestParts DEF ControlInv, PeerLocked
<1>3. Source(c)' = Source(c)
  BY SourceKept
<1>4. AtSource(c)' /\ ~SourceDone(c)'
  BY <1>1, <1>2, <1>3 DEF AtSource, SourceDone
<1>5. ASSUME NEW n \in 1 .. seqno[c], Claimed(c, n)'
      PROVE  SourceHas(c, n)'
  BY <1>1, <1>4, <1>5, SourceKeepsHas DEF Claimed, AppendsOk
<1> QED
  BY <1>1, <1>4, <1>5 DEF AppendsOk, Answered

LEMMA PartialPeerKeepsAppends ==
  ASSUME TypeOK, ScenarioInv, ControlInv, FilesKeep, NEW c \in Clients, NEW s \in Servers,
         UNCHANGED <<kind, seqno, bucket, redis>>, AppendsOk(c),
         PartialS2SAppend(c, s) \/ PartialS2SGet(c, s) \/ PartialS2SThrows(c, s)
  PROVE  AppendsOk(c)'
<1>1. PICK to \in {"done", "failed"} : PeerEnds(c, s, to) /\ (PartialS2SThrows(c, s) => to = "failed")
  <2>1. CASE PartialS2SThrows(c, s)
    BY <2>1 DEF PartialS2SThrows
  <2>2. CASE ~PartialS2SThrows(c, s)
    BY <2>2 DEF PartialS2SAppend, PartialS2SGet
  <2> QED
    BY <2>1, <2>2
<1>2. /\ bucket[c] = "rep-partial" /\ s # Home[c] /\ place[<<c, s>>] = "in" /\ pc' = pc
      /\ pc[c] \in {"join", "exited"}
  BY <1>1, RequestParts
     DEF PartialS2SAppend, PartialS2SGet, PartialS2SThrows, AtPeer, PeerEnds, ControlInv, PeerLocked
<1>3. \A t \in Servers : place'[<<c, t>>] = IF t = s THEN to ELSE place[<<c, t>>]
  <2>1. place' = [place EXCEPT ![<<c, s>>] = to] /\ place \in [Handlers -> Places]
    BY <1>1 DEF PeerEnds, ControlInv, ControlType
  <2> QED
    BY <2>1, HandlerPairs
<1>4. CASE pc[c] = "exited"
  BY <1>2, <1>4, FrameKeepsAppends DEF AppendsFrame
<1>5. CASE pc[c] = "join"
  <2>1. /\ Source(c)' = Source(c) /\ Source(c) \in Servers /\ Source(c) # Home[c]
        /\ AtSource(c)'
    BY <1>2, <1>3, <1>5, SourceKept DEF AppendsOk, AtSource
  <2>2. CASE PartialS2SAppend(c, s)
    <3>1. kind[c] = "Append" /\ SetFile(c, s, AppendTo(File(c, s), Content(c)))
      BY <2>2 DEF PartialS2SAppend, AtPeer
    <3>2. CASE s = Source(c)
      <4>1. \A n \in 1 .. seqno[c] : SourceHas(c, n)'
        BY <3>1, <3>2, SourceAppends
      <4> QED
        BY <2>1, <3>1, <4>1 DEF AppendsOk, Answered
    <3>3. CASE s # Source(c)
      <4>1. SourceDone(c)' => SourceDone(c)
        BY <1>2, <1>3, <2>1, <3>3 DEF SourceDone
      <4>2. ASSUME NEW n \in 1 .. seqno[c], Claimed(c, n)'
            PROVE  SourceHas(c, n)'
        BY <1>2, <4>1, <4>2, SourceKeepsHas DEF Claimed, AppendsOk
      <4> QED
        BY <2>1, <3>1, <4>2 DEF AppendsOk, Answered
    <3> QED
      BY <3>2, <3>3
  <2>3. CASE PartialS2SGet(c, s)
    <3>1. kind[c] = "Get" /\ s = Source(c)
      BY <1>2, <1>5, <2>3 DEF PartialS2SGet, AtPeer, AppendsOk, AtSource
    <3>2. \A n \in 1 .. seqno[c] : SourceHas(c, n) /\ SourceHas(c, n)'
      BY <3>1, SourceKeepsHas DEF AppendsOk, Claimed
    <3>3. got'[c] = File(c, s)
      BY <2>3 DEF PartialS2SGet, TypeOK
    <3>4. ASSUME NEW n \in 1 .. seqno[c], SourceDone(c)'
          PROVE  Has(got'[c], c, n)
      BY <3>1, <3>2, <3>3, <3>4 DEF SourceHas
    <3>5. pc'[c] # "idle"
      BY <1>2
    <3>6. ASSUME NEW n \in 1 .. seqno[c], Answered(c)'
          PROVE  Has(got[c], c, n)'
      BY <3>4, <3>5, <3>6 DEF Answered, Has
    <3> QED
      BY <2>1, <3>2, <3>6 DEF AppendsOk
  <2>4. CASE PartialS2SThrows(c, s)
    <3>1. UNCHANGED <<files, got>> /\ to = "failed"
      BY <1>1, <2>4 DEF PartialS2SThrows
    <3>2. AppendsFrame(c)
      BY <1>2, <1>3, <3>1 DEF AppendsFrame
    <3> QED
      BY <3>2, FrameKeepsAppends
  <2> QED
    BY <2>2, <2>3, <2>4
<1> QED
  BY <1>2, <1>4, <1>5

LEMMA PartialKeepsAppends ==
  ASSUME TypeOK, ScenarioInv, ControlInv, NobodyPuts, named, FilesKeep, NEW c \in Clients,
         PartialStep(c), UNCHANGED <<kind, seqno, bucket, redis>>, AppendsOk(c)
  PROVE  AppendsOk(c)'
<1>k. kind[c] \in {"Get", "Append"} /\ Home[c] \in Servers
  BY NobodyPutsKinds, HomeType
<1>1. CASE PartialFails(c)
  BY <1>1, <1>k, DieAppendsFrame, FrameKeepsAppends DEF PartialFails
<1>2. CASE PartialThrows(c) \/ PartialOpensNothing(c)
  BY <1>2, ThrowKeepsAppends DEF PartialThrows, PartialOpensNothing
<1>3. CASE PartialGetLocal(c)
  <2>1. Source(c) = Home[c] /\ kind[c] = "Get"
    BY <1>3, FoundSource DEF PartialGetLocal
  <2> QED
    BY <1>3, <2>1, AnswerKeepsAppends DEF PartialGetLocal
<1>4. CASE PartialGet(c)
  <2>1. /\ Source(c) # Home[c] /\ Source(c) \in Servers /\ pc[c] = "body"
        /\ bucket[c] = "rep-partial" /\ Source(c) = NearestHost(Home[c], redis.hosts)
    BY <1>4, FoundSource DEF PartialGet
  <2>2. PeersAt(c, {Source(c)}) = {Source(c)}
    BY <2>1 DEF PeersAt, HostFromEP, Peers
  <2> QED
    BY <1>4, <2>1, <2>2, ThreadsKeepAppends DEF PartialGet, Peers
<1>5. CASE PartialAppendLocal(c)
  <2>1. Source(c) = Home[c] /\ kind[c] = "Append"
    BY <1>5, FoundSource DEF PartialAppendLocal
  <2>2. \A n \in 1 .. seqno[c] : SourceHas(c, n)'
    BY <1>5, <1>k, <2>1, SourceAppends DEF PartialAppendLocal
  <2>3. pc'[c] \in {"idle", "exited"}
    BY <1>5 DEF PartialAppendLocal, Return, TypeOK
  <2> QED
    BY <2>1, <2>2, <2>3, EndKeepsAppends
<1>6. CASE PartialAppend(c)
  <2>1. /\ Source(c) # Home[c] /\ Source(c) \in Servers /\ pc[c] = "body"
        /\ bucket[c] = "rep-partial" /\ Source(c) \in Hosts /\ kind[c] = "Append"
    BY <1>6, FoundSource DEF PartialAppend
  <2>2. Source(c) \in PeersAt(c, Hosts) /\ PeersAt(c, Hosts) \subseteq Peers(c)
    BY <2>1 DEF PeersAt, HostFromEP, Peers
  <2> QED
    BY <1>6, <2>1, <2>2, ThreadsKeepAppends DEF PartialAppend
<1>7. ASSUME NEW s \in Servers,
             PartialS2SAppend(c, s) \/ PartialS2SGet(c, s) \/ PartialS2SThrows(c, s)
      PROVE  AppendsOk(c)'
  BY <1>7, PartialPeerKeepsAppends
<1>8. /\ ~PartialPutLocal(c) /\ ~PartialPut(c)
      /\ \A s \in Servers : ~PartialS2SPut(c, s) /\ ~PartialS2SPutFails(c, s)
  BY <1>k DEF PartialPutLocal, PartialPut, Stores, PartialS2SPut, PartialS2SPutFails, InBody, AtPeer
<1> QED
  BY <1>1, <1>2, <1>3, <1>4, <1>5, <1>6, <1>7, <1>8 DEF PartialStep

LEMMA NextKeepsAppends ==
  ASSUME TypeOK, ScenarioInv, ControlInv, AppendsInv, [Next]_vars
  PROVE  AppendsInv'
<1>u. UNCHANGED <<named, scenario>>
  BY StepKeepsRest, LookupKeepsRest
     DEF Next, CallOne, Rest, vars, requestVars
<1> SUFFICES ASSUME named, NobodyPuts, redis = scenario.redis, \A c \in Clients : AppendsOk(c)
             PROVE  redis' = redis /\ \A c \in Clients : AppendsOk(c)'
  BY <1>u, AppendsParts, NextAppends
<1>1. ASSUME NEW c \in Clients, CallOne(c)
      PROVE  redis' = redis /\ \A d \in Clients : AppendsOk(d)'
  <2>1. PICK k \in scenario.kinds[c] : Call(c, scenario.use[c], k)
    BY <1>1 DEF CallOne
  <2>2. bucket' = bucket /\ UNCHANGED <<redis, files, got>>
    BY <2>1, ScenarioType DEF Call, ScenarioInv
  <2>3. \A d \in Clients : \A n : SourceHas(d, n)' = SourceHas(d, n)
    BY <2>2 DEF SourceHas, Source, Has, File
  <2>4. AppendsOk(c)'
    <3>1. /\ pc[c] = "idle" /\ pc'[c] = "container"
          /\ seqno[c] \in Nat
          /\ \/ seqno'[c] = seqno[c] /\ kind'[c] = "Get"
             \/ seqno'[c] = seqno[c] + 1 /\ kind'[c] # "Get"
      <4>1. seqno \in [Clients -> 0 .. MaxWrites] /\ MaxWrites \in Nat /\ pc[c] = "idle"
            /\ kind' = [kind EXCEPT ![c] = k] /\ pc' = [pc EXCEPT ![c] = "container"]
            /\ seqno' = [seqno EXCEPT ![c] = IF k = "Get" THEN @ ELSE @ + 1]
        BY <2>1, ContainersAssumption DEF Call, TypeOK
      <4> QED
        BY <4>1 DEF TypeOK
    <3>2. ASSUME NEW n \in 1 .. seqno'[c], Claimed(c, n)'
          PROVE  n \in 1 .. seqno[c] /\ Claimed(c, n)
      BY <3>1, <3>2 DEF Claimed
    <3>3. ASSUME NEW n \in 1 .. seqno'[c], Claimed(c, n)'
          PROVE  SourceHas(c, n)'
      BY <2>3, <3>2, <3>3 DEF AppendsOk
    <3> QED
      BY <3>1, <3>3 DEF AppendsOk, AtSource, Answered
  <2>5. ASSUME NEW d \in Clients, d # c
        PROVE  AppendsOk(d)'
    <3>1. /\ pc'[d] = pc[d] /\ kind'[d] = kind[d] /\ seqno'[d] = seqno[d]
          /\ \A s \in Servers : place'[<<d, s>>] = place[<<d, s>>]
      <4>1. /\ place' = [place EXCEPT ![<<c, Home[c]>>] = "find"] /\ place \in [Handlers -> Places]
            /\ pc'[d] = pc[d] /\ kind'[d] = kind[d] /\ seqno'[d] = seqno[d]
        BY <2>1, <2>5 DEF Call, Here, TypeOK, Places
      <4> QED
        BY <2>5, <4>1, HandlerPairs
    <3>2. Source(d)' = Source(d)
      BY <2>2 DEF Source
    <3>3. AtSource(d)' /\ (pc[d] = "join" => SourceDone(d)' = SourceDone(d))
      <4>1. bucket[d] \in {"rep-redis", "rep-partial"}
        BY ScenarioType, ContainersAssumption
      <4> QED
        BY <2>2, <3>1, <3>2, <4>1 DEF AppendsOk, AtSource, SourceDone
    <3>4. ASSUME NEW n \in 1 .. seqno[d], Claimed(d, n)'
          PROVE  SourceHas(d, n)'
      BY <2>3, <3>1, <3>3, <3>4 DEF AppendsOk, Claimed
    <3>5. ASSUME NEW n \in 1 .. seqno[d], Answered(d)'
          PROVE  Has(got[d], d, n)'
      BY <2>2, <3>1, <3>3, <3>5 DEF AppendsOk, Answered, Has
    <3> QED
      BY <3>1, <3>3, <3>4, <3>5 DEF AppendsOk
  <2> QED
    BY <2>2, <2>4, <2>5
<1>2. ASSUME NEW c \in Clients, Continue(c)
      PROVE  redis' = redis /\ \A d \in Clients : AppendsOk(d)'
  <2>1. FilesKeep /\ UNCHANGED <<kind, seqno, bucket, redis>>
    BY <1>2, ContinueKeepsFiles, StepKeepsRest DEF Rest
  <2>2. AppendsOk(c)'
    BY <1>2, <2>1, RequestKeepsAppends, RedisKeepsAppends, PartialKeepsAppends DEF Continue
  <2> QED
    BY <1>2, <2>1, <2>2, OthersKeepAppends
<1>3. ASSUME NEW h \in Handlers, Lookup(h)
      PROVE  redis' = redis /\ \A d \in Clients : AppendsOk(d)'
  <2>1. UNCHANGED <<kind, seqno, bucket, got, files, redis>>
    BY <1>3, LookupKeepsRest DEF Rest
  <2>2. ASSUME NEW d \in Clients
        PROVE  AppendsFrame(d)
    <3>1. CASE GetContainer(h) /\ UNCHANGED callVars
      <4>1. PICK from \in {"find", "wait", "locked", "insert", "assign"},
                 to \in {"wait", "locked", "insert", "assign", "in", "failed"} :
              Move(h, from, to)
        BY <3>1 DEF GetContainer, Find, FindNothing, Lock, FindAgain, Load, LoadThrows,
           InsertEntry, AssignEntry
      <4>2. ASSUME NEW s \in Servers
            PROVE  /\ place'[<<d, s>>] = "out" <=> place[<<d, s>>] = "out"
                   /\ place'[<<d, s>>] = "done" <=> place[<<d, s>>] = "done"
        <5>1. <<d, s>> \in Handlers
          BY HandlerPairs
        <5>2. place[h] = from /\ place'[<<d, s>>] = IF <<d, s>> = h THEN to ELSE place[<<d, s>>]
          BY <4>1, <5>1 DEF Move, ControlInv, ControlType
        <5> QED
          BY <5>2
      <4> QED
        BY <2>1, <3>1, <4>2 DEF AppendsFrame, callVars
    <3>2. CASE NullReference(h)
      BY <2>1, <3>2, HandlerPairs, DieAppendsFrame DEF NullReference
    <3> QED
      BY <1>3, <3>1, <3>2 DEF Lookup
  <2> QED
    BY <2>1, <2>2, FrameKeepsAppends DEF FilesKeep
<1>4. CASE UNCHANGED vars
  <2>1. UNCHANGED <<kind, seqno, bucket, got, files, redis, pc, place>>
    BY <1>4 DEF vars, requestVars, mgrVars, callVars
  <2> QED
    BY <2>1, FrameKeepsAppends DEF FilesKeep, AppendsFrame
<1> QED
  BY <1>1, <1>2, <1>3, <1>4 DEF Next
-----------------------------------------------------------------------------
(* The order of a client's records.                                        *)
Before == {"container", "body"}
Ended  == {"out", "done", "failed"}

(* How a step leaves the request and its handlers.                         *)
Outcome(c) ==
  \/ \E s \in Servers : Die(s)
  \/ \E to \in {"idle", "exited"} : pc' = [pc EXCEPT ![c] = to] /\ HandlersEnd(c)
  \/ pc[c] = "body" /\ \E peers : StartThreads(c, peers)
  \/ \E s \in Servers, to \in {"done", "failed"} : PeerEnds(c, s, to)
  \/ /\ pc[c] = "container" /\ UNCHANGED place
     /\ \E to \in {"body", "exited"} : pc' = [pc EXCEPT ![c] = to]

LEMMA Outcomes ==
  ASSUME NEW c \in Clients, Continue(c)
  PROVE  Outcome(c)
<1>h. Home[c] \in Servers
  BY HomeType
<1>r. ASSUME Return(c)
      PROVE  Outcome(c)
  BY <1>r DEF Return, Outcome
<1>t. ASSUME Throw(c)
      PROVE  Outcome(c)
  BY <1>t, <1>h DEF Throw, Outcome
<1>1. CASE RequestStep(c)
  <2>1. CASE JoinThreads(c) \/ ThreadThrows(c)
    BY <1>r, <1>h, <2>1 DEF JoinThreads, ThreadThrows, Outcome
  <2>2. CASE ContainerThrows(c) \/ AcquireLock(c) \/ AcquireThrows(c)
    BY <2>2 DEF ContainerThrows, AcquireLock, AcquireThrows, mgrVars, Outcome
  <2> QED
    BY <1>1, <2>1, <2>2 DEF RequestStep
<1>2. CASE RedisStep(c)
  <2>1. CASE RedisFails(c) \/ RedisThrows(c) \/ RedisGet(c)
    BY <1>h, <1>r, <1>t, <2>1 DEF RedisFails, RedisThrows, RedisGet, Outcome
  <2>2. CASE RedisPut(c) \/ RedisAppend(c)
    BY <2>2 DEF RedisPut, RedisAppend, RedisAnswers, InBody, Outcome
  <2>3. ASSUME NEW s \in Servers,
               RedisS2SPut(c, s) \/ RedisS2SAppend(c, s) \/ RedisS2SThrows(c, s)
        PROVE  Outcome(c)
    BY <2>3 DEF RedisS2SPut, RedisS2SAppend, RedisS2SThrows, Outcome
  <2> QED
    BY <1>2, <2>1, <2>2, <2>3 DEF RedisStep
<1>3. CASE PartialStep(c)
  <2>1. CASE PartialFails(c) \/ PartialThrows(c) \/ PartialOpensNothing(c)
    BY <1>h, <1>t, <2>1 DEF PartialFails, PartialThrows, PartialOpensNothing, Outcome
  <2>2. CASE PartialGetLocal(c) \/ PartialAppendLocal(c) \/ PartialPutLocal(c)
    BY <1>r, <2>2 DEF PartialGetLocal, PartialAppendLocal, PartialPutLocal
  <2>3. CASE PartialGet(c) \/ PartialAppend(c) \/ PartialPut(c)
    BY <2>3 DEF PartialGet, PartialAppend, PartialPut, Finds, InBody, Outcome
  <2>4. ASSUME NEW s \in Servers,
               \/ PartialS2SPut(c, s) \/ PartialS2SPutFails(c, s)
               \/ PartialS2SAppend(c, s) \/ PartialS2SGet(c, s) \/ PartialS2SThrows(c, s)
        PROVE  Outcome(c)
    BY <2>4 DEF PartialS2SPut, PartialS2SPutFails, PartialS2SAppend, PartialS2SGet,
       PartialS2SThrows, Outcome
  <2> QED
    BY <1>3, <2>1, <2>2, <2>3, <2>4 DEF PartialStep
<1> QED
  BY <1>1, <1>2, <1>3 DEF Continue

(* Nothing that a step does makes a copy one that is still to be written.  *)
NoMoreToStore(d) ==
  /\ pc'[d] \in Before => pc[d] \in Before
  /\ \A s \in Servers :
       place'[<<d, s>>] \notin Ended => pc[d] \in Before \/ place[<<d, s>>] \notin Ended

LEMMA DieStoresNoMore ==
  ASSUME NEW s \in Servers, Die(s), NEW d \in Clients
  PROVE  NoMoreToStore(d)
<1>1. /\ pc'[d] = IF Home[d] = s /\ pc[d] # "idle" THEN "exited" ELSE pc[d]
      /\ \A t \in Servers : place'[<<d, t>>] = IF t = s /\ place[<<d, t>>] \notin {"out", "done"}
                                               THEN "failed" ELSE place[<<d, t>>]
  BY HandlerPairs DEF Die
<1> QED
  BY <1>1 DEF NoMoreToStore, Before, Ended

LEMMA ContinueStoresNoMore ==
  ASSUME ControlInv, NEW c \in Clients, Continue(c), NEW d \in Clients
  PROVE  NoMoreToStore(d)
<1>t. pc \in [Clients -> {"idle", "container", "body", "join", "exited"}]
      /\ place \in [Handlers -> Places]
  BY DEF ControlInv, ControlType
<1>1. CASE d # c
  BY <1>1, StepFrames, DieStoresNoMore DEF Others, NoMoreToStore
<1>2. CASE d = c
  <2>1. CASE \E s \in Servers : Die(s)
    BY <2>1, DieStoresNoMore
  <2>2. ASSUME NEW to \in {"idle", "exited"}, pc' = [pc EXCEPT ![c] = to], HandlersEnd(c)
        PROVE  NoMoreToStore(c)
    BY <1>t, <2>2, HandlerPairs DEF HandlersEnd, NoMoreToStore, Before, Ended
  <2>3. ASSUME pc[c] = "body", NEW peers, StartThreads(c, peers)
        PROVE  NoMoreToStore(c)
    BY <2>3 DEF NoMoreToStore, Before
  <2>4. ASSUME NEW s \in Servers, NEW to \in {"done", "failed"}, PeerEnds(c, s, to)
        PROVE  NoMoreToStore(c)
    BY <1>t, <2>4, HandlerPairs DEF PeerEnds, NoMoreToStore, Ended
  <2>5. ASSUME pc[c] = "container"
        PROVE  NoMoreToStore(c)
    BY <2>5 DEF NoMoreToStore, Before
  <2> QED
    BY <1>2, <2>1, <2>2, <2>3, <2>4, <2>5, Outcomes DEF Outcome
<1> QED
  BY <1>1, <1>2

LEMMA LookupStoresNoMore ==
  ASSUME ControlInv, NEW h \in Handlers, Lookup(h), NEW d \in Clients
  PROVE  NoMoreToStore(d)
<1>1. CASE GetContainer(h) /\ UNCHANGED callVars
  <2>1. PICK from \in {"find", "wait", "locked", "insert", "assign"},
             to \in {"wait", "locked", "insert", "assign", "in", "failed"} :
          Move(h, from, to)
    BY <1>1 DEF GetContainer, Find, FindNothing, Lock, FindAgain, Load, LoadThrows,
       InsertEntry, AssignEntry
  <2>2. ASSUME NEW s \in Servers, place'[<<d, s>>] \notin Ended
        PROVE  place[<<d, s>>] \notin Ended
    <3>1. <<d, s>> \in Handlers
      BY HandlerPairs
    <3>2. place[h] = from /\ place'[<<d, s>>] = IF <<d, s>> = h THEN to ELSE place[<<d, s>>]
      BY <2>1, <3>1 DEF Move, ControlInv, ControlType
    <3> QED
      BY <2>2, <3>2 DEF Ended
  <2> QED
    BY <1>1, <2>2 DEF NoMoreToStore, callVars
<1>2. CASE NullReference(h)
  BY <1>2, DieStoresNoMore, HandlerPairs DEF NullReference
<1> QED
  BY <1>1, <1>2 DEF Lookup

(* A write is one that was still to be made there, and is made.            *)
Stored(c, s) ==
  /\ kind[c] # "Get" /\ StillToStore(c, s) /\ ~StillToStore(c, s)'
  /\ \E content \in {Content(c), AppendTo(File(c, s), Content(c))} : SetFile(c, s, content)

LEMMA HomeStores ==
  ASSUME TypeOK, ScenarioInv, NEW c \in Clients, NEW b, NEW k \in {"Put", "Append"},
         InBody(c, b, k), NEW peers, Return(c) \/ StartThreads(c, peers),
         \E content \in {Content(c), AppendTo(File(c, Home[c]), Content(c))} :
           SetFile(c, Home[c], content)
  PROVE  Stored(c, Home[c])
<1>1. kind[c] # "Get" /\ StillToStore(c, Home[c])
  BY DEF InBody, StillToStore
<1>2. pc'[c] \in {"idle", "exited", "join"}
  BY DEF Return, StartThreads, TypeOK
<1>3. ~StillToStore(c, Home[c])'
  BY <1>2 DEF StillToStore
<1> QED
  BY <1>1, <1>3 DEF Stored

LEMMA PeerStores ==
  ASSUME TypeOK, ScenarioInv, ControlInv, NEW c \in Clients, NEW s \in Servers,
         NEW b, NEW k \in {"Put", "Append"}, AtPeer(c, s, b, k), PeerEnds(c, s, "done"),
         \E content \in {Content(c), AppendTo(File(c, s), Content(c))} : SetFile(c, s, content)
  PROVE  Stored(c, s)
<1>1. kind[c] # "Get" /\ StillToStore(c, s)
  BY DEF AtPeer, StillToStore
<1>2. pc'[c] \in {"join", "exited"} /\ place'[<<c, s>>] = "done"
  <2>1. pc[c] \in {"join", "exited"}
    BY RequestParts DEF AtPeer, ControlInv, PeerLocked
  <2> QED
    BY <2>1, HandlerPairs DEF PeerEnds, TypeOK
<1>3. ~StillToStore(c, s)'
  BY <1>2 DEF StillToStore
<1> QED
  BY <1>1, <1>3 DEF Stored

LEMMA WriteSteps ==
  ASSUME TypeOK, ScenarioInv, ControlInv, NEW c \in Clients, Continue(c)
  PROVE  UNCHANGED files \/ \E s \in Servers : Stored(c, s)
<1>h. Home[c] \in Servers
  BY HomeType
<1>1. CASE RequestStep(c)
  BY <1>1 DEF RequestStep, ContainerThrows, AcquireLock, AcquireThrows, ThreadThrows, JoinThreads
<1>2. CASE RedisStep(c)
  <2>1. CASE RedisFails(c) \/ RedisThrows(c) \/ RedisGet(c)
    BY <2>1 DEF RedisFails, RedisThrows, RedisGet
  <2>2. CASE RedisPut(c)
    <3>1. InBody(c, "rep-redis", "Put") /\ kind[c] # "Get"
      BY <2>2 DEF RedisPut, RedisAnswers, InBody
    <3> QED
      BY <1>h, <2>2, <3>1, ReplacedType, HomeStores DEF RedisPut
  <2>3. CASE RedisAppend(c)
    BY <1>h, <2>3, HomeStores DEF RedisAppend, RedisAnswers
  <2>4. ASSUME NEW s \in Servers, RedisS2SPut(c, s)
        PROVE  Stored(c, s)
    <3>1. kind[c] # "Get"
      BY <2>4 DEF RedisS2SPut, AtPeer
    <3> QED
      BY <2>4, <3>1, ReplacedType, PeerStores DEF RedisS2SPut
  <2>5. ASSUME NEW s \in Servers, RedisS2SAppend(c, s)
        PROVE  Stored(c, s)
    BY <2>5, PeerStores DEF RedisS2SAppend
  <2>6. ASSUME NEW s \in Servers, RedisS2SThrows(c, s)
        PROVE  UNCHANGED files
    BY <2>6 DEF RedisS2SThrows
  <2> QED
    BY <1>2, <2>1, <2>2, <2>3, <2>4, <2>5, <2>6 DEF RedisStep
<1>3. CASE PartialStep(c)
  <2>1. CASE \/ PartialFails(c) \/ PartialThrows(c) \/ PartialOpensNothing(c)
             \/ PartialGetLocal(c) \/ PartialGet(c) \/ PartialAppend(c) \/ PartialPut(c)
    BY <2>1 DEF PartialFails, PartialThrows, PartialOpensNothing, PartialGetLocal, PartialGet,
       PartialAppend, PartialPut
  <2>2. CASE PartialPutLocal(c)
    <3>1. InBody(c, "rep-partial", "Put") /\ kind[c] # "Get"
      BY <2>2 DEF PartialPutLocal, Stores, InBody
    <3> QED
      BY <1>h, <2>2, <3>1, ReplacedType, HomeStores DEF PartialPutLocal
  <2>3. CASE PartialAppendLocal(c)
    BY <1>h, <2>3, HomeStores DEF PartialAppendLocal, Finds
  <2>4. ASSUME NEW s \in Servers, PartialS2SPut(c, s)
        PROVE  UNCHANGED files \/ Stored(c, s)
    <3>1. kind[c] # "Get"
      BY <2>4 DEF PartialS2SPut, AtPeer
    <3> QED
      BY <2>4, <3>1, ReplacedType, PeerStores DEF PartialS2SPut
  <2>5. ASSUME NEW s \in Servers, PartialS2SAppend(c, s)
        PROVE  Stored(c, s)
    BY <2>5, PeerStores DEF PartialS2SAppend
  <2>6. ASSUME NEW s \in Servers,
               PartialS2SPutFails(c, s) \/ PartialS2SGet(c, s) \/ PartialS2SThrows(c, s)
        PROVE  UNCHANGED files
    BY <2>6 DEF PartialS2SPutFails, PartialS2SGet, PartialS2SThrows
  <2> QED
    BY <1>3, <2>1, <2>2, <2>3, <2>4, <2>5, <2>6 DEF PartialStep
<1> QED
  BY <1>1, <1>2, <1>3 DEF Continue

(* Where a written file has a client's records.                            *)
LEMMA OwnContent ==
  ASSUME TypeOK, ScenarioInv, NEW c \in Clients, kind[c] # "Get", NEW d \in Clients
  PROVE  /\ InOrder(Content(c), d)
         /\ \A i \in Own(Content(c), d) : d = c /\ Content(c)[i].n = seqno[c]
<1>1. Content(c) = <<[client |-> c, n |-> seqno[c]]>>
  BY DEF Content
<1>2. \A i \in DOMAIN Content(c) : i = 1
  BY <1>1
<1>3. Content(c)[1].client = c /\ Content(c)[1].n = seqno[c]
  BY <1>1
<1> QED
  BY <1>2, <1>3 DEF Own, InOrder

LEMMA OneMore ==
  ASSUME NEW S, NEW file \in Seq(S), NEW x \in S
  PROVE  /\ DOMAIN (file \o <<x>>) = 1 .. Len(file) + 1
         /\ DOMAIN file = 1 .. Len(file) /\ Len(file) \in Nat
         /\ \A i \in DOMAIN file : (file \o <<x>>)[i] = file[i]
         /\ (file \o <<x>>)[Len(file) + 1] = x
<1>1. Len(file) \in Nat /\ DOMAIN file = 1 .. Len(file)
  OBVIOUS
<1>2. <<x>> \in Seq(S) /\ Len(<<x>>) = 1 /\ <<x>>[1] = x
  OBVIOUS
<1>3. (file \o <<x>>)[Len(file) + 1] = x
  BY <1>2
<1>4. Len(file \o <<x>>) = Len(file) + 1
  BY <1>2
<1>5. file \o <<x>> \in Seq(S)
  BY <1>2
<1>6. DOMAIN (file \o <<x>>) = 1 .. Len(file) + 1
  BY <1>4, <1>5
<1>7. \A i \in 1 .. Len(file) : (file \o <<x>>)[i] = file[i]
  BY <1>2
<1> QED
  BY <1>1, <1>3, <1>6, <1>7

LEMMA OwnAppended ==
  ASSUME TypeOK, ScenarioInv, NEW c \in Clients, kind[c] # "Get", NEW d \in Clients,
         NEW file \in Seq(Chunk) \cup {NoFile}, file # NoFile => InOrder(file, d),
         d = c /\ file # NoFile => \A i \in Own(file, d) : file[i].n < seqno[d]
  PROVE  /\ InOrder(AppendTo(file, Content(c)), d)
         /\ \A i \in Own(AppendTo(file, Content(c)), d) :
              \/ file # NoFile /\ i \in Own(file, d) /\ AppendTo(file, Content(c))[i] = file[i]
              \/ d = c /\ AppendTo(file, Content(c))[i].n = seqno[c]
<1>1. CASE file = NoFile
  BY <1>1, OwnContent DEF AppendTo
<1>2. CASE file # NoFile
  <2> DEFINE new == AppendTo(file, Content(c))
  <2>1. /\ new = file \o <<[client |-> c, n |-> seqno[c]]>> /\ file \in Seq(Chunk)
        /\ [client |-> c, n |-> seqno[c]] \in Chunk
    <3>1. Content(c) = <<[client |-> c, n |-> seqno[c]]>>
      BY DEF Content
    <3>2. [client |-> c, n |-> seqno[c]] \in Chunk
      BY ContentType DEF Chunk
    <3> QED
      BY <1>2, <3>1, <3>2 DEF AppendTo
  <2>2. /\ DOMAIN new = 1 .. Len(file) + 1 /\ DOMAIN file = 1 .. Len(file) /\ Len(file) \in Nat
        /\ \A i \in DOMAIN file : new[i] = file[i]
        /\ new[Len(file) + 1] = [client |-> c, n |-> seqno[c]]
    BY <2>1, OneMore
  <2>3. ASSUME NEW i \in Own(new, d)
        PROVE  \/ i \in Own(file, d) /\ new[i] = file[i]
               \/ i = Len(file) + 1 /\ d = c /\ new[i].n = seqno[c]
    <3>1. i \in 1 .. Len(file) + 1 /\ new[i].client = d
      BY <2>2 DEF Own
    <3>2. CASE i = Len(file) + 1
      BY <2>2, <3>1, <3>2
    <3>3. CASE i # Len(file) + 1
      <4>1. i \in DOMAIN file
        BY <2>2, <3>1, <3>3
      <4> QED
        BY <2>2, <3>1, <4>1 DEF Own
    <3> QED
      BY <3>2, <3>3
  <2>4. ASSUME NEW i \in Own(new, d), NEW j \in Own(new, d), i < j
        PROVE  new[i].n < new[j].n
    <3>1. i \in 1 .. Len(file) + 1 /\ j \in 1 .. Len(file) + 1
      BY <2>2 DEF Own
    <3>2. i # Len(file) + 1
      BY <2>2, <2>4, <3>1
    <3>3. i \in Own(file, d) /\ new[i] = file[i]
      BY <2>3, <3>2
    <3>4. CASE j \in Own(file, d) /\ new[j] = file[j]
      BY <1>2, <2>4, <3>3, <3>4 DEF InOrder
    <3>5. CASE d = c /\ new[j].n = seqno[c]
      BY <1>2, <3>3, <3>5
    <3> QED
      BY <2>3, <3>4, <3>5
  <2> QED
    BY <1>2, <2>3, <2>4 DEF InOrder
<1> QED
  BY <1>1, <1>2

CopyInOrder(c, s) ==
  File(c, s) # NoFile =>
    /\ InOrder(File(c, s), c)
    /\ \A i \in Own(File(c, s), c) :
         /\ File(c, s)[i].n <= seqno[c]
         /\ StillToStore(c, s) => File(c, s)[i].n < seqno[c]

LEMMA OrderParts ==
  OrderInv <=> \A c \in Clients : InOrder(got[c], c) /\ \A s \in Servers : CopyInOrder(c, s)
BY DEF OrderInv, CopyInOrder

LEMMA NextOrder ==
  ASSUME \A c \in Clients : InOrder(got'[c], c) /\ \A s \in Servers : CopyInOrder(c, s)'
  PROVE  OrderInv'
BY DEF OrderInv, CopyInOrder, InOrder, Own

(* A copy that is left alone.                                              *)
LEMMA CopyKeepsOrder ==
  ASSUME NEW c \in Clients, NEW s \in Servers, CopyInOrder(c, s), NoMoreToStore(c),
         File(c, s)' = File(c, s), kind'[c] = kind[c], seqno'[c] = seqno[c]
  PROVE  CopyInOrder(c, s)'
<1>1. StillToStore(c, s)' => StillToStore(c, s)
  BY DEF StillToStore, NoMoreToStore, Before, Ended
<1> QED
  BY <1>1 DEF CopyInOrder, InOrder, Own

(* A copy that c writes, and what it then has of d's records.              *)
LEMMA StoreKeepsOrder ==
  ASSUME TypeOK, ScenarioInv, ControlInv, NEW c \in Clients, Continue(c),
         NEW s \in Servers, Stored(c, s), NEW d \in Clients, bucket[d] = bucket[c],
         CopyInOrder(d, s)
  PROVE  CopyInOrder(d, s)'
<1>k. UNCHANGED <<kind, seqno, bucket>> /\ kind[c] # "Get"
  BY StepKeepsRest DEF Stored, Rest
<1>n. seqno[d] \in Nat /\ (d = c => StillToStore(d, s) /\ ~StillToStore(d, s)')
  BY DEF Stored, TypeOK
<1>s. StillToStore(d, s)' => StillToStore(d, s)
  BY <1>k, ContinueStoresNoMore DEF StillToStore, NoMoreToStore, Before, Ended
<1>f. File(d, s) = File(c, s) /\ File(c, s) \in Seq(Chunk) \cup {NoFile}
  BY FileType DEF File
<1>1. PICK content \in {Content(c), AppendTo(File(c, s), Content(c))} : SetFile(c, s, content)
  BY DEF Stored
<1>2. File(d, s)' = content
  <2>1. content \in Seq(Chunk)
    BY <1>1, <1>k, ContentType, FileType
  <2>2. files'[s][bucket[c]] = content
    BY <1>1, <2>1, SetFileType, ScenarioType
  <2> QED
    BY <1>k, <2>2 DEF File
<1>3. CASE content = Content(c)
  <2>1. InOrder(content, d) /\ \A i \in Own(content, d) : d = c /\ content[i].n = seqno[d]
    BY <1>3, <1>k, OwnContent
  <2> QED
    BY <1>k, <1>n, <1>2, <2>1 DEF CopyInOrder, InOrder, Own
<1>4. CASE content = AppendTo(File(c, s), Content(c))
  <2>1. /\ InOrder(content, d)
        /\ \A i \in Own(content, d) :
             \/ /\ File(d, s) # NoFile /\ i \in Own(File(d, s), d)
                /\ content[i] = File(d, s)[i]
             \/ d = c /\ content[i].n = seqno[d]
    BY <1>4, <1>f, <1>k, <1>n, OwnAppended DEF CopyInOrder
  <2>2. ASSUME NEW i \in Own(content, d)
        PROVE  /\ content[i].n <= seqno[d]
               /\ StillToStore(d, s)' => content[i].n < seqno[d]
    <3>1. CASE d = c /\ content[i].n = seqno[d]
      BY <1>n, <3>1
    <3>2. CASE /\ File(d, s) # NoFile /\ i \in Own(File(d, s), d)
               /\ content[i] = File(d, s)[i]
      BY <1>s, <3>2 DEF CopyInOrder
    <3> QED
      BY <2>1, <3>1, <3>2
  <2> QED
    BY <1>k, <1>2, <2>1, <2>2 DEF CopyInOrder, InOrder, Own
<1> QED
  BY <1>3, <1>4

LEMMA ContinueKeepsOrder ==
  ASSUME TypeOK, ScenarioInv, ControlInv, OrderInv, NEW c \in Clients, Continue(c)
  PROVE  OrderInv'
<1>k. UNCHANGED <<kind, seqno, bucket>>
  BY StepKeepsRest DEF Rest
<1>o. \A d \in Clients : InOrder(got[d], d) /\ \A t \in Servers : CopyInOrder(d, t)
  BY OrderParts
<1>1. ASSUME NEW d \in Clients
      PROVE  InOrder(got'[d], d)
  <2>1. PICK t \in Servers : Answers(c, t)
    BY DataSteps
  <2>2. \/ got'[d] = got[d] \/ got'[d] = <<>>
        \/ d = c /\ File(c, t) # NoFile /\ got'[d] = File(c, t)
    BY <2>1 DEF Answers, TypeOK
  <2>3. InOrder(<<>>, d)
    BY DEF InOrder, Own
  <2>4. File(c, t) # NoFile => InOrder(File(c, t), c)
    BY <1>o DEF CopyInOrder
  <2> QED
    BY <1>o, <2>2, <2>3, <2>4
<1>2. ASSUME NEW d \in Clients, NEW t \in Servers
      PROVE  CopyInOrder(d, t)'
  <2>1. CASE File(d, t)' = File(d, t)
    BY <1>k, <1>o, <2>1, ContinueStoresNoMore, CopyKeepsOrder
  <2>2. CASE File(d, t)' # File(d, t)
    <3>1. PICK s \in Servers : Stored(c, s)
      BY <1>k, <2>2, WriteSteps DEF File
    <3>2. PICK content : SetFile(c, s, content)
      BY <3>1 DEF Stored
    <3>3. t = s /\ bucket[d] = bucket[c]
      <4>1. \A u \in Servers, b \in Buckets :
              u # s \/ b # bucket[c] => files'[u][b] = files[u][b]
        BY <3>2 DEF SetFile, TypeOK
      <4> QED
        BY <1>k, <2>2, <4>1, ScenarioType DEF File
    <3> QED
      BY <1>o, <3>1, <3>3, StoreKeepsOrder
  <2> QED
    BY <2>1, <2>2
<1> QED
  BY <1>1, <1>2, NextOrder

LEMMA NextKeepsOrder ==
  ASSUME TypeOK, ScenarioInv, ControlInv, OrderInv, [Next]_vars
  PROVE  OrderInv'
<1>o. \A d \in Clients : InOrder(got[d], d) /\ \A t \in Servers : CopyInOrder(d, t)
  BY OrderParts
<1>f. ASSUME UNCHANGED <<kind, seqno, bucket, got, files>>, \A d \in Clients : NoMoreToStore(d)
      PROVE  OrderInv'
  <2>1. ASSUME NEW d \in Clients, NEW t \in Servers
        PROVE  CopyInOrder(d, t)'
    BY <1>f, <1>o, CopyKeepsOrder DEF File
  <2> QED
    BY <1>f, <1>o, <2>1, NextOrder
<1>1. ASSUME NEW c \in Clients, CallOne(c)
      PROVE  OrderInv'
  <2>1. PICK k \in scenario.kinds[c] : Call(c, scenario.use[c], k)
    BY <1>1 DEF CallOne
  <2>2. bucket' = bucket /\ UNCHANGED <<files, got>>
    BY <2>1, ScenarioType DEF Call, ScenarioInv
  <2>3. ASSUME NEW t \in Servers
        PROVE  CopyInOrder(c, t)'
    <3>1. /\ seqno[c] \in Nat /\ kind'[c] = k
          /\ seqno'[c] = IF k = "Get" THEN seqno[c] ELSE seqno[c] + 1
      BY <2>1 DEF Call, TypeOK
    <3>2. File(c, t)' = File(c, t)
      BY <2>2 DEF File
    <3>3. ASSUME NEW i \in Own(File(c, t), c), File(c, t) # NoFile
          PROVE  /\ File(c, t)[i].n <= seqno'[c]
                 /\ StillToStore(c, t)' => File(c, t)[i].n < seqno'[c]
      <4>1. File(c, t)[i].n \in Nat /\ File(c, t)[i].n <= seqno[c]
        <5>1. File(c, t) \in Seq(Chunk) /\ i \in DOMAIN File(c, t)
          BY <3>3, FileType DEF Own
        <5>2. File(c, t)[i] \in Chunk
          BY <5>1
        <5> QED
          BY <1>o, <3>3, <5>2 DEF CopyInOrder, Chunk
      <4> QED
        BY <3>1, <4>1 DEF StillToStore
    <3> QED
      BY <1>o, <3>2, <3>3 DEF CopyInOrder, InOrder, Own
  <2>4. ASSUME NEW d \in Clients, d # c, NEW t \in Servers
        PROVE  CopyInOrder(d, t)'
    <3>1. /\ pc'[d] = pc[d] /\ kind'[d] = kind[d] /\ seqno'[d] = seqno[d]
          /\ \A s \in Servers : place'[<<d, s>>] = place[<<d, s>>]
      <4>1. /\ place' = [place EXCEPT ![<<c, Home[c]>>] = "find"] /\ place \in [Handlers -> Places]
            /\ pc'[d] = pc[d] /\ kind'[d] = kind[d] /\ seqno'[d] = seqno[d]
        BY <2>1, <2>4 DEF Call, Here, TypeOK, Places
      <4> QED
        BY <2>4, <4>1, HandlerPairs
    <3>2. NoMoreToStore(d)
      BY <3>1 DEF NoMoreToStore
    <3> QED
      BY <1>o, <2>2, <3>1, <3>2, CopyKeepsOrder DEF File
  <2> QED
    BY <1>o, <2>2, <2>3, <2>4, NextOrder
<1>2. ASSUME NEW h \in Handlers, Lookup(h)
      PROVE  OrderInv'
  BY <1>2, <1>f, LookupKeepsRest, LookupStoresNoMore DEF Rest
<1>3. CASE UNCHANGED vars
  BY <1>3, <1>f DEF vars, requestVars, mgrVars, callVars, NoMoreToStore
<1> QED
  BY <1>1, <1>2, <1>3, ContinueKeepsOrder DEF Next
-----------------------------------------------------------------------------
(* The invariant, and what follows from it. *)
LEMMA InitKeepsInvariant == Init => IInv
<1> SUFFICES ASSUME Init
             PROVE  IInv
  OBVIOUS
<1>1. scenario \in Scenario /\ scenario \in Scenarios
  BY ContainersAssumption DEF Init
<1>2. ScenarioInv
  BY <1>1 DEF Init, ScenarioInv
<1>3. ControlInv
  <2>1. RequestInv
    BY NothingAssumption, HomeType DEF Init, RequestInv
  <2>2. LoadInv
    BY DEF Init, LoadInv
  <2>3. bucket \in [Clients -> Buckets]
    BY <1>2, ScenarioType
  <2>4. \A d \in Clients, t \in Servers :
          load_lock[t] = <<d, t>> <=> place[<<d, t>>] \in Owning
    BY HandlerPairs, NothingAssumption DEF Init, Owning
  <2> QED
    BY <2>1, <2>2, <2>3, <2>4 DEF Init, ControlInv, ControlType, Places
<1>4. DataType
  <2>1. redis \in KeyValues
    BY <1>1 DEF Init, Scenario
  <2>2. <<>> \in Seq(Chunk) /\ MaxWrites \in Nat
    BY ContainersAssumption
  <2> QED
    BY <1>1, <2>1, <2>2 DEF Init, DataType, Kinds, Scenario
<1>5. TypeOK
  BY <1>2, <1>3, <1>4, TypeParts, ScenarioType DEF ControlInv
<1>6. CopiesInv /\ RedisReplicasAgree
  <2>1. CopiesInv
    BY DEF Init, CopiesInv
  <2>2. "rep-redis" \in Buckets /\ scenario.at["rep-redis"] \in {{}, Servers}
    BY <1>1, ContainersAssumption DEF Scenario
  <2> QED
    BY <2>1, <2>2 DEF Init, RedisReplicasAgree
<1>7. AppendsInv
  BY DEF Init, AppendsInv
<1>8. PreparedInv
  <2>1. ASSUME Prepared
        PROVE  /\ \A s \in Servers, b \in Buckets : files[s][b] # NoFile
               /\ plugin = [s \in Servers |-> [b \in Buckets |-> "loaded"]]
    <3>1. <<>> # NoFile
      <4>1. <<>> \in Seq(Chunk)
        OBVIOUS
      <4> QED
        BY <4>1, NothingAssumption
    <3>2. \A s \in Servers, b \in Buckets : s \in scenario.at[b] /\ scenario.loaded
      BY <2>1 DEF Prepared
    <3> QED
      BY <3>1, <3>2 DEF Init
  <2> QED
    BY <2>1 DEF Init, PreparedInv, Prepared
<1>9. OrderInv
  <2>1. \A c \in Clients, s \in Servers : File(c, s) \in {<<>>, NoFile}
    BY <1>2, ScenarioType DEF Init, File
  <2>5. \A c \in Clients : got[c] = <<>>
    BY DEF Init
  <2>2. \A c \in Clients : Own(<<>>, c) = {} /\ InOrder(<<>>, c)
    BY DEF Own, InOrder
  <2>3. ASSUME NEW c \in Clients, NEW s \in Servers
        PROVE  CopyInOrder(c, s)
    BY <2>1, <2>2 DEF CopyInOrder
  <2>4. \A c \in Clients : InOrder(got[c], c)
    BY <2>2, <2>5
  <2> QED
    BY <2>3, <2>4, OrderParts
<1> QED
  BY <1>2, <1>3, <1>5, <1>6, <1>7, <1>8, <1>9 DEF IInv, ControlInv

LEMMA NextKeepsInvariant ==
  ASSUME IInv, [Next]_vars
  PROVE  IInv'
<1>1. ControlInv /\ DataType
  BY TypeParts, ScenarioType DEF IInv, ControlInv
<1>2. ScenarioInv' /\ ControlInv' /\ DataType'
  BY <1>1, NextKeepsScenario, NextKeepsControl, NextKeepsData DEF IInv
<1>3. TypeOK'
  <2>1. \A h \in Handlers : load_lock'[h[2]] = h <=> place'[h] \in Owning
    <3>1. ASSUME NEW h \in Handlers
          PROVE  \E d \in Clients, t \in Servers : h = <<d, t>> /\ h[2] = t
      BY DEF Handlers
    <3> QED
      <4>1. \A d \in Clients, t \in Servers :
              load_lock'[t] = <<d, t>> <=> place'[<<d, t>>] \in Owning
        BY <1>2 DEF ControlInv, ControlType
      <4> QED
        BY <3>1, <4>1
  <2> QED
    BY <1>2, <2>1 DEF ControlInv, ControlType, DataType, TypeOK, Places, Owning
<1> QED
  BY <1>1, <1>2, <1>3, NextKeepsCopies, NextKeepsOrder, NextKeepsAppends, NextKeepsPrepared
     DEF IInv, ControlInv

(* The inductive invariant: what each request owns, which copies have what *)
(* during an update and in which order, and what a scenario keeps.         *)
THEOREM Invariance == Spec => []IInv
BY InitKeepsInvariant, NextKeepsInvariant, PTL DEF Spec

(* The variables have their types.                                         *)
THEOREM TypeCorrectness == Spec => []TypeOK
BY Invariance, PTL DEF IInv

(* The second lookup, with the lock, is enough: whoever finds nothing and  *)
(* whenever, and whoever dies, a process creates one instance only.        *)
THEOREM OneInstance == Spec => []LoadedOnce
<1>1. IInv => LoadedOnce
  BY DEF IInv, LoadInv, LoadedOnce
<1> QED
  BY <1>1, Invariance, PTL

(* rep-redis: when its lock is free, an object's copies are the same.      *)
THEOREM ReplicasAgree == Spec => []RedisReplicasAgree
BY Invariance, PTL DEF IInv

(* A client gets its own records in the order of its calls, whoever throws *)
(* or ends in between.  Where endpoints name their hosts and nobody uses   *)
(* Put, it gets all that it has appended, whatever hosts redis names for   *)
(* the object and in which order.                                          *)
THEOREM AppendsAreRead == Spec => []ReadYourAppends
<1>1. IInv => ReadYourAppends
  BY DEF IInv, OrderInv, AppendsInv, ReadYourAppends, Has
<1> QED
  BY <1>1, Invariance, PTL

(* No step of any client ends a server of a prepared cluster while every   *)
(* server has a descriptor left.                                           *)
THEOREM PreparedRun == Spec => []PreparedServersRun
<1>1. IInv => PreparedServersRun
  BY DEF IInv, PreparedInv, PreparedServersRun
<1> QED
  BY <1>1, Invariance, PTL
-----------------------------------------------------------------------------
(* Locks and what they protect. *)
Locks == INSTANCE GlobalLock WITH Threads <- Clients, Paths <- Buckets, None <- Nobody

LEMMA StepsUseLocks ==
  ASSUME ControlInv, NEW c \in Clients, Continue(c)
  PROVE  \/ UNCHANGED holder
         \/ Locks!Grant(c, bucket[c])
         \/ Locks!Free(c, bucket[c]) /\ Home[c] \notin dead
<1>1. ASSUME pc[c] \in {"body", "join"}, ReleaseLock(c)
      PROVE  Locks!Free(c, bucket[c]) /\ Home[c] \notin dead
  <2>1. holder[bucket[c]] = c /\ place[<<c, Home[c]>>] = "in"
    BY <1>1, RequestParts DEF ControlInv, Locked
  <2>2. Stopped(c, Home[c])
    BY HomeType, LoadParts DEF ControlInv, ControlType
  <2> QED
    BY <1>1, <2>1, <2>2 DEF ReleaseLock, Locks!Free, Stopped
<1>2. CASE RequestStep(c)
  <2>1. CASE AcquireLock(c)
    BY <2>1 DEF AcquireLock, Locks!Grant
  <2>2. CASE JoinThreads(c)
    BY <1>1, <2>2 DEF JoinThreads, Return
  <2>3. CASE ContainerThrows(c) \/ AcquireThrows(c) \/ ThreadThrows(c)
    BY <2>3 DEF ContainerThrows, AcquireThrows, ThreadThrows, Die
  <2> QED
    BY <1>2, <2>1, <2>2, <2>3 DEF RequestStep
<1>3. CASE RedisStep(c)
  <2>1. CASE RedisGet(c) \/ RedisThrows(c)
    BY <1>1, <2>1 DEF RedisGet, RedisThrows, RedisAnswers, InBody, Return, Throw, Die
  <2>2. CASE ~RedisGet(c) /\ ~RedisThrows(c)
    BY <1>3, <2>2 DEF RedisStep, RedisFails, RedisPut, RedisAppend, RedisS2SPut, RedisS2SAppend,
       RedisS2SThrows, Die, StartThreads, PeerEnds
  <2> QED
    BY <2>1, <2>2
<1>4. CASE PartialStep(c)
  <2>1. CASE PartialGetLocal(c) \/ PartialAppendLocal(c) \/ PartialPutLocal(c)
    BY <1>1, <2>1 DEF PartialGetLocal, PartialAppendLocal, PartialPutLocal, Finds, Stores, InBody,
       Return
  <2>2. CASE PartialThrows(c) \/ PartialOpensNothing(c)
    BY <1>1, <2>2 DEF PartialThrows, PartialOpensNothing, NoKey, Looks, Finds, Stores, InBody,
       Throw, Die
  <2>3. CASE PartialFails(c) \/ PartialGet(c) \/ PartialAppend(c) \/ PartialPut(c)
    BY <2>3 DEF PartialFails, PartialGet, PartialAppend, PartialPut, Die, StartThreads
  <2>4. ASSUME NEW s \in Servers,
               \/ PartialS2SPut(c, s) \/ PartialS2SPutFails(c, s)
               \/ PartialS2SAppend(c, s) \/ PartialS2SGet(c, s) \/ PartialS2SThrows(c, s)
        PROVE  UNCHANGED holder
    BY <2>4 DEF PartialS2SPut, PartialS2SPutFails, PartialS2SAppend, PartialS2SGet,
       PartialS2SThrows, Die, PeerEnds
  <2> QED
    BY <1>4, <2>1, <2>2, <2>3, <2>4 DEF PartialStep
<1> QED
  BY <1>2, <1>3, <1>4 DEF Continue

LEMMA OtherStepsKeepLocks ==
  ASSUME TypeOK, ScenarioInv, [Next]_vars, \A c \in Clients : ~Continue(c)
  PROVE  UNCHANGED <<holder, files>>
<1>1. ASSUME NEW c \in Clients, CallOne(c)
      PROVE  UNCHANGED <<holder, files>>
  BY <1>1 DEF CallOne, Call
<1>2. ASSUME NEW h \in Handlers, Lookup(h)
      PROVE  UNCHANGED <<holder, files>>
  BY <1>2, LookupKeepsRest DEF Lookup, NullReference, Die, callVars
<1> QED
  BY <1>1, <1>2 DEF Next, vars, requestVars, callVars

(* GlobalLock around the functions of rep-redis and rep-partial keeps its  *)
(* promise when handlers throw and when processes end: a path is free      *)
(* before it is granted, and only its owner frees it.                      *)
THEOREM LocksImplementGlobalLock == Spec => Locks!Spec
<1>1. Init => Locks!Init
  BY DEF Init, Locks!Init
<1>2. ASSUME IInv, [Next]_vars
      PROVE  [Locks!Next]_holder
  <2>1. ControlInv /\ bucket \in [Clients -> Buckets]
    BY <1>2, TypeParts, ScenarioType DEF IInv, ControlInv
  <2>2. ASSUME NEW c \in Clients, Continue(c)
        PROVE  [Locks!Next]_holder
    BY <2>1, <2>2, StepsUseLocks DEF Locks!Next
  <2> QED
    BY <1>2, <2>2, OtherStepsKeepLocks DEF IInv
<1> QED
  BY <1>1, <1>2, Invariance, PTL DEF Spec, Locks!Spec

(* A step writes one file at most, the copy of the object that the writer  *)
(* has locked: its record alone, or what was there and its record.         *)
OwnerWrites(c, s, b) ==
  /\ holder[b] = c /\ bucket[c] = b
  /\ \/ kind[c] = "Put" /\ files'[s][b] = Content(c)
     \/ kind[c] = "Append" /\ files'[s][b] = AppendTo(files[s][b], Content(c))
  /\ \A t \in Servers, a \in Buckets :
       t # s \/ a # b => files'[t][a] = files[t][a]

FilesOfOwners ==
  \A s \in Servers, b \in Buckets :
    files'[s][b] # files[s][b] => \E c \in Clients : OwnerWrites(c, s, b)

(* The bodies of the functions, at the home server and at the peers, write *)
(* under the lock, also those of handlers that a dead server has called;   *)
(* so the copies that an owner reads are written by nobody else.           *)
THEOREM WritesUnderLock == Spec => [][FilesOfOwners]_vars
<1>1. ASSUME IInv, [Next]_vars
      PROVE  [FilesOfOwners]_vars
  <2>1. TypeOK /\ ScenarioInv /\ ControlInv /\ bucket \in [Clients -> Buckets]
    BY <1>1, TypeParts, ScenarioType DEF IInv, ControlInv
  <2>2. ASSUME NEW c \in Clients, Continue(c)
        PROVE  FilesOfOwners
    <3>1. PICK s \in Servers : Writes(c, s)
      BY <2>1, <2>2, DataSteps
    <3>2. CASE UNCHANGED files
      BY <3>2 DEF FilesOfOwners
    <3>3. CASE files' # files
      <4>1. PICK content :
              /\ SetFile(c, s, content)
              /\ \/ kind[c] = "Put" /\ content = Content(c)
                 \/ kind[c] = "Append" /\ content = AppendTo(File(c, s), Content(c))
        BY <3>1, <3>3 DEF Writes
      <4>2. \A t \in Servers, a \in Buckets :
              files'[t][a] = IF t = s /\ a = bucket[c] THEN content ELSE files[t][a]
        BY <2>1, <4>1 DEF SetFile, TypeOK
      <4>3. holder[bucket[c]] = c
        BY <2>1, <2>2, <3>3, WriterOwns
      <4>4. OwnerWrites(c, s, bucket[c])
        BY <2>1, <4>1, <4>2, <4>3 DEF OwnerWrites, File
      <4> QED
        BY <4>2, <4>4 DEF FilesOfOwners
    <3> QED
      BY <3>2, <3>3
  <2>3. CASE \A c \in Clients : ~Continue(c)
    BY <1>1, <2>1, <2>3, OtherStepsKeepLocks DEF FilesOfOwners
  <2> QED
    BY <2>2, <2>3
<1> QED
  BY <1>1, Invariance, PTL DEF Spec

LEMMA NextDeadStay ==
  ASSUME [Next]_vars
  PROVE  dead \subseteq dead'
<1>1. ASSUME NEW c \in Clients, CallOne(c)
      PROVE  dead \subseteq dead'
  BY <1>1 DEF CallOne, Call
<1>2. ASSUME NEW h \in Handlers, Lookup(h)
      PROVE  dead \subseteq dead'
  BY <1>2 DEF Lookup, NullReference, Die, GetContainer, Find, FindNothing, Lock, FindAgain,
     Load, LoadThrows, InsertEntry, AssignEntry
<1> QED
  BY <1>1, <1>2, ProcessesStayDead DEF Next, vars, requestVars, mgrVars

Orphaned(b, c) == holder[b] = c /\ Home[c] \in dead

(* GlobalLock's destructor runs in the process that has ended, and nobody  *)
(* else releases: the lock of an object whose owner's server ends during   *)
(* the request stays taken for good (what LockReleased excepts).           *)
THEOREM OrphansKeepLocks ==
  Spec => \A b \in Buckets, c \in Clients : [](Orphaned(b, c) => []Orphaned(b, c))
<1> SUFFICES ASSUME NEW b \in Buckets, NEW c \in Clients
             PROVE  Spec => [](Orphaned(b, c) => []Orphaned(b, c))
  OBVIOUS
<1>1. ASSUME IInv, [Next]_vars, Orphaned(b, c)
      PROVE  Orphaned(b, c)'
  <2>1. ControlInv /\ bucket \in [Clients -> Buckets] /\ holder \in [Buckets -> Clients \cup {Nobody}]
    BY <1>1, TypeParts, ScenarioType DEF IInv, ControlInv, ControlType
  <2>2. dead \subseteq dead'
    BY <1>1, NextDeadStay
  <2>3. ASSUME NEW d \in Clients, Continue(d)
        PROVE  holder'[b] = c
    <3>1. \/ holder' = holder
          \/ holder[bucket[d]] = Nobody /\ holder' = [holder EXCEPT ![bucket[d]] = d]
          \/ holder[bucket[d]] = d /\ holder' = [holder EXCEPT ![bucket[d]] = Nobody]
             /\ Home[d] \notin dead
      BY <2>1, <2>3, StepsUseLocks DEF Locks!Grant, Locks!Free
    <3>2. c # Nobody
      BY NothingAssumption
    <3> QED
      BY <1>1, <2>1, <3>1, <3>2 DEF Orphaned
  <2>4. CASE \A d \in Clients : ~Continue(d)
    BY <1>1, <2>2, <2>4, OtherStepsKeepLocks DEF IInv, Orphaned
  <2> QED
    BY <1>1, <2>2, <2>3, <2>4 DEF Orphaned
<1> QED
  BY <1>1, Invariance, PTL DEF Spec
-----------------------------------------------------------------------------
(* rep-redis as one store: what a step does to the clients that use it.    *)
SameCall(d) == kind'[d] = kind[d] /\ seqno'[d] = seqno[d]

Stays(d) ==
  Uses(d) => pc'[d] \in {pc[d], "exited"} /\ got'[d] = got[d] /\ SameCall(d)

OthersStay(c) == \A d \in Clients \ {c} : Stays(d)

Calls(c) ==
  /\ pc[c] = "idle" /\ pc'[c] = "container" /\ got'[c] = got[c]
  /\ kind'[c] \in Kinds /\ seqno'[c] \in 0 .. MaxWrites
  /\ TrueCopy' = TrueCopy

Acquires(c) ==
  /\ pc[c] = "container" /\ pc'[c] = "body" /\ got'[c] = got[c] /\ SameCall(c)
  /\ TrueCopy' = TrueCopy /\ TrueCopy = File(c, Home[c])

Returns(c) ==
  /\ pc[c] \in {"body", "join"} /\ pc'[c] \in {"idle", "exited"} /\ SameCall(c)
  /\ IF pc[c] = "body" THEN kind[c] = "Get" /\ got'[c] = TrueCopy
                       ELSE kind[c] # "Get" /\ got'[c] = got[c]
  /\ TrueCopy' = TrueCopy

Updates(c) ==
  /\ pc[c] = "body" /\ pc'[c] = "join" /\ got'[c] = got[c] /\ SameCall(c)
  /\ \A d \in Clients \ {c} : Uses(d) => pc[d] # "body"
  /\ \/ kind[c] = "Put" /\ TrueCopy' = Content(c)
     \/ kind[c] = "Append" /\ TrueCopy' = AppendTo(TrueCopy, Content(c))

StoreStep ==
  \/ TrueCopy' = TrueCopy /\ \A d \in Clients : Stays(d)
  \/ \E c \in Clients :
       /\ Uses(c) /\ OthersStay(c)
       /\ Calls(c) \/ Acquires(c) \/ Returns(c) \/ Updates(c)

LEMMA ServersHaveCopies ==
  /\ "flecs12" \in Servers /\ "rep-redis" \in Buckets
  /\ \A c \in Clients : c # Nobody /\ Home[c] \in Servers
BY ContainersAssumption, NothingAssumption

(* The owner's copy counts; when nobody is, any copy.                      *)
LEMMA OwnersCopy ==
  ASSUME NEW c \in Clients, Uses(c)
  PROVE  /\ holder["rep-redis"] = c => TrueCopy = File(c, Home[c])
         /\ holder["rep-redis"] = Nobody => TrueCopy = File(c, "flecs12")
BY ServersHaveCopies DEF TrueCopy, Uses, File

LEMMA CopyKept ==
  ASSUME SameColumn, holder'["rep-redis"] = holder["rep-redis"],
         holder["rep-redis"] \in Clients \cup {Nobody}
  PROVE  TrueCopy' = TrueCopy
BY ServersHaveCopies DEF TrueCopy, SameColumn

(* A step that moves no client of rep-redis but to the end.                *)
LEMMA DieStays ==
  ASSUME ControlInv, NEW s \in Servers, Die(s), UNCHANGED <<kind, seqno, got>>
  PROVE  \A d \in Clients : Stays(d)
BY DEF Die, Stays, SameCall

LEMMA OthersStayPut ==
  ASSUME TypeOK, ScenarioInv, ControlInv, NEW c \in Clients, Continue(c)
  PROVE  OthersStay(c)
<1>1. UNCHANGED <<kind, seqno>>
  BY StepKeepsRest DEF Rest
<1>2. \A d \in Clients \ {c} : got'[d] = got[d]
  <2>1. PICK s \in Servers : Answers(c, s)
    BY DataSteps
  <2> QED
    BY <2>1 DEF Answers, TypeOK
<1>3. Others(c) \/ \E s \in Servers : Die(s)
  BY StepFrames
<1> QED
  BY <1>1, <1>2, <1>3 DEF OthersStay, Stays, SameCall, Others, Die

(* A client of rep-partial.                                                *)
LEMMA PartialStoreStep ==
  ASSUME TypeOK, ScenarioInv, ControlInv, NEW c \in Clients, ~Uses(c), Continue(c)
  PROVE  StoreStep
<1>1. SameColumn
  BY ColumnKept DEF Uses
<1>2. holder'["rep-redis"] = holder["rep-redis"]
  <2>1. \/ holder' = holder
        \/ \E owner : holder' = [holder EXCEPT ![bucket[c]] = owner]
    BY StepsUseLocks DEF Locks!Grant, Locks!Free
  <2>2. holder \in [Buckets -> Clients \cup {Nobody}] /\ bucket[c] # "rep-redis"
    BY DEF Uses, TypeOK
  <2> QED
    BY <2>1, <2>2, ServersHaveCopies
<1>3. TrueCopy' = TrueCopy
  BY <1>1, <1>2, CopyKept, ServersHaveCopies DEF TypeOK
<1> QED
  BY <1>3, OthersStayPut DEF StoreStep, OthersStay, Stays

(* The lock is acquired, or the threads are joined.                        *)
LEMMA RequestStoreStep ==
  ASSUME IInv, ControlInv, NEW c \in Clients, Uses(c), Continue(c), RequestStep(c)
  PROVE  StoreStep
<1>t. TypeOK /\ ScenarioInv /\ CopyOk(c) /\ UNCHANGED <<kind, seqno>>
  BY CopyParts, StepKeepsRest DEF IInv, Rest
<1>f. /\ SameColumn /\ UNCHANGED got /\ files' = files
      /\ pc \in [Clients -> {"idle", "container", "body", "join", "exited"}]
      /\ holder \in [Buckets -> Clients \cup {Nobody}]
      /\ bucket[c] = "rep-redis"
  BY <1>t DEF RequestStep, ContainerThrows, AcquireLock, AcquireThrows, ThreadThrows, JoinThreads,
     SameColumn, TypeOK, Uses
<1>o. OthersStay(c)
  BY <1>t, OthersStayPut
<1>1. CASE ContainerThrows(c) \/ AcquireThrows(c)
  <2>1. TrueCopy' = TrueCopy
    BY <1>1, <1>f, CopyKept, ServersHaveCopies DEF ContainerThrows, AcquireThrows
  <2>2. Stays(c)
    BY <1>1, <1>t, <1>f DEF ContainerThrows, AcquireThrows, Stays, SameCall
  <2> QED
    BY <1>o, <2>1, <2>2 DEF StoreStep, OthersStay
<1>2. CASE ThreadThrows(c)
  <2>1. TrueCopy' = TrueCopy
    BY <1>2, <1>f, CopyKept, ServersHaveCopies DEF ThreadThrows, Die
  <2>2. \A d \in Clients : Stays(d)
    BY <1>2, <1>f, <1>t, DieStays, HomeType DEF ThreadThrows
  <2> QED
    BY <2>1, <2>2 DEF StoreStep
<1>3. CASE AcquireLock(c)
  <2>1. /\ pc[c] = "container" /\ pc'[c] = "body" /\ holder["rep-redis"] = Nobody
        /\ holder'["rep-redis"] = c /\ LockServer["rep-redis"] \notin dead
    BY <1>3, <1>f, ServersHaveCopies DEF AcquireLock, LockLost
  <2>2. \A s, t \in Servers : files[s]["rep-redis"] = files[t]["rep-redis"]
    BY <2>1 DEF IInv, RedisReplicasAgree
  <2>3. TrueCopy' = TrueCopy /\ TrueCopy = File(c, Home[c])
    BY <1>f, <2>1, <2>2, ServersHaveCopies DEF TrueCopy, File
  <2>4. Acquires(c)
    BY <1>t, <1>f, <2>1, <2>3 DEF Acquires, SameCall
  <2> QED
    BY <1>o, <2>4 DEF StoreStep
<1>4. CASE JoinThreads(c)
  <2>1. /\ pc[c] = "join" /\ pc'[c] \in {"idle", "exited"} /\ holder'["rep-redis"] = Nobody
    BY <1>4, <1>f, ServersHaveCopies DEF JoinThreads, Return, ReleaseLock
  <2>2. kind[c] # "Get" /\ \A s \in Servers : File(c, Home[c]) = File(c, s)
    BY <1>4, <1>t, <1>f, <2>1 DEF JoinThreads, CopyOk, Peers
  <2>3. holder["rep-redis"] = c
    BY <1>f, <2>1, RequestParts DEF ControlInv, Locked
  <2>4. TrueCopy' = TrueCopy
    BY <1>f, <2>1, <2>2, <2>3, ServersHaveCopies DEF TrueCopy, File
  <2>5. Returns(c)
    BY <1>t, <1>f, <2>1, <2>2, <2>4 DEF Returns, SameCall
  <2> QED
    BY <1>o, <2>5 DEF StoreStep
<1> QED
  BY <1>1, <1>2, <1>3, <1>4 DEF RequestStep

(* The function of rep-redis has read or written at its home server.       *)
LEMMA BodyStoreStep ==
  ASSUME IInv, ControlInv, NEW c \in Clients, Continue(c), Uses(c),
         RedisGet(c) \/ RedisThrows(c) \/ RedisPut(c) \/ RedisAppend(c)
  PROVE  StoreStep
<1>t. TypeOK /\ ScenarioInv /\ CopyOk(c) /\ UNCHANGED <<kind, seqno>>
  BY CopyParts, StepKeepsRest DEF IInv, Rest
<1>o. OthersStay(c)
  BY <1>t, OthersStayPut
<1>f. /\ pc \in [Clients -> {"idle", "container", "body", "join", "exited"}]
      /\ holder \in [Buckets -> Clients \cup {Nobody}]
      /\ got \in [Clients -> Seq(Chunk)]
      /\ bucket[c] = "rep-redis" /\ pc[c] = "body"
  BY <1>t DEF TypeOK, Uses, RedisGet, RedisThrows, RedisPut, RedisAppend, RedisAnswers, InBody
<1>h. holder["rep-redis"] = c
  BY <1>f, RequestParts DEF ControlInv, Locked
<1>s. \A s \in Servers : File(c, s) = File(c, Home[c])
  BY <1>t, <1>f DEF CopyOk
<1>c. TrueCopy = File(c, Home[c])
  BY <1>h, OwnersCopy
<1>1. CASE RedisGet(c)
  <2>1. /\ kind[c] = "Get" /\ got'[c] = File(c, Home[c])
        /\ files' = files /\ holder'["rep-redis"] = Nobody /\ pc'[c] \in {"idle", "exited"}
    BY <1>1, <1>f, ServersHaveCopies DEF RedisGet, RedisAnswers, InBody, Return, ReleaseLock
  <2>2. TrueCopy' = TrueCopy
    BY <1>f, <1>h, <1>s, <2>1, ServersHaveCopies DEF TrueCopy, File
  <2>3. Returns(c)
    BY <1>t, <1>f, <1>c, <2>1, <2>2 DEF Returns, SameCall
  <2> QED
    BY <1>o, <2>3 DEF StoreStep
<1>2. CASE RedisThrows(c)
  <2>1. pc'[c] = "exited" /\ UNCHANGED <<files, got>>
    BY <1>2, <1>f DEF RedisThrows, Throw, Die
  <2>2. holder'["rep-redis"] \in {Nobody, c}
    BY <1>2, <1>f, <1>h, ServersHaveCopies DEF RedisThrows, Throw, Die, ReleaseLock
  <2>3. TrueCopy' = TrueCopy
    BY <1>f, <1>h, <1>s, <2>1, <2>2, ServersHaveCopies DEF TrueCopy, File
  <2>4. Stays(c)
    BY <1>t, <2>1 DEF Stays, SameCall
  <2> QED
    BY <1>o, <2>3, <2>4 DEF StoreStep, OthersStay
<1>3. CASE RedisPut(c) \/ RedisAppend(c)
  <2>1. /\ pc'[c] = "join" /\ got' = got /\ holder'["rep-redis"] = c
    BY <1>3, <1>f, <1>h DEF RedisPut, RedisAppend, StartThreads
  <2>2. ASSUME NEW content \in Seq(Chunk), SetFile(c, Home[c], content)
        PROVE  TrueCopy' = content
    <3>1. files'[Home[c]]["rep-redis"] = content
      BY <1>t, <1>f, <2>2, SetFileType, ServersHaveCopies
    <3> QED
      BY <2>1, <3>1, ServersHaveCopies DEF TrueCopy
  <2>3. /\ kind[c] \in {"Put", "Append"}
        /\ kind[c] = "Put" => SetFile(c, Home[c], Replaced(c, Home[c]))
        /\ kind[c] = "Append" => SetFile(c, Home[c], AppendTo(File(c, Home[c]), Content(c)))
    BY <1>3 DEF RedisPut, RedisAppend, RedisAnswers, InBody
  <2>4. /\ Content(c) \in Seq(Chunk) /\ Replaced(c, Home[c]) = Content(c)
        /\ AppendTo(File(c, Home[c]), Content(c)) \in Seq(Chunk)
    BY <1>t, <2>3, ServersHaveCopies, ContentType, ReplacedType, FileType
  <2>5. \/ kind[c] = "Put" /\ TrueCopy' = Content(c)
        \/ kind[c] = "Append" /\ TrueCopy' = AppendTo(TrueCopy, Content(c))
    <3>1. CASE kind[c] = "Put"
      BY <2>2, <2>3, <2>4, <3>1
    <3>2. CASE kind[c] = "Append"
      BY <1>c, <2>2, <2>3, <2>4, <3>2
    <3> QED
      BY <2>3, <3>1, <3>2
  <2>6. \A d \in Clients \ {c} : Uses(d) => pc[d] # "body"
    BY <1>h, RequestParts DEF ControlInv, Locked, Uses
  <2>7. Updates(c)
    BY <1>t, <1>f, <2>1, <2>5, <2>6 DEF Updates, SameCall
  <2> QED
    BY <1>o, <2>7, <1>f DEF StoreStep
<1> QED
  BY <1>1, <1>2, <1>3

(* It fails at redis, or a peer writes its copy or throws: the copy that   *)
(* counts is the home server's.                                            *)
LEMMA PeerStoreStep ==
  ASSUME IInv, ControlInv, NEW c \in Clients, Continue(c), Uses(c),
         \/ RedisFails(c)
         \/ \E s \in Servers : RedisS2SPut(c, s) \/ RedisS2SAppend(c, s) \/ RedisS2SThrows(c, s)
  PROVE  StoreStep
<1>t. TypeOK /\ ScenarioInv /\ UNCHANGED <<kind, seqno>>
  BY StepKeepsRest DEF IInv, Rest
<1>o. OthersStay(c)
  BY <1>t, OthersStayPut
<1>1. CASE RedisFails(c)
  <2>1. TrueCopy' = TrueCopy
    BY <1>1 DEF RedisFails, Die, TrueCopy
  <2>2. \A d \in Clients : Stays(d)
    BY <1>1, <1>t, DieStays, HomeType DEF RedisFails
  <2> QED
    BY <2>1, <2>2 DEF StoreStep
<1>2. ASSUME NEW s \in Servers,
             RedisS2SPut(c, s) \/ RedisS2SAppend(c, s) \/ RedisS2SThrows(c, s)
      PROVE  StoreStep
  <2>1. /\ place[<<c, s>>] = "in" /\ s # Home[c] /\ kind[c] # "Get"
        /\ pc' = pc /\ got' = got /\ holder' = holder
    BY <1>2 DEF RedisS2SPut, RedisS2SAppend, RedisS2SThrows, AtPeer, PeerEnds
  <2>2. holder["rep-redis"] = c
    BY <2>1, RequestParts DEF ControlInv, PeerLocked, Uses
  <2>3. UNCHANGED files \/ \E content : SetFile(c, s, content)
    BY <1>2 DEF RedisS2SPut, RedisS2SAppend, RedisS2SThrows
  <2>4. files'[Home[c]]["rep-redis"] = files[Home[c]]["rep-redis"]
    BY <1>t, <2>1, <2>3, ServersHaveCopies DEF SetFile, TypeOK
  <2>5. TrueCopy' = TrueCopy
    BY <2>1, <2>2, <2>4, ServersHaveCopies DEF TrueCopy
  <2>6. Stays(c)
    BY <1>t, <2>1 DEF Stays, SameCall
  <2> QED
    BY <1>o, <2>5, <2>6 DEF StoreStep, OthersStay
<1> QED
  BY <1>1, <1>2

LEMMA StoreSteps ==
  ASSUME IInv, [Next]_vars
  PROVE  StoreStep
<1>t. TypeOK /\ ScenarioInv /\ ControlInv
  BY TypeParts, ScenarioType DEF IInv, ControlInv
<1>1. ASSUME NEW c \in Clients, Continue(c)
      PROVE  StoreStep
  <2>1. CASE ~Uses(c)
    BY <1>t, <1>1, <2>1, PartialStoreStep
  <2>2. CASE Uses(c)
    <3>1. ~PartialStep(c)
      BY <2>2, PartialBucket DEF Uses
    <3> QED
      BY <1>t, <1>1, <2>2, <3>1, RequestStoreStep, BodyStoreStep, PeerStoreStep
         DEF Continue, RedisStep
  <2> QED
    BY <2>1, <2>2
<1>2. ASSUME NEW c \in Clients, CallOne(c)
      PROVE  StoreStep
  <2>1. PICK k \in scenario.kinds[c] : Call(c, scenario.use[c], k)
                                       /\ (k = "Get" \/ seqno[c] < scenario.writes)
    BY <1>2 DEF CallOne
  <2>2. TrueCopy' = TrueCopy
    BY <2>1 DEF Call, TrueCopy
  <2>3. OthersStay(c)
    BY <1>t, <2>1 DEF Call, TypeOK, OthersStay, Stays, SameCall
  <2>4. Calls(c)
    <3>1. k \in Kinds /\ seqno[c] \in 0 .. MaxWrites /\ MaxWrites \in Nat
          /\ scenario.writes \in 0 .. MaxWrites
      BY <1>t, <2>1, ScenarioType, ContainersAssumption DEF TypeOK
    <3> QED
      BY <1>t, <2>1, <2>2, <3>1 DEF Call, Calls, TypeOK
  <2> QED
    BY <2>2, <2>3, <2>4 DEF StoreStep, OthersStay, Stays
<1>3. ASSUME NEW h \in Handlers, Lookup(h)
      PROVE  StoreStep
  <2>1. UNCHANGED <<kind, seqno, got, files>>
    BY <1>3, LookupKeepsRest DEF Rest
  <2>2. UNCHANGED holder /\ \A d \in Clients : pc'[d] \in {pc[d], "exited"}
    BY <1>3 DEF Lookup, NullReference, Die, callVars
  <2> QED
    BY <2>1, <2>2 DEF StoreStep, TrueCopy, Stays, SameCall
<1>4. CASE UNCHANGED vars
  BY <1>4 DEF vars, requestVars, callVars, StoreStep, TrueCopy, Stays, SameCall
<1> QED
  BY <1>1, <1>2, <1>3, <1>4 DEF Next

(* What the history variables say of the state.                            *)
PhaseOk(c) ==
  /\ phase[c] \in {"idle", "called", "executed"}
  /\ ~Uses(c) \/ pc[c] = "idle" => phase[c] = "idle"
  /\ Uses(c) /\ pc[c] \in {"container", "body"} =>
       phase[c] = IF pc[c] = "body" /\ kind[c] = "Get" THEN "executed" ELSE "called"
  /\ Uses(c) /\ pc[c] = "join" => phase[c] = "executed"

ReadOk(c) ==
  Uses(c) /\ kind[c] = "Get" =>
    /\ pc[c] = "body" => read[c] = TrueCopy
    /\ pc[c] = "join" => FALSE
    /\ pc[c] = "idle" /\ read[c] # NoFile => got[c] = read[c]

HistoryOk ==
  /\ phase \in [Clients -> {"idle", "called", "executed"}]
  /\ DOMAIN read = Clients
  /\ \A c \in Clients : PhaseOk(c) /\ ReadOk(c)

LEMMA BucketsKept ==
  ASSUME ScenarioInv, ScenarioInv', [Next]_vars
  PROVE  bucket' = bucket
<1>1. ASSUME NEW c \in Clients, CallOne(c) \/ Continue(c)
      PROVE  scenario' = scenario
  BY <1>1 DEF CallOne, Continue
<1>2. ASSUME NEW h \in Handlers, Lookup(h)
      PROVE  scenario' = scenario
  BY <1>2 DEF Lookup
<1>3. scenario' = scenario
  BY <1>1, <1>2 DEF Next, vars
<1> QED
  BY <1>3 DEF ScenarioInv

LEMMA Phases ==
  ASSUME NEW c \in Clients, History, TypeOK'
  PROVE  /\ read'[c] = IF Reads(c) THEN File(c, Home[c]) ELSE read[c]
         /\ ~Uses(c) \/ pc'[c] = "idle" => phase'[c] = "idle"
         /\ Uses(c) /\ pc'[c] = "container" => phase'[c] = "called"
         /\ Uses(c) /\ pc'[c] = "body" =>
              phase'[c] = IF kind[c] = "Get" THEN "executed" ELSE "called"
         /\ Uses(c) /\ pc'[c] = "join" => phase'[c] = "executed"
         /\ Uses(c) /\ pc'[c] = "exited" => phase'[c] = phase[c]
<1>1. phase'[c] = NextPhase(c) /\ read'[c] = IF Reads(c) THEN File(c, Home[c]) ELSE read[c]
  BY DEF History
<1>2. CASE ~Uses(c) \/ pc'[c] = "idle"
  BY <1>1, <1>2 DEF NextPhase
<1>3. CASE Uses(c) /\ pc'[c] = "container"
  BY <1>1, <1>3 DEF NextPhase
<1>4. CASE Uses(c) /\ pc'[c] = "body"
  BY <1>1, <1>4 DEF NextPhase
<1>5. CASE Uses(c) /\ pc'[c] = "join"
  BY <1>1, <1>5 DEF NextPhase
<1>6. CASE Uses(c) /\ pc'[c] = "exited"
  BY <1>1, <1>6 DEF NextPhase
<1> QED
  BY <1>1, <1>2, <1>3, <1>4, <1>5, <1>6 DEF TypeOK

(* A client that does not move.                                            *)
LEMMA StaysHistory ==
  ASSUME TypeOK, TypeOK', History, bucket' = bucket, NEW d \in Clients, Stays(d),
         PhaseOk(d), ReadOk(d), TrueCopy' = TrueCopy \/ (Uses(d) => pc[d] # "body")
  PROVE  /\ phase'[d] = phase[d] /\ read'[d] = read[d] /\ CallOf(d)' = CallOf(d)
         /\ PhaseOk(d)' /\ ReadOk(d)'
<1>u. Uses(d)' = Uses(d)
  BY DEF Uses
<1>1. CASE ~Uses(d)
  <2>1. phase'[d] = "idle" /\ read'[d] = read[d] /\ phase[d] = "idle"
    BY <1>1, Phases DEF Reads, PhaseOk
  <2> QED
    BY <1>u, <1>1, <2>1 DEF CallOf, PhaseOk, ReadOk
<1>2. CASE Uses(d)
  <2>1. /\ pc'[d] \in {pc[d], "exited"} /\ got'[d] = got[d] /\ kind'[d] = kind[d]
        /\ seqno'[d] = seqno[d] /\ pc[d] \in {"idle", "container", "body", "join", "exited"}
    BY <1>2 DEF Stays, SameCall, TypeOK
  <2>2. read'[d] = read[d]
    BY <1>2, <2>1, Phases DEF Reads
  <2>3. phase'[d] = phase[d]
    BY <1>2, <2>1, Phases DEF PhaseOk
  <2>4. CallOf(d)' = CallOf(d)
    BY <1>u, <1>2, <2>1 DEF CallOf, Content
  <2>5. PhaseOk(d)'
    BY <1>u, <1>2, <2>1, <2>3 DEF PhaseOk
  <2>6. ReadOk(d)'
    BY <1>u, <1>2, <2>1, <2>2 DEF ReadOk
  <2> QED
    BY <2>2, <2>3, <2>4, <2>5, <2>6
<1> QED
  BY <1>1, <1>2

(* The client that moves.                                                  *)
LEMMA MoverHistory ==
  ASSUME TypeOK, TypeOK', History, bucket' = bucket, NEW c \in Clients, Uses(c),
         PhaseOk(c), ReadOk(c), Calls(c) \/ Acquires(c) \/ Returns(c) \/ Updates(c)
  PROVE  PhaseOk(c)' /\ ReadOk(c)'
<1>u. Uses(c)' = Uses(c)
  BY DEF Uses
<1>1. CASE Calls(c)
  <2>1. pc'[c] = "container" /\ phase'[c] = "called"
    BY <1>1, Phases DEF Calls
  <2> QED
    BY <1>u, <2>1 DEF PhaseOk, ReadOk
<1>2. CASE Acquires(c)
  <2>1. /\ pc'[c] = "body" /\ phase'[c] = IF kind[c] = "Get" THEN "executed" ELSE "called"
        /\ kind'[c] = kind[c] /\ (kind[c] = "Get" => read'[c] = TrueCopy')
    BY <1>2, Phases DEF Acquires, SameCall, Reads
  <2> QED
    BY <1>u, <2>1 DEF PhaseOk, ReadOk
<1>3. CASE Returns(c)
  <2>1. phase[c] = "executed" /\ read'[c] = read[c] /\ kind'[c] = kind[c]
    BY <1>3, Phases DEF Returns, SameCall, PhaseOk, Reads
  <2>2. /\ pc'[c] = "idle" => phase'[c] = "idle"
        /\ pc'[c] = "exited" => phase'[c] = "executed"
    BY <1>3, <2>1, Phases
  <2>3. PhaseOk(c)'
    BY <1>3, <1>u, <2>1, <2>2 DEF Returns, PhaseOk
  <2>4. kind[c] = "Get" => got'[c] = read'[c]
    BY <1>3, <2>1 DEF Returns, ReadOk
  <2>5. ReadOk(c)'
    BY <1>3, <1>u, <2>1, <2>4 DEF Returns, ReadOk
  <2> QED
    BY <2>3, <2>5
<1>4. CASE Updates(c)
  <2>1. pc'[c] = "join" /\ phase'[c] = "executed" /\ kind'[c] # "Get"
    BY <1>4, Phases DEF Updates, SameCall
  <2> QED
    BY <1>u, <2>1 DEF PhaseOk, ReadOk
<1> QED
  BY <1>1, <1>2, <1>3, <1>4

LEMMA NextKeepsHistory ==
  ASSUME TypeOK, TypeOK', StoreStep, History, bucket' = bucket, HistoryOk
  PROVE  HistoryOk'
<1>1. ASSUME NEW c \in Clients
      PROVE  (PhaseOk(c) /\ ReadOk(c))'
  <2>1. CASE TrueCopy' = TrueCopy /\ \A d \in Clients : Stays(d)
    BY <2>1, StaysHistory DEF HistoryOk
  <2>2. ASSUME NEW d \in Clients, Uses(d), OthersStay(d),
               Calls(d) \/ Acquires(d) \/ Returns(d) \/ Updates(d)
        PROVE  (PhaseOk(c) /\ ReadOk(c))'
    <3>1. CASE c = d
      BY <2>2, <3>1, MoverHistory DEF HistoryOk
    <3>2. CASE c # d
      <4>1. Stays(c) /\ (TrueCopy' = TrueCopy \/ (Uses(c) => pc[c] # "body"))
        BY <2>2, <3>2 DEF OthersStay, Calls, Acquires, Returns, Updates
      <4> QED
        BY <4>1, StaysHistory DEF HistoryOk
    <3> QED
      BY <3>1, <3>2
  <2> QED
    BY <2>1, <2>2 DEF StoreStep
<1>2. \A c \in Clients : phase'[c] \in {"idle", "called", "executed"}
  BY <1>1 DEF PhaseOk
<1>3. phase' \in [Clients -> {"idle", "called", "executed"}] /\ DOMAIN read' = Clients
  <2>1. phase' = [c \in Clients |-> NextPhase(c)] /\ DOMAIN read' = Clients
    BY DEF History
  <2> QED
    BY <1>2, <2>1
<1> QED
  BY <1>1, <1>3 DEF HistoryOk

LEMMA GivenIsRead ==
  ASSUME NEW c \in Clients, ReadOk(c)
  PROVE  Given(c) = read[c]
BY DEF Given, ReadOk

LEMMA NextGivenIsRead ==
  ASSUME NEW c \in Clients, ReadOk(c)'
  PROVE  Given(c)' = read'[c]
BY DEF Given, ReadOk

LEMMA CallType ==
  ASSUME NEW c \in Clients, TypeOK
  PROVE  CallOf(c) \in [kind : Kinds, obj : {"rep-redis"}, content : Contents]
<1>1. seqno[c] \in 0 .. MaxWrites /\ kind[c] \in Kinds
  BY DEF TypeOK
<1>2. Content(c) \in Contents /\ <<>> \in Contents
  BY <1>1 DEF Content, Contents
<1> QED
  BY <1>1, <1>2 DEF CallOf, Kinds

LEMMA NextCallType ==
  ASSUME NEW c \in Clients, TypeOK'
  PROVE  CallOf(c)' \in [kind : Kinds, obj : {"rep-redis"}, content : Contents]
<1>1. seqno'[c] \in 0 .. MaxWrites /\ kind'[c] \in Kinds
  BY DEF TypeOK
<1>2. Content(c)' \in Contents /\ <<>> \in Contents
  BY <1>1 DEF Content, Contents
<1> QED
  BY <1>1, <1>2 DEF CallOf, Kinds

(* The steps of the store: a request, its effect, its answer, or nothing.  *)
LEMMA NextRefinesStore ==
  ASSUME TypeOK, TypeOK', StoreStep, History, bucket' = bucket, HistoryOk, HistoryOk'
  PROVE  Store!Next \/ UNCHANGED Store!storeVars
<1> DEFINE copies == [o \in {"rep-redis"} |-> TrueCopy]
           calls  == [c \in Clients |-> CallOf(c)]
           given  == [c \in Clients |-> Given(c)]
<1>r. \A d \in Clients : PhaseOk(d) /\ ReadOk(d) /\ PhaseOk(d)' /\ ReadOk(d)'
  BY DEF HistoryOk
<1>f. /\ phase \in [Clients -> {"idle", "called", "executed"}]
      /\ phase' \in [Clients -> {"idle", "called", "executed"}]
  BY DEF HistoryOk
<1>g. /\ given = [c \in Clients |-> read[c]]
      /\ given' = [c \in Clients |-> read'[c]]
      /\ calls' = [c \in Clients |-> CallOf(c)']
      /\ copies' = [o \in {"rep-redis"} |-> TrueCopy']
  BY <1>r, GivenIsRead, NextGivenIsRead
<1>1. CASE TrueCopy' = TrueCopy /\ \A d \in Clients : Stays(d)
  <2>1. \A d \in Clients : phase'[d] = phase[d] /\ read'[d] = read[d] /\ CallOf(d)' = CallOf(d)
    BY <1>1, <1>r, StaysHistory
  <2>2. phase' = phase /\ calls' = calls /\ given' = given /\ copies' = copies
    BY <1>1, <1>f, <1>g, <2>1
  <2> QED
    BY <2>2 DEF Store!storeVars
<1>2. ASSUME NEW c \in Clients, Uses(c), OthersStay(c)
      PROVE  Calls(c) \/ Acquires(c) \/ Returns(c) \/ Updates(c)
               => Store!Next \/ UNCHANGED Store!storeVars
  <2>s. ASSUME NEW d \in Clients, d # c,
               TrueCopy' = TrueCopy \/ (Uses(d) => pc[d] # "body")
        PROVE  phase'[d] = phase[d] /\ read'[d] = read[d] /\ CallOf(d)' = CallOf(d)
    BY <1>2, <1>r, <2>s, StaysHistory DEF OthersStay
  <2>c. SameCall(c) => CallOf(c)' = CallOf(c)
    BY DEF SameCall, CallOf, Uses, Content
  <2>k. CallOf(c).kind = kind[c] /\ CallOf(c).obj = "rep-redis" /\ CallOf(c).content = Content(c)
    BY <1>2 DEF CallOf
  <2>1. ASSUME Calls(c)
        PROVE  Store!Request(c)
    <3>1. phase[c] = "idle" /\ phase'[c] = "called" /\ read'[c] = read[c]
      BY <1>2, <1>r, <2>1, Phases DEF Calls, PhaseOk, Reads
    <3>2. phase' = [phase EXCEPT ![c] = "called"] /\ given' = given /\ copies' = copies
      BY <1>f, <1>g, <2>1, <2>s, <3>1 DEF Calls
    <3>3. PICK k \in {"Get", "Put", "Append"}, o \in {"rep-redis"}, d \in Contents :
            CallOf(c)' = [kind |-> k, obj |-> o, content |-> d]
      BY NextCallType DEF Kinds
    <3>4. calls' = [calls EXCEPT ![c] = [kind |-> k, obj |-> o, content |-> d]]
      <4>1. \A e \in Clients : e # c => CallOf(e)' = CallOf(e)
        BY <2>1, <2>s DEF Calls
      <4> QED
        BY <1>g, <3>3, <4>1
    <3> QED
      BY <3>1, <3>2, <3>3, <3>4 DEF Store!Request
  <2>2. ASSUME Acquires(c), kind[c] = "Get"
        PROVE  Store!Execute(c)
    <3>1. phase[c] = "called" /\ phase'[c] = "executed" /\ read'[c] = TrueCopy
      BY <1>2, <1>r, <2>2, Phases DEF Acquires, PhaseOk, Reads
    <3>2. /\ phase' = [phase EXCEPT ![c] = "executed"] /\ copies' = copies /\ calls' = calls
          /\ given' = [given EXCEPT ![c] = copies["rep-redis"]]
      BY <1>f, <1>g, <2>2, <2>c, <2>s, <3>1 DEF Acquires
    <3> QED
      BY <2>2, <2>k, <3>1, <3>2 DEF Store!Execute, Store!DoGet
  <2>3. ASSUME Acquires(c), kind[c] # "Get"
        PROVE  UNCHANGED Store!storeVars
    <3>1. phase'[c] = phase[c] /\ read'[c] = read[c]
      BY <1>2, <1>r, <2>3, Phases DEF Acquires, PhaseOk, Reads
    <3>2. phase' = phase /\ calls' = calls /\ given' = given /\ copies' = copies
      BY <1>f, <1>g, <2>3, <2>c, <2>s, <3>1 DEF Acquires
    <3> QED
      BY <3>2 DEF Store!storeVars
  <2>4. ASSUME Returns(c)
        PROVE  Store!Answer(c) \/ UNCHANGED Store!storeVars
    <3>1. phase[c] = "executed" /\ read'[c] = read[c]
      BY <1>2, <1>r, <2>4, Phases DEF Returns, PhaseOk, Reads
    <3>2. calls' = calls /\ given' = given /\ copies' = copies
      BY <1>g, <2>4, <2>c, <2>s, <3>1 DEF Returns
    <3>3. CASE pc'[c] = "idle"
      <4>1. phase' = [phase EXCEPT ![c] = "idle"]
        BY <1>f, <2>4, <2>s, <3>3, Phases DEF Returns
      <4> QED
        BY <3>1, <3>2, <4>1 DEF Store!Answer
    <3>4. CASE pc'[c] = "exited"
      <4>1. phase' = phase
        BY <1>2, <1>f, <2>4, <2>s, <3>4, Phases DEF Returns
      <4> QED
        BY <3>2, <4>1 DEF Store!storeVars
    <3> QED
      BY <2>4, <3>3, <3>4 DEF Returns
  <2>5. ASSUME Updates(c)
        PROVE  Store!Execute(c)
    <3>1. phase[c] = "called" /\ phase'[c] = "executed" /\ read'[c] = read[c]
      BY <1>2, <1>r, <2>5, Phases DEF Updates, PhaseOk, Reads
    <3>2. /\ phase' = [phase EXCEPT ![c] = "executed"] /\ calls' = calls /\ given' = given
      BY <1>f, <1>g, <2>5, <2>c, <2>s, <3>1 DEF Updates
    <3>3. CASE kind[c] = "Put"
      <4>1. copies' = [copies EXCEPT !["rep-redis"] = Content(c)]
        BY <1>g, <2>5, <3>3 DEF Updates
      <4> QED
        BY <2>k, <3>1, <3>2, <3>3, <4>1 DEF Store!Execute, Store!DoPut
    <3>4. CASE kind[c] = "Append"
      <4>1. copies' = [copies EXCEPT !["rep-redis"] = AppendTo(@, Content(c))]
        BY <1>g, <2>5, <3>4 DEF Updates
      <4> QED
        BY <2>k, <3>1, <3>2, <3>4, <4>1 DEF Store!Execute, Store!DoAppend, Store!AppendTo, AppendTo
    <3> QED
      BY <2>5, <3>3, <3>4 DEF Updates
  <2> QED
    BY <2>1, <2>2, <2>3, <2>4, <2>5 DEF Store!Next
<1> QED
  BY <1>1, <1>2 DEF StoreStep

LEMMA InitRefinesStore ==
  ASSUME HistoryInit
  PROVE  IInv /\ HistoryOk /\ Store!Init
<1>0. Init
  BY DEF HistoryInit
<1>1. IInv
  BY <1>0, InitKeepsInvariant
<1>2. TypeOK /\ \A c \in Clients : pc[c] = "idle" /\ kind[c] = "Get" /\ read[c] = NoFile
  BY <1>0, <1>1 DEF IInv, Init, HistoryInit
<1>3. HistoryOk
  BY <1>2 DEF HistoryInit, HistoryOk, PhaseOk, ReadOk
<1>4. TrueCopy \in Contents \cup {NoFile}
  <2>1. TrueCopy = files["flecs12"]["rep-redis"]
    BY <1>0, ServersHaveCopies DEF Init, TrueCopy
  <2>2. files["flecs12"]["rep-redis"] \in {<<>>, NoFile}
    BY <1>0, ServersHaveCopies DEF Init
  <2> QED
    BY <2>1, <2>2 DEF Contents
<1>5. \A c \in Clients : Given(c) = NoFile
  BY <1>2 DEF Given
<1>6. \A c \in Clients :
        CallOf(c) \in [kind : {"Get", "Put", "Append"}, obj : {"rep-redis"}, content : Contents]
  BY <1>2, CallType DEF Kinds
<1> QED
  BY <1>1, <1>3, <1>4, <1>5, <1>6 DEF HistoryInit, Store!Init

(* rep-redis is a linearizable store for its clients, whatever is missing  *)
(* in redis and whichever servers end: the update of one that has ended    *)
(* half-way is under a lock that nobody gets, and all others were in the   *)
(* copies everywhere before the lock was free.                             *)
THEOREM RedisImplementsObjectStore == HistorySpec => ImplementsObjectStore
<1>1. HistoryInit => IInv /\ HistoryOk /\ Store!Init
  BY InitRefinesStore
<1>2. ASSUME IInv, HistoryOk, [Next /\ History]_historyVars
      PROVE  IInv' /\ HistoryOk' /\ [Store!Next]_(Store!storeVars)
  <2>1. IInv' /\ StoreStep
    <3>1. [Next]_vars
      BY <1>2 DEF historyVars
    <3> QED
      BY <1>2, <3>1, NextKeepsInvariant, StoreSteps
  <2>2. CASE Next /\ History
    <3>1. TypeOK /\ TypeOK' /\ bucket' = bucket
      BY <1>2, <2>1, <2>2, BucketsKept DEF IInv
    <3>2. HistoryOk'
      BY <1>2, <2>1, <2>2, <3>1, NextKeepsHistory
    <3> QED
      BY <1>2, <2>1, <2>2, <3>1, <3>2, NextRefinesStore
  <2>3. CASE UNCHANGED historyVars
    <3>1. UNCHANGED <<bucket, pc, kind, seqno, got, holder, files, phase, read>>
      BY <2>3 DEF historyVars, vars, requestVars, mgrVars, callVars
    <3>2. /\ TrueCopy' = TrueCopy
          /\ \A c \in Clients : Given(c)' = Given(c) /\ CallOf(c)' = CallOf(c)
      BY <3>1 DEF TrueCopy, Given, CallOf, Uses, Content
    <3>3. HistoryOk'
      BY <1>2, <3>1, <3>2 DEF HistoryOk, PhaseOk, ReadOk, Uses
    <3> QED
      BY <2>1, <3>1, <3>2, <3>3 DEF Store!storeVars
  <2> QED
    BY <1>2, <2>2, <2>3
<1> QED
  BY <1>1, <1>2, PTL DEF HistorySpec, ImplementsObjectStore, Store!Spec
=============================================================================
