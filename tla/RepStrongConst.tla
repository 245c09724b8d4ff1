--------------------------- MODULE RepStrongConst ---------------------------
(***************************************************************************)
(* Replication with strong consistency                                     *)
(* (server/container-rep-strong-const.cpp): the same file accesses and     *)
(* threads as RepNoConst, between the constructor and the destructor of a  *)
(* GlobalLock on the object.  The destructor runs when C2S_Get, C2S_Put or *)
(* C2S_Append returns or throws, so before the answer reaches the client.  *)
(***************************************************************************)
EXTENDS RepNoConst

CONSTANT None  (* nobody *)

ASSUME NoneAssumption == None \notin Clients

VARIABLE holder  (* the client whose request owns each object's lock *)

strongVars == <<repVars, holder>>

Lock == INSTANCE GlobalLock WITH Threads <- Clients, Paths <- Objects

InitStrong == Init /\ Lock!Init

Locked(c) == holder[op[c].obj] = c

CallStrong(c) == Call(c) /\ UNCHANGED holder

(* GlobalLock::GlobalLock at the head of the function. *)
AcquireLock(c) ==
  /\ pc[c] = "called"
  /\ Lock!Grant(c, op[c].obj)
  /\ UNCHANGED repVars

(* Variant: C2S_Get takes no lock, as reads need none of one another. *)
ExecuteReadsUnlocked(c) ==
  /\ Locked(c) \/ op[c].kind = "Get"
  /\ Execute(c)
  /\ UNCHANGED holder

(* The function's body, the handlers at the peers included. *)
ExecuteLocked(c) ==
  /\ Locked(c)
  /\ Execute(c)
  /\ UNCHANGED holder

(* Variant: the lock's scope ends before the threads are joined. *)
ReleaseBeforeJoin(c) ==
  /\ pc[c] \in {"sent", "done"}
  /\ Lock!Free(c, op[c].obj)
  /\ UNCHANGED repVars

(* Variant: the lock is not released when _readfile throws. *)
ReleaseUnlessThrown(c) ==
  /\ pc[c] = "done"
  /\ ~(op[c].kind = "Get" /\ got[c] = NoFile)
  /\ Lock!Free(c, op[c].obj)
  /\ UNCHANGED repVars

(* GlobalLock::~GlobalLock at its end. *)
ReleaseLock(c) ==
  /\ pc[c] = "done"
  /\ Lock!Free(c, op[c].obj)
  /\ UNCHANGED repVars

ReplyStrong(c) ==
  /\ ~Locked(c)
  /\ Reply(c)
  /\ UNCHANGED holder

Handler(c) ==
  AcquireLock(c) \/ ExecuteLocked(c) \/ ReleaseLock(c) \/ ReplyStrong(c)

NextStrong == \E c \in Clients : CallStrong(c) \/ Handler(c)

SpecStrong == InitStrong /\ [][NextStrong]_strongVars

(* Once it owns the lock nothing keeps a request from going on; which of   *)
(* the waiting requests gets the lock next is not fair.                    *)
FairSpecStrong == SpecStrong /\ \A c \in Clients : WF_strongVars(Handler(c))
-----------------------------------------------------------------------------
StrongTypeOK == TypeOK /\ holder \in [Objects -> Clients \cup {None}]

(* All replicas of an object whose lock is free are the same, whatever     *)
(* mixture of Puts and Appends from different servers came before.         *)
ReplicasAgree ==
  \A o \in Objects, s, t \in Servers :
    holder[o] = None => files[s][o] = files[t][o]

(* "This function is called with a 'W' lock held" (S2S_Put, S2S_Append):   *)
(* while a peer has a request to execute, the lock is with the writer that *)
(* sent it, and no other request for the object is anywhere.               *)
PeersWriteUnderLock ==
  \A c \in Clients, s \in Servers :
    rpc[c][s] # "none" =>
      /\ Locked(c)
      /\ op[c].kind \in {"Put", "Append"}
      /\ \A d \in Clients \ {c}, t \in Servers :
           op[d].obj = op[c].obj => rpc[d][t] = "none"

(* A request owns the lock of its object, and no other, while it works. *)
LockScope(c) ==
  /\ pc[c] \in {"sized", "truncated", "sent"} => Locked(c)
  /\ \A o \in Objects : holder[o] = c => op[c].obj = o /\ pc[c] # "idle"

(* A write has a thread per peer between its local write and its joins. *)
ThreadsInCall(c) ==
  /\ \A s \in Servers : rpc[c][s] # "none" <=> pc[c] = "sent" /\ s \in Peers(c)
  /\ pc[c] = "sized" => op[c].kind = "Get"
  /\ pc[c] = "truncated" => op[c].kind = "Put"
  /\ pc[c] = "sent" => op[c].kind \in {"Put", "Append"}

(* Where a replica is while the lock of its object is taken: a Put has     *)
(* emptied or replaced it, an Append has reached it or is still to.        *)
OnTheWay(c, s) ==
  LET file == files[s][op[c].obj] IN
  /\ pc[c] \in {"called", "sized", "done"} => file = HomeFile(c)
  /\ pc[c] = "truncated" => HomeFile(c) = <<>>
  /\ pc[c] = "sent" /\ op[c].kind = "Put" =>
       /\ HomeFile(c) = op[c].content
       /\ rpc[c][s] = "truncated" => file = <<>>
       /\ rpc[c][s] = "done" => file = op[c].content
  /\ pc[c] = "sent" /\ op[c].kind = "Append" =>
       /\ rpc[c][s] # "truncated"
       /\ rpc[c][s] = "sent" => AppendTo(file, op[c].content) = HomeFile(c)
       /\ rpc[c][s] = "done" => file = HomeFile(c)

(* The size a Get has asked for is still the file's. *)
SizeIsCurrent(c) ==
  pc[c] = "sized" => HomeFile(c) # NoFile /\ size[c] = Len(HomeFile(c))

RequestInv(c) ==
  /\ LockScope(c)
  /\ ThreadsInCall(c)
  /\ Locked(c) => \A s \in Servers : OnTheWay(c, s)
  /\ SizeIsCurrent(c)

(* The inductive invariant. *)
IInv ==
  /\ StrongTypeOK
  /\ ReplicasAgree
  /\ \A c \in Clients : RequestInv(c)

(* The single copy that the replicas stand for.  A Put takes effect when   *)
(* it truncates the file of its home server, an Append when it extends it; *)
(* until the lock is free the home server of its owner has the truth.      *)
TrueCopy(o) ==
  IF holder[o] = None
  THEN files[CHOOSE s \in Servers : TRUE][o]
  ELSE IF pc[holder[o]] = "truncated"
       THEN op[holder[o]].content
       ELSE files[Home[holder[o]]][o]

PhaseOf(c) ==
  CASE pc[c] = "idle"                          -> "idle"
    [] pc[c] \in {"called", "sized"}           -> "called"
    [] pc[c] \in {"truncated", "sent", "done"} -> "executed"

(* What a file may hold at first and what a client may write. *)
Contents ==
  {<<>>, <<Zeros>>} \cup
  {[i \in 1 .. k |-> [client |-> c, n |-> n, eol |-> i = k]] :
     c \in Clients, n \in 0 .. MaxWrites, k \in Sizes}

Promise == INSTANCE ObjectStore WITH
  store    <- [o \in Objects |-> TrueCopy(o)],
  phase    <- [c \in Clients |-> PhaseOf(c)],
  call     <- op

(* The replicas behind the lock are one linearizable store: no Get sees a  *)
(* half-written, reordered or lost write, on whatever server it runs.      *)
ImplementsObjectStore == Promise!Spec

(* A lock that is taken is given up: no handler keeps it for ever.         *)
LockReleased == \A o \in Objects : holder[o] # None ~> holder[o] = None
=============================================================================
