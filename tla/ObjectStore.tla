---------------------------- MODULE ObjectStore -----------------------------
(***************************************************************************)
(* What the strongly consistent container promises its clients: one copy   *)
(* of each object, on which every Get, Put and Append takes effect at one  *)
(* moment between its call and its answer.                                 *)
(***************************************************************************)
EXTENDS FileOps

CONSTANTS Clients, Objects, Contents

VARIABLES
  store,  (* the content of each object, or NoFile *)
  phase,  (* "idle", "called" or "executed" *)
  call,   (* the call each client made *)
  got     (* the answer to its last Get *)

storeVars == <<store, phase, call, got>>

Init ==
  /\ store \in [Objects -> Contents \cup {NoFile}]
  /\ phase = [c \in Clients |-> "idle"]
  /\ call \in [Clients -> [kind : {"Get", "Put", "Append"}, obj : Objects,
                           content : Contents]]
  /\ got = [c \in Clients |-> NoFile]

Request(c) ==
  /\ phase[c] = "idle"
  /\ phase' = [phase EXCEPT ![c] = "called"]
  /\ \E kind \in {"Get", "Put", "Append"}, o \in Objects, d \in Contents :
       call' = [call EXCEPT ![c] = [kind |-> kind, obj |-> o, content |-> d]]
  /\ UNCHANGED <<store, got>>

DoGet(c) ==
  /\ call[c].kind = "Get"
  /\ got' = [got EXCEPT ![c] = store[call[c].obj]]
  /\ UNCHANGED store

DoPut(c) ==
  /\ call[c].kind = "Put"
  /\ store' = [store EXCEPT ![call[c].obj] = call[c].content]
  /\ UNCHANGED got

DoAppend(c) ==
  /\ call[c].kind = "Append"
  /\ store' = [store EXCEPT ![call[c].obj] = AppendTo(@, call[c].content)]
  /\ UNCHANGED got

Execute(c) ==
  /\ phase[c] = "called"
  /\ phase' = [phase EXCEPT ![c] = "executed"]
  /\ DoGet(c) \/ DoPut(c) \/ DoAppend(c)
  /\ UNCHANGED call

Answer(c) ==
  /\ phase[c] = "executed"
  /\ phase' = [phase EXCEPT ![c] = "idle"]
  /\ UNCHANGED <<store, call, got>>

Next == \E c \in Clients : Request(c) \/ Execute(c) \/ Answer(c)

Spec == Init /\ [][Next]_storeVars
=============================================================================
