----------------------------- MODULE RedisStore -----------------------------
(***************************************************************************)
(* What rep-redis promises, in terms of ObjectStore.  Two history          *)
(* variables say what its states no longer do of a client that has exited: *)
(* whether its last call took effect, and what its last Get read.          *)
(***************************************************************************)
EXTENDS Containers

VARIABLES
  phase,  (* of each client's call: ObjectStore's *)
  read    (* what its last Get has read, or NoFile *)

historyVars == <<vars, phase, read>>

Uses(c) == bucket[c] = "rep-redis"

(* An update takes effect when the home server writes its file, which      *)
(* starts its threads.  A Get does when the lock is acquired: nobody       *)
(* writes before the file has been read.                                   *)
NextPhase(c) ==
  CASE ~Uses(c) \/ pc'[c] = "idle" -> "idle"
    [] Uses(c) /\ pc'[c] = "container" -> "called"
    [] Uses(c) /\ pc'[c] = "body" -> IF kind[c] = "Get" THEN "executed" ELSE "called"
    [] Uses(c) /\ pc'[c] = "join" -> "executed"
    [] Uses(c) /\ pc'[c] = "exited" -> phase[c]

Reads(c) ==
  Uses(c) /\ kind[c] = "Get" /\ pc[c] = "container" /\ pc'[c] = "body"

HistoryInit ==
  /\ Init
  /\ phase = [c \in Clients |-> "idle"]
  /\ read = [c \in Clients |-> NoFile]

History ==
  /\ phase' = [c \in Clients |-> NextPhase(c)]
  /\ read' = [c \in Clients |-> IF Reads(c) THEN File(c, Home[c]) ELSE read[c]]

HistorySpec == HistoryInit /\ [][Next /\ History]_historyVars

FairHistorySpec == HistorySpec /\ Fairness
-----------------------------------------------------------------------------
(* The copy that counts: its owner's, while the object is locked.          *)
TrueCopy ==
  LET owner == holder["rep-redis"] IN
  files[IF owner = Nobody THEN "flecs12" ELSE Home[owner]]["rep-redis"]

CallOf(c) ==
  [kind |-> IF Uses(c) THEN kind[c] ELSE "Get", obj |-> "rep-redis",
   content |-> IF Uses(c) THEN Content(c) ELSE <<>>]

(* The record of one write, or nothing. *)
Contents ==
  {<<>>} \cup {<<[client |-> c, n |-> n]>> : c \in Clients, n \in 0 .. MaxWrites}

(* What the last Get has read, which is what it is answered with.          *)
Given(c) ==
  IF Uses(c) /\ pc[c] = "idle" /\ kind[c] = "Get" /\ read[c] # NoFile
  THEN got[c] ELSE read[c]

Store == INSTANCE ObjectStore WITH
  Objects  <- {"rep-redis"},
  store    <- [o \in {"rep-redis"} |-> TrueCopy],
  call     <- [c \in Clients |-> CallOf(c)],
  got      <- [c \in Clients |-> Given(c)]

(* rep-redis is a linearizable store, whichever server processes end and   *)
(* whatever is missing in redis: every Get sees the updates answered       *)
(* before it, and one that failed half-way is seen by all later Gets or by *)
(* none.                                                                   *)
ImplementsObjectStore == Store!Spec
=============================================================================
