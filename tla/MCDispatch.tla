----------------------------- MODULE MCDispatch -----------------------------
(* Instances of Dispatch for TLC. *)
EXTENDS Dispatch, TLC

CONSTANTS c1, c2, c3, s1, s2, s3, o1, o2

(* A client at each of three servers, config.server as it is. *)
OneClientEach ==
  [servers |-> {s1, s2, s3}, home |-> c1 :> s1 @@ c2 :> s2 @@ c3 :> s3,
   poolSize |-> 3, serialize |-> TRUE]

(* Two clients at one of two servers, a thread per client, connections not *)
(* serialized.                                                             *)
Unserialized ==
  [servers |-> {s1, s2}, home |-> c1 :> s1 @@ c2 :> s1 @@ c3 :> s2,
   poolSize |-> 3, serialize |-> FALSE]

(* The pool of (local clients) * (servers) that C2S_Append's comment asks  *)
(* for, and the serialized connections.                                    *)
TwoLocalClients ==
  [servers |-> {s1, s2}, home |-> c1 :> s1 @@ c2 :> s1,
   poolSize |-> 4, serialize |-> TRUE]

NoDeadlockPromised == {OneClientEach, Unserialized}
LocalClients       == {TwoLocalClients}

(* o1 is locked at s2, o2 at s1. *)
Crossed == [o \in Objects |-> IF o = o1 THEN s2 ELSE s1]
=============================================================================
