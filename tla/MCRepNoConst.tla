---------------------------- MODULE MCRepNoConst ----------------------------
(* Instances of RepNoConstCrash for TLC. *)
EXTENDS RepNoConstCrash, TLC

CONSTANTS c1, c2, s1, s2

(* One client on each of two machines, with the server there. *)
TwoHomes   == c1 :> s1 @@ c2 :> s2
Everything == [c \in Clients |-> {"Get", "Put", "Append"}]

(* Two appenders, and one writer with a reader, while all servers run. *)
TwoAppenders ==
  [kinds |-> c1 :> {"Get", "Append"} @@ c2 :> {"Append"},
   writes |-> c1 :> 2 @@ c2 :> 2, sizes |-> {2}, kills |-> 0, starts |-> 0]

WriterAndReader ==
  [kinds |-> c1 :> {"Get", "Put", "Append"} @@ c2 :> {"Get"},
   writes |-> c1 :> 2 @@ c2 :> 0, sizes |-> {1, 2}, kills |-> 0, starts |-> 0]

(* The same while a server is killed and a dead one is started again: an   *)
(* appender, also with a reader, two appenders (that nobody starts again), *)
(* a writer of a longer and a shorter content (who appends, too, where     *)
(* nobody starts a server).                                                *)
KilledAppending ==
  {[kinds |-> c1 :> {"Append"} @@ c2 :> ks,
    writes |-> c1 :> (IF ks = {} THEN 2 ELSE 1) @@ c2 :> 0,
    sizes |-> {1}, kills |-> 1, starts |-> 1] : ks \in {{}, {"Get"}}}

BothKilledAppending ==
  [kinds |-> [c \in Clients |-> {"Append"}],
   writes |-> [c \in Clients |-> 1], sizes |-> {1}, kills |-> 1, starts |-> 0]

KilledWriting ==
  {[kinds |-> c1 :> ks @@ c2 :> {}, writes |-> c1 :> 2 @@ c2 :> 0, sizes |-> {1, 2},
    kills |-> 1, starts |-> IF ks = {"Put"} THEN 1 ELSE 0] :
      ks \in {{"Put"}, {"Put", "Append"}}}

(* Servers killed and started again at any moment, without clients;        *)
(* servers that a Join fails for die without being killed.                 *)
KilledJoining ==
  {[kinds |-> [c \in Clients |-> {}], writes |-> [c \in Clients |-> 0],
    sizes |-> {}, kills |-> k, starts |-> 5 - k] : k \in {2, 3}}

AllScenarios == KilledJoining \cup KilledAppending \cup KilledWriting
  \cup {TwoAppenders, WriterAndReader, BothKilledAppending}
=============================================================================
