----------------------------- MODULE MCStartup ------------------------------
(* Instances of Startup for TLC, on two hosts. *)
EXTENDS Startup

None == [g \in Hosts |-> {}]

(* Two restarts, with a new data set before, between or after them. *)
Restarts(client_on, regens) ==
  [client_on |-> client_on, runs |-> 2, regens |-> regens,
   replaced |-> None, replacements |-> 0, stuck |-> {}]

(* Trigger files are replaced, each of them more than once, and no agent.  *)
Replacing ==
  [client_on |-> "all", runs |-> 0, regens |-> 0,
   replaced |-> [g \in Hosts |-> IF g = First THEN {"server", "client"} ELSE {}],
   replacements |-> 3, stuck |-> {}]

(* A restart of servers of which one has a handler that waits forever.     *)
Stuck(h) ==
  [client_on |-> "all", runs |-> 1, regens |-> 0,
   replaced |-> None, replacements |-> 0, stuck |-> {h}]

AllScenarios ==
  {Restarts("all", 0), Restarts("first", 1), Replacing} \cup {Stuck(h) : h \in Hosts}
=============================================================================
