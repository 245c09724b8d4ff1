------------------------------ MODULE Startup -------------------------------
(***************************************************************************)
(* agent/client.cpp restarts FleCS: it kills the processes on all hosts,   *)
(* then touches the trigger files of the master, of the servers and of the *)
(* clients, with a second's sleep before each of the last two, which waits *)
(* for nothing.  An agent (agentI.cpp) executes a command under its lock   *)
(* and answers when system() returns; of a touch, that is before the       *)
(* launcher has run the command.  A launched process is a daemon that      *)
(* fails when its port is taken, a server when there is no master, and a   *)
(* client when its server does not answer.                                 *)
(*                                                                         *)
(* killall asks for a shutdown, which waits for the handlers, and -w waits *)
(* for it; a handler that never returns holds up the agent, and the second *)
(* killall is not reached.  "flecs-client*" is a file pattern to the shell *)
(* and a plain name to killall, so no client is killed; what clients do    *)
(* once they have found their server is left out.                          *)
(***************************************************************************)
EXTENDS Launcher, FiniteSets

CONSTANTS
  First,     (* the host of the master *)
  Scenarios

(* client_on, the runs of the agent client, the touches of regen-fileset   *)
(* by hand, the files that are replaced at each host and how often in all, *)
(* and the hosts whose server has a handler that never returns.            *)
Scenario ==
  [client_on : {"all", "first"}, runs : Nat, regens : Nat,
   replaced : [Hosts -> SUBSET Files], replacements : Nat, stuck : SUBSET Hosts]

ASSUME StartupAssumption == First \in Hosts /\ Scenarios \subseteq Scenario

VARIABLES
  scenario,  (* no step changes it *)
  done,      (* the runs, regens and replacements so far *)
  phase,     (* what the agent client does *)
  exec,      (* "none", "asked", "waits" or "done": each host's Exec *)
  starting,  (* the processes of each program that were launched *)
  master,    (* the number of the master that runs, or 0 *)
  masters,   (* the masters so far *)
  server,    (* the number of the master that each server joined, or 0 *)
  reached,   (* the hosts where a client has found its server, in this run *)
  late,      (* a process was not up in time for another, in this run *)
  leftover   (* a launcher had work from before this run *)

agentVars   == <<scenario, done, phase, exec>>
processVars == <<starting, master, masters, server, reached, late>>
vars        == <<launcherVars, agentVars, processVars, leftover>>

Programs == {"master", "server", "client"}

Init ==
  /\ LauncherInit
  /\ scenario \in Scenarios
  /\ done = [run |-> 0, regen |-> 0, replace |-> 0]
  /\ phase = "idle" /\ exec = [h \in Hosts |-> "none"]
  /\ starting = [h \in Hosts |-> [p \in Programs |-> 0]]
  /\ master = IF scenario.stuck = {} THEN 0 ELSE 1
  /\ masters = master
  /\ server = [h \in Hosts |-> IF h \in scenario.stuck THEN 1 ELSE 0]
  /\ reached = {} /\ late = FALSE /\ leftover = FALSE

Count(what) == done' = [done EXCEPT ![what] = @ + 1]
-----------------------------------------------------------------------------
(* AgentClient::run.  BeginExec asks the hosts, EndExec waits for them. *)
Ask(hosts) == exec' = [h \in Hosts |-> IF h \in hosts THEN "asked" ELSE "none"]

Answered == \A h \in Hosts : exec[h] \notin {"asked", "waits"}

KillServices ==
  /\ phase \in {"idle", "end"} /\ done.run < scenario.runs
  /\ phase' = "kill" /\ Ask(Hosts) /\ Count("run")
  /\ leftover' = (\E h \in Hosts : doing[h] # "select" \/ queue[h] # <<>>)
  /\ late' = FALSE /\ reached' = {}
  /\ UNCHANGED <<launcherVars, scenario, starting, master, masters, server>>

(* Variant: BeginExec alone; the master is started during the kill. *)
StartMasterEarly ==
  /\ phase = "kill"
  /\ phase' = "master" /\ Ask({First})
  /\ UNCHANGED <<launcherVars, scenario, done, processVars, leftover>>

StartMaster ==
  /\ phase = "kill" /\ Answered
  /\ phase' = "master" /\ Ask({First})
  /\ UNCHANGED <<launcherVars, scenario, done, processVars, leftover>>

StartServers ==
  /\ phase = "master" /\ Answered
  /\ phase' = "server" /\ Ask(Hosts)
  /\ UNCHANGED <<launcherVars, scenario, done, processVars, leftover>>

ClientHosts == IF scenario.client_on = "all" THEN Hosts ELSE {First}

StartClients ==
  /\ phase = "server" /\ Answered
  /\ phase' = "client" /\ Ask(ClientHosts)
  /\ UNCHANGED <<launcherVars, scenario, done, processVars, leftover>>

Finish ==
  /\ phase = "client" /\ Answered
  /\ phase' = "end" /\ Ask({})
  /\ UNCHANGED <<launcherVars, scenario, done, processVars, leftover>>
-----------------------------------------------------------------------------
(* AgentI::Exec of the phase's command. *)
ExecTouch(h) ==
  /\ phase \in Programs /\ exec[h] = "asked"
  /\ Touch(h, phase)
  /\ exec' = [exec EXCEPT ![h] = "done"]
  /\ UNCHANGED <<scenario, done, phase, processVars, leftover>>

ExecKill(h) ==
  /\ phase = "kill" /\ exec[h] = "asked"
  /\ exec' = [exec EXCEPT ![h] = IF h \in scenario.stuck THEN "waits" ELSE "done"]
  /\ starting' = [starting EXCEPT ![h].master = 0, ![h].server = 0]
  /\ server' = [server EXCEPT ![h] = 0]
  /\ master' = IF h = First THEN 0 ELSE master
  /\ UNCHANGED <<launcherVars, scenario, done, phase, masters, reached, late, leftover>>
-----------------------------------------------------------------------------
(* The command of a trigger file returns: its program is a daemon. *)
Launched(h) ==
  /\ CommandReturns(h)
  /\ IF Launching(h) \in Programs
     THEN starting' = [starting EXCEPT ![h][Launching(h)] = @ + 1]
     ELSE UNCHANGED starting
  /\ UNCHANGED <<agentVars, leftover, master, masters, server, reached, late>>

Starts(h, p) ==
  /\ starting[h][p] > 0
  /\ starting' = [starting EXCEPT ![h][p] = @ - 1]

(* flecs-master; on other hosts than First nobody calls it.  A launcher on *)
(* such a host that has its trigger file replaced may start one.           *)
MasterStarts(h) ==
  /\ Starts(h, "master")
  /\ IF h = First /\ master = 0
     THEN master' = masters + 1 /\ masters' = masters + 1
     ELSE UNCHANGED <<master, masters>>
  /\ UNCHANGED <<launcherVars, agentVars, server, reached, late, leftover>>

(* FleCSServer::run *)
ServerStarts(h) ==
  /\ Starts(h, "server")
  /\ server' = [server EXCEPT ![h] = IF @ = 0 THEN master ELSE @]
  /\ late' = (late \/ (server[h] = 0 /\ master = 0))
  /\ UNCHANGED <<launcherVars, agentVars, master, masters, reached, leftover>>

(* FleCSClient::_init *)
ClientStarts(h) ==
  /\ Starts(h, "client")
  /\ IF server[h] # 0
     THEN reached' = reached \cup {h} /\ UNCHANGED late
     ELSE late' = TRUE /\ UNCHANGED reached
  /\ UNCHANGED <<launcherVars, agentVars, master, masters, server, leftover>>

-----------------------------------------------------------------------------
(* From outside: regen-fileset.sh, and cmake in the build directory. *)
Regen(h) ==
  /\ done.regen < scenario.regens
  /\ Touch(h, "regen-fileset") /\ Count("regen")
  /\ UNCHANGED <<scenario, phase, exec, processVars, leftover>>

Replace(h) ==
  /\ \/ /\ done.replace < scenario.replacements
        /\ \E f \in scenario.replaced[h] : Remove(h, f)
        /\ Count("replace")
     \/ /\ \E f \in scenario.replaced[h] : Create(h, f) \/ Close(h, f)
        /\ UNCHANGED done
  /\ UNCHANGED <<scenario, phase, exec, processVars, leftover>>

AgentStep == StartMaster \/ StartServers \/ StartClients \/ Finish

HostStep(h) ==
  \/ ExecTouch(h) \/ ExecKill(h) \/ Launched(h)
  \/ MasterStarts(h) \/ ServerStarts(h) \/ ClientStarts(h)
  \/ WatcherStep(h) /\ UNCHANGED <<agentVars, processVars, leftover>>

Next ==
  \/ KillServices \/ AgentStep
  \/ \E h \in Hosts : HostStep(h) \/ Regen(h) \/ Replace(h)

Spec == Init /\ [][Next]_vars

(* The agent client goes on when it is answered; the processes of a host   *)
(* run.  Nobody has to start the agent client, or to touch or replace a    *)
(* file.                                                                   *)
FairSpec ==
  /\ Spec
  /\ WF_vars(AgentStep)
  /\ \A h \in Hosts : /\ WF_vars(ExecTouch(h)) /\ WF_vars(ExecKill(h))
                      /\ WF_vars(Launched(h))
                      /\ WF_vars(MasterStarts(h)) /\ WF_vars(ServerStarts(h))
                      /\ WF_vars(ClientStarts(h))
                      /\ WF_vars(WatcherStep(h) /\ UNCHANGED <<agentVars, processVars, leftover>>)
-----------------------------------------------------------------------------
(* The agent restarts FleCS or trigger files are replaced, not both: of a  *)
(* file that is removed or closed the launcher runs the command.           *)
Undisturbed == scenario.runs = 0 \/ scenario.replacements = 0

(* Once the kill is over, a server that runs has joined the master that    *)
(* runs, unless a launcher still had a trigger to serve when it began, or  *)
(* files are replaced: it may launch a server between the kills of two     *)
(* hosts, which then joins the old master and takes the port from the new  *)
(* server.                                                                 *)
NoStrandedServer ==
  Undisturbed /\ phase # "kill" /\ ~leftover =>
    \A h \in Hosts : server[h] # 0 => server[h] = master

AllUp ==
  /\ master # 0
  /\ \A h \in Hosts : server[h] = master
  /\ ClientHosts \subseteq reached

(* A restart ends with everything up, if no process is late for another    *)
(* (the seconds of sleep are long enough), no handler is stuck, no file is *)
(* replaced and no launcher still has work when this restart, or one that  *)
(* interrupts it, begins.                                                  *)
RestartSucceeds ==
  Undisturbed /\ phase = "kill" /\ ~leftover /\ scenario.stuck = {}
    ~> late \/ leftover \/ (phase = "end" /\ AllUp)
-----------------------------------------------------------------------------
(* The parts of the inductive invariant of NoStrandedServer, beside the    *)
(* launchers' WatchesInv.                                                  *)
StartupType ==
  /\ scenario \in Scenarios
  /\ done \in [run : Nat, regen : Nat, replace : Nat]
  /\ phase \in {"idle", "kill", "end"} \cup Programs
  /\ exec \in [Hosts -> {"none", "asked", "waits", "done"}]
  /\ starting \in [Hosts -> [Programs -> Nat]]
  /\ server \in [Hosts -> Nat] /\ master \in Nat /\ masters \in Nat

(* As long as no file is replaced no launcher resets its watches. *)
Calm ==
  /\ done.replace = 0
  /\ \A h \in Hosts : /\ doing[h] \in {"select", "system"} /\ ~AnyIgnored(h)
                      /\ \A f \in Files : inode[h][f].is = "closed"

(* During a kill that began with idle launchers they serve the data set's  *)
(* trigger alone, and a host that was killed has no server.                *)
OnlyRegens(h) ==
  /\ \A i \in DOMAIN queue[h] : queue[h][i].wd = inode[h]["regen-fileset"].wd
  /\ doing[h] = "system" => Launching(h) = "regen-fileset"

KillInv(h) ==
  /\ OnlyRegens(h)
  /\ exec[h] # "none"
  /\ exec[h] # "asked" => server[h] = 0 /\ starting[h].server = 0

ServersInv ==
  Undisturbed /\ ~leftover =>
    IF phase = "kill" THEN \A h \in Hosts : KillInv(h)
                      ELSE \A h \in Hosts : server[h] \in {0, master}

StartupInv ==
  /\ WatchesInv /\ StartupType
  /\ scenario.runs = 0 => phase = "idle"
  /\ scenario.replacements = 0 => Calm
  /\ ServersInv
=============================================================================
