------------------------------ MODULE Launcher ------------------------------
(***************************************************************************)
(* flecs-launcher (launcher/launcher.cpp): on each host it watches trigger *)
(* files with inotify and runs a file's command, read at its start, when   *)
(* the file is written.  A file that is replaced takes its watch with it,  *)
(* which the event IN_IGNORED tells; all files are then watched anew.      *)
(*                                                                         *)
(* Of the kernel: a watch is of an inode and has a descriptor of its own;  *)
(* an event that equals the last one in the queue is dropped.  Files are   *)
(* touched by the agent and by scripts; cmake replaces them (CMakeLists,   *)
(* COPYONLY): it removes, creates and writes, and closes a file.           *)
(***************************************************************************)
EXTENDS Integers, Sequences

CONSTANT Hosts

(* main adds them in this order. *)
Triggers == <<"agent", "master", "server", "client", "regen-fileset">>
Files    == {Triggers[i] : i \in DOMAIN Triggers}
NoName   == ""  (* of an entry that operator[] has inserted *)

VARIABLES
  inode,    (* kernel: what each host's files are, and their watches (0: none) *)
  last_wd,  (* kernel: the last descriptor given *)
  queue,    (* kernel: the events not read *)
  wds,      (* _wds: the file name of each descriptor *)
  doing,    (* "select", "system", "reset" or "exited" *)
  event,    (* ie, the event being handled *)
  old_wds   (* what _ResetWatcher has still to watch again *)

fileVars     == <<inode, last_wd, queue>>
watcherVars  == <<wds, doing, event, old_wds>>
launcherVars == <<fileVars, watcherVars>>

Event(wd, ignored) == [wd |-> wd, ignored |-> ignored]

(* main up to Watch. *)
LauncherInit ==
  /\ inode = [h \in Hosts |->
                [f \in Files |->
                   [is |-> "closed", wd |-> CHOOSE i \in DOMAIN Triggers : Triggers[i] = f]]]
  /\ last_wd = [h \in Hosts |-> Len(Triggers)]
  /\ queue = [h \in Hosts |-> <<>>]
  /\ wds = [h \in Hosts |-> Triggers]
  /\ doing = [h \in Hosts |-> "select"]
  /\ event = [h \in Hosts |-> Event(0, FALSE)]
  /\ old_wds = [h \in Hosts |-> <<>>]
-----------------------------------------------------------------------------
(* The kernel and those who change the files. *)
Queued(h, e) ==
  IF e.wd = 0 \/ (queue[h] # <<>> /\ queue[h][Len(queue[h])] = e)
  THEN queue[h] ELSE Append(queue[h], e)

Notify(h, e) == queue' = [queue EXCEPT ![h] = Queued(h, e)]

(* touch opens the file for writing and closes it. *)
Touch(h, f) ==
  /\ inode[h][f].is = "closed"
  /\ Notify(h, Event(inode[h][f].wd, FALSE))
  /\ UNCHANGED <<inode, last_wd, watcherVars>>

Remove(h, f) ==
  /\ inode[h][f].is = "closed"
  /\ inode' = [inode EXCEPT ![h][f] = [is |-> "missing", wd |-> 0]]
  /\ Notify(h, Event(inode[h][f].wd, TRUE))
  /\ UNCHANGED <<last_wd, watcherVars>>

Create(h, f) ==
  /\ inode[h][f].is = "missing"
  /\ inode' = [inode EXCEPT ![h][f].is = "open"]
  /\ UNCHANGED <<last_wd, queue, watcherVars>>

Close(h, f) ==
  /\ inode[h][f].is = "open"
  /\ inode' = [inode EXCEPT ![h][f].is = "closed"]
  /\ Notify(h, Event(inode[h][f].wd, FALSE))
  /\ UNCHANGED <<last_wd, watcherVars>>
-----------------------------------------------------------------------------
(* Watch reads an event; _Launch looks its descriptor up, which inserts an *)
(* entry for one that is not there, and runs the command.                  *)
NameOf(h, wd) == IF wd \in DOMAIN wds[h] THEN wds[h][wd] ELSE NoName
Entered(table, wd, f) == [d \in DOMAIN table \cup {wd} |-> IF d = wd THEN f ELSE table[d]]

(* Variant: what one read returns is taken for one event. *)
ReadEvents(h) ==
  /\ doing[h] = "select" /\ queue[h] # <<>>
  /\ event' = [event EXCEPT ![h] = Head(queue[h])]
  /\ queue' = [queue EXCEPT ![h] = <<>>]
  /\ wds' = [wds EXCEPT ![h] = Entered(@, Head(queue[h]).wd, NameOf(h, Head(queue[h]).wd))]
  /\ doing' = [doing EXCEPT ![h] = "system"]
  /\ UNCHANGED <<inode, last_wd, old_wds>>

ReadEvent(h) ==
  /\ doing[h] = "select" /\ queue[h] # <<>>
  /\ event' = [event EXCEPT ![h] = Head(queue[h])]
  /\ queue' = [queue EXCEPT ![h] = Tail(@)]
  /\ wds' = [wds EXCEPT ![h] = Entered(@, Head(queue[h]).wd, NameOf(h, Head(queue[h]).wd))]
  /\ doing' = [doing EXCEPT ![h] = "system"]
  /\ UNCHANGED <<inode, last_wd, old_wds>>

Launching(h) == wds[h][event[h].wd]

(* Variant: the table is not cleared. *)
CommandReturnsKeeping(h) ==
  /\ doing[h] = "system"
  /\ doing' = [doing EXCEPT ![h] = IF event[h].ignored THEN "reset" ELSE "select"]
  /\ old_wds' = [old_wds EXCEPT ![h] = IF event[h].ignored THEN wds[h] ELSE @]
  /\ UNCHANGED <<fileVars, wds, event>>

(* system() returns; after IN_IGNORED, _ResetWatcher takes a copy of _wds  *)
(* and clears it.                                                          *)
CommandReturns(h) ==
  /\ doing[h] = "system"
  /\ doing' = [doing EXCEPT ![h] = IF event[h].ignored THEN "reset" ELSE "select"]
  /\ old_wds' = [old_wds EXCEPT ![h] = IF event[h].ignored THEN wds[h] ELSE @]
  /\ wds' = [wds EXCEPT ![h] = IF event[h].ignored THEN <<>> ELSE @]
  /\ UNCHANGED <<fileVars, event>>

Next_wd(h) == CHOOSE d \in DOMAIN old_wds[h] : \A e \in DOMAIN old_wds[h] : d <= e
Without(table, wd) == [d \in DOMAIN table \ {wd} |-> table[d]]

Present(h) == {f \in Files : inode[h][f].is # "missing"}

(* inotify_add_watch of a file that has a watch returns its descriptor.    *)
AddWatch(h) ==
  LET f  == old_wds[h][Next_wd(h)]
      wd == IF inode[h][f].wd # 0 THEN inode[h][f].wd ELSE last_wd[h] + 1
  IN
  /\ doing[h] = "reset" /\ DOMAIN old_wds[h] # {}
  /\ f \in Present(h)
  /\ inode' = [inode EXCEPT ![h][f].wd = wd]
  /\ last_wd' = [last_wd EXCEPT ![h] = IF wd > @ THEN wd ELSE @]
  /\ wds' = [wds EXCEPT ![h] = Entered(@, wd, f)]
  /\ old_wds' = [old_wds EXCEPT ![h] = Without(@, Next_wd(h))]
  /\ UNCHANGED <<queue, doing, event>>

(* exit(EXIT_FAILURE): the inotify instance goes, with its watches. *)
AddWatchFails(h) ==
  /\ doing[h] = "reset" /\ DOMAIN old_wds[h] # {}
  /\ old_wds[h][Next_wd(h)] \notin Present(h)
  /\ doing' = [doing EXCEPT ![h] = "exited"]
  /\ inode' = [inode EXCEPT ![h] = [g \in Files |-> [@[g] EXCEPT !.wd = 0]]]
  /\ queue' = [queue EXCEPT ![h] = <<>>]
  /\ UNCHANGED <<last_wd, wds, event, old_wds>>

ResetReturns(h) ==
  /\ doing[h] = "reset" /\ DOMAIN old_wds[h] = {}
  /\ doing' = [doing EXCEPT ![h] = "select"]
  /\ UNCHANGED <<fileVars, wds, event, old_wds>>

WatcherStep(h) ==
  ReadEvent(h) \/ AddWatch(h) \/ AddWatchFails(h) \/ ResetReturns(h)
-----------------------------------------------------------------------------
(* When a launcher waits for an event and there is none, its table is what *)
(* the kernel watches: every trigger file, under its own descriptor and    *)
(* no other, however files were replaced while it reset its watches.       *)
WatchesIntact ==
  \A h \in Hosts :
    doing[h] = "select" /\ queue[h] = <<>>
      => /\ DOMAIN wds[h] = {inode[h][f].wd : f \in Files}
         /\ \A f \in Files : wds[h][inode[h][f].wd] = f
-----------------------------------------------------------------------------
(* The parts of the inductive invariant. *)
LauncherType ==
  /\ inode \in [Hosts -> [Files -> [is : {"closed", "open", "missing"}, wd : Nat]]]
  /\ last_wd \in [Hosts -> Nat]
  /\ queue \in [Hosts -> Seq([wd : Nat, ignored : BOOLEAN])]
  /\ doing \in [Hosts -> {"select", "system", "reset", "exited"}]
  /\ event \in [Hosts -> [wd : Nat, ignored : BOOLEAN]]
  /\ DOMAIN wds = Hosts /\ DOMAIN old_wds = Hosts
  /\ \A h \in Hosts : DOMAIN wds[h] \subseteq Nat /\ DOMAIN old_wds[h] \subseteq Nat

Live(h, d)   == \E f \in Files : inode[h][f].wd = d
Named(h, d)  == \E f \in Files : wds[h][d] = f /\ inode[h][f].wd = d
ToReset(h, f) == doing[h] = "reset" /\ \E d \in DOMAIN old_wds[h] : old_wds[h][d] = f

(* An IN_IGNORED is in the queue, or is the event being handled. *)
Queues(h, d)  == \E i \in DOMAIN queue[h] : queue[h][i] = Event(d, TRUE)
Ignored(h, d) == Queues(h, d) \/ (doing[h] = "system" /\ event[h] = Event(d, TRUE))
AnyIgnored(h) ==
  \/ \E i \in DOMAIN queue[h] : queue[h][i].ignored
  \/ doing[h] = "system" /\ event[h].ignored

(* The kernel gives every watch a descriptor of its own, and tells the end *)
(* of a watch after all of its events.                                     *)
DescriptorsInv(h) ==
  /\ \A f \in Files :
       /\ inode[h][f].wd <= last_wd[h]
       /\ inode[h][f].is = "missing" => inode[h][f].wd = 0
       /\ \A g \in Files : inode[h][f].wd = inode[h][g].wd /\ f # g => inode[h][f].wd = 0
  /\ \A i \in DOMAIN queue[h] :
       /\ queue[h][i].wd \in 1 .. last_wd[h]
       /\ queue[h][i].ignored => ~Live(h, queue[h][i].wd)
       /\ \/ Live(h, queue[h][i].wd)
          \/ \E j \in DOMAIN queue[h] : j >= i /\ queue[h][j] = Event(queue[h][i].wd, TRUE)

(* An entry of the table is of a watch, or the end of its watch is still   *)
(* to be handled; no file is without an entry and without a watch to come. *)
TableInv(h) ==
  /\ DOMAIN wds[h] \subseteq 1 .. last_wd[h]
  /\ \A d \in DOMAIN wds[h] : Named(h, d) \/ Ignored(h, d)
  /\ \A f \in Files :
       /\ \/ ToReset(h, f)
          \/ inode[h][f].wd = 0 /\ AnyIgnored(h)
          \/ inode[h][f].wd \in DOMAIN wds[h] /\ wds[h][inode[h][f].wd] = f
       /\ ToReset(h, f) \/ \E d \in DOMAIN wds[h] : wds[h][d] = f

WatchesInv ==
  LauncherType /\ \A h \in Hosts : doing[h] # "exited" => DescriptorsInv(h) /\ TableInv(h)
=============================================================================
