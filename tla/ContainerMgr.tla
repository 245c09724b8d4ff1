---------------------------- MODULE ContainerMgr ----------------------------
(***************************************************************************)
(* ContainerMgr::GetContainer (server/container.cpp), which every handler  *)
(* of a server calls first: a lookup without a lock, then the lock, a      *)
(* second lookup and the load of the plugin.  operator[] inserts an entry  *)
(* whose _container is null, the assignment after it fills it in; a first  *)
(* lookup in between gets a null reference and the process dies of it.     *)
(* One that runs while the tree is rearranged may miss an entry.           *)
(***************************************************************************)
EXTENDS Integers

CONSTANTS
  Clients,
  Servers,
  Buckets,  (* the container names *)
  Nobody

(* The handler, in the process of a server, of a client's request: the one *)
(* of C2SI at the client's server, those of SM2SI at the peers.            *)
Handlers == Clients \X Servers

VARIABLES
  bucket,     (* what each client's request is for *)
  place,      (* where each handler is *)
  plugin,     (* _containers: "none", "null" or "loaded" *)
  load_lock,  (* the handler that owns _container_load_lock, or Nobody *)
  loads,      (* the calls of CreateInstance *)
  dead        (* the server processes that have ended *)

mgrVars == <<bucket, place, plugin, load_lock, loads, dead>>

Entry(h) == plugin[h[2]][bucket[h[1]]]
SetEntry(h, value) == plugin' = [plugin EXCEPT ![h[2]][bucket[h[1]]] = value]
Move(h, from, to) == place[h] = from /\ place' = [place EXCEPT ![h] = to]
TakeLoadLock(h)   == load_lock[h[2]] = Nobody /\ load_lock' = [load_lock EXCEPT ![h[2]] = h]
DropLoadLock(h)   == load_lock' = [load_lock EXCEPT ![h[2]] = Nobody]

Rearranging(s) == \E h \in Handlers : h[2] = s /\ place[h] = "insert"

(* The first lookup. *)
Find(h) ==
  /\ Entry(h) = "loaded"
  /\ Move(h, "find", "in")
  /\ UNCHANGED <<bucket, plugin, load_lock, loads, dead>>

FindNothing(h) ==
  /\ Entry(h) = "none" \/ Rearranging(h[2])
  /\ Move(h, "find", "wait")
  /\ UNCHANGED <<bucket, plugin, load_lock, loads, dead>>

FindsNull(h) == place[h] = "find" /\ Entry(h) = "null"

Lock(h) ==
  /\ TakeLoadLock(h)
  /\ Move(h, "wait", "locked")
  /\ UNCHANGED <<bucket, plugin, loads, dead>>

(* "Make sure no other thread have loaded the container before." *)
FindAgain(h) ==
  /\ Entry(h) = "loaded"
  /\ Move(h, "locked", "in")
  /\ DropLoadLock(h)
  /\ UNCHANGED <<bucket, plugin, loads, dead>>

(* Variant: the container is loaded without a second lookup. *)
LoadUnchecked(h) ==
  /\ Move(h, "locked", "insert")
  /\ loads' = [loads EXCEPT ![h[2]][bucket[h[1]]] = @ + 1]
  /\ UNCHANGED <<bucket, plugin, load_lock, dead>>

(* _LoadContainerPlugin up to Init(). *)
Load(h) ==
  /\ Entry(h) = "none"
  /\ Move(h, "locked", "insert")
  /\ loads' = [loads EXCEPT ![h[2]][bucket[h[1]]] = @ + 1]
  /\ UNCHANGED <<bucket, plugin, load_lock, dead>>

(* dlopen or dlsym fails; the lock is released on the way. *)
LoadThrows(h) ==
  /\ Entry(h) = "none"
  /\ Move(h, "locked", "failed")
  /\ DropLoadLock(h)
  /\ UNCHANGED <<bucket, plugin, loads, dead>>

(* _containers[container_name] = plugin, in its two halves. *)
InsertEntry(h) ==
  /\ Move(h, "insert", "assign")
  /\ SetEntry(h, "null")
  /\ UNCHANGED <<bucket, load_lock, loads, dead>>

AssignEntry(h) ==
  /\ Move(h, "assign", "in")
  /\ SetEntry(h, "loaded")
  /\ DropLoadLock(h)
  /\ UNCHANGED <<bucket, loads, dead>>

GetContainer(h) ==
  \/ Find(h) \/ FindNothing(h) \/ Lock(h) \/ FindAgain(h)
  \/ Load(h) \/ LoadThrows(h) \/ InsertEntry(h) \/ AssignEntry(h)
=============================================================================
