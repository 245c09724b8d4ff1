----------------------------- MODULE GlobalLock -----------------------------
(***************************************************************************)
(* What class GlobalLock (server/globallock.h) promises its users: between *)
(* its constructor and its destructor a thread owns the path alone.  The   *)
(* constructor's type argument ('R' or 'W') has no effect: the lock server *)
(* does not tell readers from writers.                                     *)
(***************************************************************************)
CONSTANTS
  Threads,  (* threads that construct GlobalLocks, of every server process *)
  Paths,    (* lock paths: bucketID/objID                                  *)
  None      (* nobody                                                      *)

VARIABLE holder  (* the thread that owns each path, or None *)

Init == holder = [p \in Paths |-> None]

(* GlobalLock::GlobalLock returns. *)
Grant(t, p) ==
  /\ holder[p] = None
  /\ holder' = [holder EXCEPT ![p] = t]

(* GlobalLock::~GlobalLock gives the path up. *)
Free(t, p) ==
  /\ holder[p] = t
  /\ holder' = [holder EXCEPT ![p] = None]

Next == \E t \in Threads, p \in Paths : Grant(t, p) \/ Free(t, p)

Spec == Init /\ [][Next]_holder
=============================================================================
