-------------------------- MODULE MembershipProofs --------------------------
(***************************************************************************)
(* Proofs about Membership, for any set of servers, any pool size and any  *)
(* number of early clients.  Each part of the inductive invariant is kept  *)
(* by most actions because they leave its variables alone; the steps below *)
(* name the actions that do not.                                           *)
(***************************************************************************)
EXTENDS Membership, TLAPS

LEMMA InitIInv == Init => IInv
<1> SUFFICES ASSUME Init PROVE IInv
  OBVIOUS
<1>1. TypeOK
  BY MembershipAssumption DEF Init, TypeOK
<1>2. ConstructorWaits /\ ListsAreFrozen /\ NotifyInJoin
  BY DEF Init, ConstructorWaits, ListsAreFrozen, NotifyInJoin
<1>3. JoinOrder /\ PeersPending
  BY MembershipAssumption DEF Init, JoinOrder, PeersPending
<1>4. CallsGoToServers /\ DeathsFromEmptyList
  BY DEF Init, CallsGoToServers, DeathsFromEmptyList
<1> QED
  BY <1>1, <1>2, <1>3, <1>4 DEF IInv

-----------------------------------------------------------------------------
(* The steps of the main threads and of the master's Join ... *)
JoinSide ==
  \/ JoinStep
  \/ \E s \in Servers : \/ Activate(s) \/ AskJoin(s) \/ JoinStart(s)
                        \/ JoinRefused(s) \/ AddServersDone(s)
                        \/ \E t \in Servers : AddServer(s, t) \/ AddServerThrows(s, t)

(* ... and those of the handlers. *)
HandlerSide(s) ==
  \/ Request(s) \/ AskLockServers(s) \/ GetLockServers(s) \/ NoMaster(s)
  \/ LockServersReady(s) \/ NoLockServer(s) \/ Put(s)
  \/ \E t \in Servers : CastLockServer(s, t)

LEMMA StepSides ==
  ASSUME [Next]_vars
  PROVE  JoinSide \/ (\E s \in Servers : HandlerSide(s)) \/ UNCHANGED vars
BY DEF Next, Work, ServerStep, JoinSide, HandlerSide

(* The two sides share no variables but state, which a handler changes     *)
(* only by killing its server.                                             *)
LEMMA JoinSideFrame ==
  ASSUME JoinSide
  PROVE  UNCHANGED <<waiting, mgr, lock_servers, first_request, frozen>>
BY DEF JoinSide, JoinStep, JoinInsert, JoinInsertFails, Notify, Notified,
       JoinThrows, MasterDies, JoinReturn, Activate, AskJoin, JoinStart,
       JoinRefused, AddServersDone, AddServer, AddServerThrows,
       lockVars, masterVars

LEMMA HandlerSideFrame ==
  ASSUME NEW s \in Servers, HandlerSide(s)
  PROVE  /\ UNCHANGED <<peer_servers, todo, servers, joiner, tell, notifying>>
         /\ state' = state \/ state' = [state EXCEPT ![s] = "dead"]
BY DEF HandlerSide, Request, AskLockServers, GetLockServers, NoMaster,
       LockServersReady, NoLockServer, Put, CastLockServer, serverVars, masterVars

-----------------------------------------------------------------------------
LEMMA JoinsKeepTypeOK ==
  ASSUME TypeOK, NotifyInJoin, JoinSide
  PROVE  TypeOK'
<1> USE MembershipAssumption DEF TypeOK, SetState, lockVars, masterVars, dataVars, serverVars
<1>1. CASE JoinInsert
  BY <1>1 DEF JoinInsert
<1>2. CASE JoinInsertFails
  BY <1>2 DEF JoinInsertFails
<1>3. ASSUME NEW t \in Servers, Notify(t)
      PROVE  TypeOK'
  BY <1>3 DEF Notify
<1>4. CASE Notified
  BY <1>4 DEF Notified, NotifyInJoin
<1>5. CASE JoinThrows
  BY <1>5 DEF JoinThrows
<1>6. CASE MasterDies
  BY <1>6 DEF MasterDies
<1>7. CASE JoinReturn
  BY <1>7 DEF JoinReturn
<1>8. ASSUME NEW s \in Servers,
             Activate(s) \/ AskJoin(s) \/ JoinRefused(s) \/ AddServersDone(s)
      PROVE  TypeOK'
  BY <1>8 DEF Activate, AskJoin, JoinRefused, AddServersDone
<1>9. ASSUME NEW s \in Servers, JoinStart(s)
      PROVE  TypeOK'
  BY <1>9 DEF JoinStart
<1>10. ASSUME NEW s \in Servers, NEW t \in Servers,
              AddServer(s, t) \/ AddServerThrows(s, t)
       PROVE  TypeOK'
  BY <1>10 DEF AddServer, AddServerThrows
<1> QED
  BY <1>1, <1>2, <1>3, <1>4, <1>5, <1>6, <1>7, <1>8, <1>9, <1>10 DEF JoinSide, JoinStep

LEMMA HandlersKeepTypeOK ==
  ASSUME TypeOK, ConstructorWaits, NEW s \in Servers, HandlerSide(s)
  PROVE  TypeOK'
<1> USE MembershipAssumption DEF TypeOK, lockVars, masterVars, dataVars, serverVars
<1>1. CASE Request(s)
  BY <1>1 DEF Request
<1>2. CASE AskLockServers(s)
  BY <1>2 DEF AskLockServers
<1>3. CASE GetLockServers(s)
  <2>1. CASE FirstGetLockServers(s)
    BY <1>3, <2>1 DEF GetLockServers, FirstGetLockServers
  <2>2. CASE SameLockServers(s)
    BY <1>3, <2>2 DEF GetLockServers, SameLockServers
  <2>3. CASE LockServersChanged(s)
    BY <1>3, <2>3 DEF GetLockServers, LockServersChanged, ConstructorWaits
  <2> QED
    BY <1>3, <2>1, <2>2, <2>3 DEF GetLockServers
<1>4. CASE NoMaster(s)
  BY <1>4 DEF NoMaster, ConstructorWaits
<1>5. CASE LockServersReady(s)
  BY <1>5 DEF LockServersReady
<1>6. CASE NoLockServer(s)
  BY <1>6 DEF NoLockServer
<1>7. CASE Put(s)
  BY <1>7 DEF Put
<1>8. ASSUME NEW t \in Servers, CastLockServer(s, t)
      PROVE  TypeOK'
  BY <1>8 DEF CastLockServer
<1> QED
  BY <1>1, <1>2, <1>3, <1>4, <1>5, <1>6, <1>7, <1>8 DEF HandlerSide

LEMMA StepKeepsTypeOK ==
  ASSUME IInv, [Next]_vars
  PROVE  TypeOK'
<1>1. TypeOK /\ ConstructorWaits /\ NotifyInJoin
  BY DEF IInv
<1>2. CASE UNCHANGED vars
  BY <1>1, <1>2 DEF TypeOK, vars, serverVars, lockVars, masterVars, dataVars
<1> QED
  BY <1>1, <1>2, StepSides, JoinsKeepTypeOK, HandlersKeepTypeOK

-----------------------------------------------------------------------------
(* A constructor counts on its own request: only the steps that end it     *)
(* take a request off.  Lists come from GetLockServers, which has frozen   *)
(* the list it returns.                                                    *)
LEMMA StepKeepsLists ==
  ASSUME IInv, [Next]_vars
  PROVE  ConstructorWaits' /\ ListsAreFrozen'
<1> USE DEF ConstructorWaits, ListsAreFrozen
<1>1. TypeOK /\ ConstructorWaits /\ ListsAreFrozen
  BY DEF IInv
<1>2. CASE UNCHANGED <<waiting, mgr, lock_servers, first_request, frozen>>
  BY <1>1, <1>2
<1>3. ASSUME NEW s \in Servers, HandlerSide(s)
      PROVE  ConstructorWaits' /\ ListsAreFrozen'
  <2> USE DEF TypeOK
  <2>1. CASE Request(s)
    BY <1>1, <2>1 DEF Request, masterVars
  <2>2. CASE AskLockServers(s)
    BY <1>1, <2>2 DEF AskLockServers, masterVars
  <2>3. CASE GetLockServers(s)
    <3>1. CASE FirstGetLockServers(s)
      BY <1>1, <2>3, <3>1 DEF GetLockServers, FirstGetLockServers
    <3>2. CASE SameLockServers(s)
      BY <1>1, <2>3, <3>2 DEF GetLockServers, SameLockServers
    <3>3. CASE LockServersChanged(s)
      BY <1>1, <2>3, <3>3 DEF GetLockServers, LockServersChanged
    <3> QED
      BY <2>3, <3>1, <3>2, <3>3 DEF GetLockServers
  <2>4. CASE NoMaster(s)
    BY <1>1, <2>4 DEF NoMaster, masterVars
  <2>5. CASE LockServersReady(s)
    BY <1>1, <2>5 DEF LockServersReady, masterVars
  <2>6. CASE NoLockServer(s) \/ Put(s) \/ \E t \in Servers : CastLockServer(s, t)
    BY <1>1, <2>6 DEF NoLockServer, Put, CastLockServer, lockVars, masterVars
  <2> QED
    BY <1>3, <2>1, <2>2, <2>3, <2>4, <2>5, <2>6 DEF HandlerSide
<1>4. CASE UNCHANGED vars
  BY <1>2, <1>4 DEF vars, lockVars, masterVars
<1> QED
  BY <1>2, <1>3, <1>4, StepSides, JoinSideFrame

-----------------------------------------------------------------------------
(* What is left of the joins' invariant when nothing happens but a         *)
(* server's death. *)
LEMMA DeathKeepsJoins ==
  ASSUME IInv, NEW s \in Servers,
         UNCHANGED <<peer_servers, todo, servers, joiner, tell, notifying>>,
         state' = state \/ state' = [state EXCEPT ![s] = "dead"]
  PROVE  NotifyInJoin' /\ JoinOrder' /\ PeersPending'
BY DEF IInv, TypeOK, NotifyInJoin, JoinOrder, PeersPending

LEMMA JoinSideKeepsNotify ==
  ASSUME IInv, JoinSide
  PROVE  NotifyInJoin'
<1> USE DEF NotifyInJoin
<1>1. NotifyInJoin /\ TypeOK /\ JoinOrder
  BY DEF IInv
<1>2. CASE JoinStep
  BY <1>1, <1>2 DEF JoinStep, JoinInsert, JoinInsertFails, Notify, Notified,
                    JoinThrows, MasterDies, JoinReturn
<1>3. ASSUME NEW s \in Servers, JoinStart(s)
      PROVE  NotifyInJoin'
  BY <1>1, <1>3, MembershipAssumption DEF JoinStart, TypeOK
<1> QED
  BY <1>1, <1>2, <1>3 DEF JoinSide, Activate, AskJoin, JoinRefused,
     AddServersDone, AddServer, AddServerThrows, masterVars

(* Each join goes down, active, joining, in_join, adding, serving, or ends *)
(* dead; the master enters a server while its Join runs.                   *)
LEMMA JoinSideKeepsOrder ==
  ASSUME IInv, JoinSide
  PROVE  JoinOrder'
<1> USE DEF JoinOrder, TypeOK
<1>1. JoinOrder /\ TypeOK /\ None \notin Servers
  BY MembershipAssumption DEF IInv
<1>2. CASE JoinInsert \/ JoinInsertFails
  BY <1>1, <1>2 DEF JoinInsert, JoinInsertFails, Up, serverVars
<1>3. CASE (\E t \in Servers : Notify(t)) \/ Notified
  BY <1>1, <1>3 DEF Notify, Notified, serverVars
<1>4. CASE JoinThrows \/ MasterDies
  BY <1>1, <1>4 DEF JoinThrows, MasterDies
<1>5. CASE JoinReturn
  BY <1>1, <1>5 DEF JoinReturn
<1>6. ASSUME NEW s \in Servers, Activate(s) \/ AskJoin(s) \/ JoinRefused(s)
      PROVE  JoinOrder'
  BY <1>1, <1>6 DEF Activate, AskJoin, JoinRefused, SetState, masterVars
<1>7. ASSUME NEW s \in Servers, JoinStart(s)
      PROVE  JoinOrder'
  BY <1>1, <1>7 DEF JoinStart, SetState
<1>8. ASSUME NEW s \in Servers, NEW t \in Servers, AddServer(s, t)
      PROVE  JoinOrder'
  BY <1>1, <1>8 DEF AddServer, masterVars
<1>9. ASSUME NEW s \in Servers, NEW t \in Servers,
             AddServerThrows(s, t) \/ AddServersDone(s)
      PROVE  JoinOrder'
  BY <1>1, <1>9 DEF AddServerThrows, AddServersDone, SetState, masterVars
<1> QED
  BY <1>2, <1>3, <1>4, <1>5, <1>6, <1>7, <1>8, <1>9 DEF JoinSide, JoinStep

(* A join gives each earlier server to the later one's AddServers, and the *)
(* later one to each earlier server before it returns.                     *)
LEMMA JoinSideKeepsPeers ==
  ASSUME IInv, JoinSide
  PROVE  PeersPending'
<1> USE DEF PeersPending
<1>1. PeersPending /\ NotifyInJoin /\ JoinOrder /\ TypeOK /\ None \notin Servers
  BY MembershipAssumption DEF IInv
<1>2. CASE JoinInsert \/ JoinInsertFails
  BY <1>1, <1>2 DEF JoinInsert, JoinInsertFails, TypeOK, serverVars
<1>3. CASE \E t \in Servers : Notify(t)
  BY <1>1, <1>3 DEF Notify, serverVars
<1>4. CASE Notified
  <2>1. /\ UNCHANGED <<state, todo, servers, joiner>>
        /\ tell' = tell \ {notifying}
        /\ notifying \in Servers /\ joiner \in servers
    BY <1>1, <1>4 DEF Notified, NotifyInJoin, TypeOK
  <2>2. \A s \in Servers : /\ peer_servers[s] \subseteq peer_servers'[s]
                           /\ s = notifying => joiner \in peer_servers'[s]
    BY <1>1, <1>4, <2>1 DEF Notified, TypeOK
  <2> QED
    BY <1>1, <2>1, <2>2 DEF TypeOK
<1>5. CASE JoinThrows \/ MasterDies
  BY <1>1, <1>5 DEF JoinThrows, MasterDies, TypeOK
<1>6. CASE JoinReturn
  <2>1. PICK j \in Servers : j = joiner
    BY <1>1, <1>6 DEF JoinReturn, TypeOK
  <2>2. \A s \in servers \ {j} : j \in peer_servers[s]
    BY <1>1, <1>6, <2>1 DEF JoinReturn
  <2>3. CASE state[j] = "dead"
    BY <1>1, <1>6, <2>1, <2>3 DEF JoinReturn, TypeOK
  <2>4. CASE state[j] = "in_join"
    <3>1. /\ state' = [state EXCEPT ![j] = "adding"]
          /\ todo' = [todo EXCEPT ![j] = servers \ {j}]
          /\ UNCHANGED <<peer_servers, servers>>
          /\ joiner' = None
      BY <1>6, <2>1, <2>4 DEF JoinReturn
    <3>2. ASSUME NEW s \in Servers, NEW t \in Servers, s # t,
                 state'[s] \in {"adding", "serving"},
                 state'[t] \in {"adding", "serving"}
          PROVE  t \in peer_servers'[s] \cup todo'[s]
      <4>1. CASE s = j
        BY <1>1, <3>1, <3>2, <4>1 DEF JoinOrder, TypeOK
      <4>2. CASE t = j
        BY <1>1, <2>2, <3>1, <3>2, <4>2 DEF JoinOrder, TypeOK
      <4>3. CASE s # j /\ t # j
        BY <1>1, <3>1, <3>2, <4>3 DEF TypeOK
      <4> QED
        BY <4>1, <4>2, <4>3
    <3> QED
      BY <1>1, <3>1, <3>2 DEF TypeOK
  <2> QED
    BY <1>6, <2>1, <2>3, <2>4 DEF JoinReturn
<1>7. ASSUME NEW s \in Servers, Activate(s) \/ AskJoin(s) \/ JoinRefused(s)
      PROVE  PeersPending'
  BY <1>1, <1>7 DEF Activate, AskJoin, JoinRefused, SetState, masterVars, TypeOK
<1>8. ASSUME NEW s \in Servers, JoinStart(s)
      PROVE  PeersPending'
  BY <1>1, <1>8 DEF JoinStart, SetState, JoinOrder, TypeOK
<1>9. ASSUME NEW s \in Servers, NEW t \in Servers, AddServer(s, t)
      PROVE  PeersPending'
  BY <1>1, <1>9 DEF AddServer, masterVars, TypeOK
<1>10. ASSUME NEW s \in Servers, NEW t \in Servers, AddServerThrows(s, t)
       PROVE  PeersPending'
  BY <1>1, <1>10 DEF AddServerThrows, SetState, masterVars, TypeOK
<1>11. ASSUME NEW s \in Servers, AddServersDone(s)
       PROVE  PeersPending'
  BY <1>1, <1>11 DEF AddServersDone, SetState, masterVars, TypeOK
<1> QED
  BY <1>2, <1>3, <1>4, <1>5, <1>6, <1>7, <1>8, <1>9, <1>10, <1>11
     DEF JoinSide, JoinStep

-----------------------------------------------------------------------------
(* Servers are never taken out of the master's map, and a list, the peers  *)
(* to add and those to tell are taken from it.                             *)
LEMMA StepKeepsCalls ==
  ASSUME IInv, [Next]_vars
  PROVE  CallsGoToServers'
<1> USE DEF CallsGoToServers
<1>1. /\ CallsGoToServers /\ TypeOK /\ JoinOrder /\ NotifyInJoin /\ ListsAreFrozen
      /\ None \notin Servers
  BY MembershipAssumption DEF IInv
<1>2. CASE JoinInsert \/ JoinInsertFails
  BY <1>1, <1>2 DEF JoinInsert, JoinInsertFails, lockVars, serverVars, TypeOK
<1>3. CASE (\E t \in Servers : Notify(t)) \/ Notified
  BY <1>1, <1>3 DEF Notify, Notified, lockVars, serverVars
<1>4. CASE JoinThrows \/ MasterDies
  BY <1>4, <1>1 DEF JoinThrows, MasterDies, lockVars
<1>5. CASE JoinReturn
  BY <1>5, <1>1 DEF JoinReturn, lockVars, TypeOK
<1>6. ASSUME NEW s \in Servers,
             Activate(s) \/ AskJoin(s) \/ JoinRefused(s) \/ AddServersDone(s)
               \/ \E t \in Servers : AddServerThrows(s, t)
      PROVE  CallsGoToServers'
  BY <1>1, <1>6 DEF Activate, AskJoin, JoinRefused, AddServersDone,
                    AddServerThrows, lockVars, masterVars
<1>7. ASSUME NEW s \in Servers, JoinStart(s)
      PROVE  CallsGoToServers'
  <2>1. s \notin servers
    BY <1>1, <1>7 DEF JoinStart, SetState, JoinOrder
  <2>2. tell \subseteq servers
    BY <1>1
  <2> QED
    BY <1>1, <1>7, <2>1, <2>2 DEF JoinStart, lockVars
<1>8. ASSUME NEW s \in Servers, NEW t \in Servers, AddServer(s, t)
      PROVE  CallsGoToServers'
  BY <1>1, <1>8 DEF AddServer, lockVars, masterVars, TypeOK
<1>9. ASSUME NEW s \in Servers, HandlerSide(s)
      PROVE  CallsGoToServers'
  <2>1. CASE Request(s) \/ LockServersReady(s) \/ NoLockServer(s) \/ Put(s)
               \/ AskLockServers(s) \/ NoMaster(s)
    BY <1>1, <2>1 DEF Request, LockServersReady, NoLockServer, Put, AskLockServers,
                      NoMaster, lockVars, masterVars, serverVars, TypeOK
  <2>2. CASE GetLockServers(s)
    <3>1. CASE FirstGetLockServers(s)
      BY <1>1, <2>2, <3>1 DEF GetLockServers, FirstGetLockServers, ListsAreFrozen,
                              serverVars, TypeOK
    <3>2. CASE SameLockServers(s)
      BY <1>1, <2>2, <3>2 DEF GetLockServers, SameLockServers, serverVars, TypeOK
    <3>3. CASE LockServersChanged(s)
      BY <1>1, <2>2, <3>3 DEF GetLockServers, LockServersChanged, serverVars, TypeOK
    <3> QED
      BY <2>2, <3>1, <3>2, <3>3 DEF GetLockServers
  <2>3. ASSUME NEW t \in Servers, CastLockServer(s, t)
        PROVE  CallsGoToServers'
    BY <1>1, <2>3 DEF CastLockServer, masterVars, serverVars, TypeOK
  <2> QED
    BY <1>9, <2>1, <2>2, <2>3 DEF HandlerSide
<1>10. CASE UNCHANGED vars
  BY <1>1, <1>10 DEF vars, serverVars, lockVars, masterVars
<1> QED
  BY <1>2, <1>3, <1>4, <1>5, <1>6, <1>7, <1>8, <1>9, <1>10, StepSides
     DEF JoinSide, JoinStep

(* Whatever ends a process finds one that has ended, or an empty list.     *)
LEMMA StepKeepsDeaths ==
  ASSUME IInv, [Next]_vars
  PROVE  DeathsFromEmptyList'
<1> USE DEF DeathsFromEmptyList
<1>1. /\ DeathsFromEmptyList /\ CallsGoToServers /\ TypeOK /\ JoinOrder
      /\ NotifyInJoin /\ ListsAreFrozen /\ None \notin Servers
  BY MembershipAssumption DEF IInv
<1>2. \A t \in servers : ~Up(t) => state[t] = "dead"
  BY <1>1 DEF Up, JoinOrder, TypeOK
<1>3. JoinSide => UNCHANGED <<first_request, frozen>>
  BY JoinSideFrame
<1>4. CASE JoinInsertFails
  <2>1. state[joiner] = "dead" /\ joiner \in Servers
    BY <1>1, <1>4 DEF JoinInsertFails, Up, JoinOrder, TypeOK
  <2> QED
    BY <1>1, <1>4, <2>1 DEF JoinInsertFails
<1>5. CASE JoinThrows
  <2>1. \E t \in Servers : state[t] = "dead"
    BY <1>1, <1>2, <1>5 DEF JoinThrows, NotifyInJoin, CallsGoToServers, TypeOK
  <2> QED
    BY <1>1, <1>5, <2>1 DEF JoinThrows
<1>6. CASE MasterDies
  BY <1>1, <1>6 DEF MasterDies
<1>7. CASE JoinInsert \/ (\E t \in Servers : Notify(t)) \/ Notified
  BY <1>1, <1>7 DEF JoinInsert, Notify, Notified, serverVars
<1>8. CASE JoinReturn
  BY <1>1, <1>8 DEF JoinReturn, TypeOK
<1>9. ASSUME NEW s \in Servers, JoinRefused(s)
      PROVE  DeathsFromEmptyList'
  BY <1>1, <1>9 DEF JoinRefused, masterVars
<1>10. ASSUME NEW s \in Servers, NEW t \in Servers, AddServerThrows(s, t)
       PROVE  DeathsFromEmptyList'
  <2>1. t \in servers
    BY <1>1, <1>10 DEF AddServerThrows, CallsGoToServers
  <2> QED
    BY <1>1, <1>2, <1>10, <2>1 DEF AddServerThrows, masterVars
<1>11. ASSUME NEW s \in Servers,
              Activate(s) \/ AskJoin(s) \/ JoinStart(s) \/ AddServersDone(s)
                \/ \E t \in Servers : AddServer(s, t)
       PROVE  DeathsFromEmptyList'
  BY <1>1, <1>11 DEF Activate, AskJoin, JoinStart, AddServersDone, AddServer,
                     SetState, masterVars, TypeOK
<1>12. ASSUME NEW s \in Servers, HandlerSide(s)
       PROVE  DeathsFromEmptyList'
  <2>1. CASE NoLockServer(s)
    BY <1>1, <2>1 DEF NoLockServer, ListsAreFrozen, lockVars, masterVars
  <2>2. CASE GetLockServers(s)
    BY <1>1, <2>2 DEF GetLockServers, FirstGetLockServers, SameLockServers,
                      LockServersChanged, serverVars
  <2>3. CASE Request(s) \/ LockServersReady(s) \/ Put(s) \/ AskLockServers(s)
               \/ NoMaster(s) \/ \E t \in Servers : CastLockServer(s, t)
    BY <1>1, <2>3 DEF Request, LockServersReady, Put, AskLockServers, NoMaster,
                      CastLockServer, masterVars, serverVars
  <2> QED
    BY <1>12, <2>1, <2>2, <2>3 DEF HandlerSide
<1>13. CASE UNCHANGED vars
  BY <1>1, <1>13 DEF vars, serverVars, masterVars
<1> QED
  BY <1>4, <1>5, <1>6, <1>7, <1>8, <1>9, <1>10, <1>11, <1>12, <1>13, StepSides
     DEF JoinSide, JoinStep

-----------------------------------------------------------------------------
(* The inductive invariant holds in every reachable state: the lists given *)
(* out, the order of the joins and the peers of run and Join fit together. *)
THEOREM Invariance == Spec => []IInv
<1>1. Init => IInv
  BY InitIInv
<1>2. IInv /\ [Next]_vars => IInv'
  <2> SUFFICES ASSUME IInv, [Next]_vars PROVE IInv'
    OBVIOUS
  <2>1. TypeOK' /\ ConstructorWaits' /\ ListsAreFrozen'
    BY StepKeepsTypeOK, StepKeepsLists
  <2>2. NotifyInJoin' /\ JoinOrder' /\ PeersPending'
    <3>1. CASE JoinSide
      BY <3>1, JoinSideKeepsNotify, JoinSideKeepsOrder, JoinSideKeepsPeers
    <3>2. ASSUME NEW s \in Servers, HandlerSide(s)
          PROVE  NotifyInJoin' /\ JoinOrder' /\ PeersPending'
      BY <3>2, HandlerSideFrame, DeathKeepsJoins
    <3>3. CASE UNCHANGED vars
      BY <3>3 DEF vars, serverVars, masterVars, IInv, NotifyInJoin, JoinOrder, PeersPending
    <3> QED
      BY <3>1, <3>2, <3>3, StepSides
  <2>3. CallsGoToServers' /\ DeathsFromEmptyList'
    BY StepKeepsCalls, StepKeepsDeaths
  <2> QED
    BY <2>1, <2>2, <2>3 DEF IInv
<1> QED
  BY <1>1, <1>2, PTL DEF Spec

(* Every reachable state of the start-up is well typed. *)
THEOREM TypeCorrect == Spec => []TypeOK
<1>1. IInv => TypeOK
  BY DEF IInv
<1> QED
  BY <1>1, Invariance, PTL

(* All processes that have the lock servers' list from MasterI have the    *)
(* same one, whoever joined or asked first.                                *)
THEOREM OneList == Spec => []LockServersAgree
<1>1. IInv => LockServersAgree
  BY DEF IInv, ListsAreFrozen, LockServersAgree
<1> QED
  BY <1>1, Invariance, PTL

(* A server that has come to waitForShutdown has every server whose Join   *)
(* has returned among its peers.                                           *)
THEOREM AllPeersKnown == Spec => []PeersComplete
<1>1. IInv => PeersComplete
  BY DEF IInv, PeersPending, JoinOrder, PeersComplete
<1> QED
  BY <1>1, Invariance, PTL

-----------------------------------------------------------------------------
(* No deadlock                                                             *)

(* With a thread more than early clients, the only call that can find no   *)
(* thread free is one to the server that executes ServerJoined.            *)
LEMMA ThreadLeft ==
  ASSUME IInv, MaxRequests < PoolSize, NEW t \in Servers, Up(t), notifying # t
  PROVE  ThreadFree(t)
<1>1. waiting[t] \in 0 .. MaxRequests
  BY DEF IInv, TypeOK
<1> QED
  BY <1>1, MembershipAssumption DEF ThreadFree

(* The Join that the master executes goes on.                              *)
LEMMA JoinGoesOn ==
  ASSUME IInv, MaxRequests < PoolSize, joiner # None
  PROVE  JoinCanGoOn
<1>1. /\ TypeOK /\ NotifyInJoin /\ CallsGoToServers /\ joiner \in Servers
  BY DEF IInv, TypeOK
<1>2. notifying # joiner
  BY <1>1, MembershipAssumption DEF NotifyInJoin, CallsGoToServers, TypeOK
<1>3. Up(joiner) => ThreadFree(joiner)
  BY <1>1, <1>2, ThreadLeft
<1>4. ASSUME notifying = None, NEW t \in tell, Up(t)
      PROVE  ThreadFree(t)
  BY <1>1, <1>4, ThreadLeft, MembershipAssumption DEF TypeOK
<1> QED
  BY <1>1, <1>3, <1>4 DEF JoinCanGoOn

(* When the master executes no Join, a server that waits for it, adds its  *)
(* peers or asks for the lock servers goes on.                             *)
LEMMA ServerGoesOn ==
  ASSUME IInv, MaxRequests < PoolSize, joiner = None, NEW s \in Servers, Up(s),
         waiting[s] > 0 \/ state[s] \in {"joining", "in_join", "adding"}
  PROVE  MainCanGoOn(s) \/ ConstructorCanGoOn(s)
<1>1. /\ TypeOK /\ NotifyInJoin /\ CallsGoToServers /\ JoinOrder /\ ListsAreFrozen
      /\ DeathsFromEmptyList /\ ConstructorWaits
  BY DEF IInv
<1>2. notifying = None
  BY <1>1, MembershipAssumption DEF NotifyInJoin, TypeOK
<1>3. \A t \in Servers : Up(t) => ThreadFree(t)
  BY <1>2, ThreadLeft, MembershipAssumption
<1>4. CASE state[s] \in {"joining", "in_join"}
  BY <1>1, <1>4, MembershipAssumption DEF MainCanGoOn, JoinOrder
<1>5. CASE state[s] = "adding"
  BY <1>1, <1>3, <1>5 DEF MainCanGoOn, TypeOK
<1>6. CASE waiting[s] > 0 /\ mgr[s] \in {"none", "asking"}
  BY <1>6 DEF ConstructorCanGoOn
<1>7. CASE mgr[s] = "casting" /\ uncast[s] # {} /\ lock_servers[s] # {}
  <2>1. PICK t \in uncast[s] : t \in frozen /\ t \in servers /\ t \in Servers
    BY <1>1, <1>7 DEF CallsGoToServers, TypeOK
  <2>2. frozen # {}
    BY <2>1
  <2>3. Up(t)
    BY <1>1, <2>1, <2>2 DEF DeathsFromEmptyList, JoinOrder, Up, TypeOK
  <2> QED
    BY <1>3, <1>7, <2>1, <2>3 DEF ConstructorCanGoOn
<1>8. CASE mgr[s] = "casting" /\ (uncast[s] = {} \/ lock_servers[s] = {})
  BY <1>8 DEF ConstructorCanGoOn
<1>9. mgr[s] \in {"none", "asking", "casting", "ready"} /\ waiting[s] \in Nat
  BY <1>1, MembershipAssumption DEF TypeOK
<1>10. mgr[s] = "ready" => ~(waiting[s] > 0)
  BY <1>1 DEF ConstructorWaits
<1> QED
  BY <1>4, <1>5, <1>6, <1>7, <1>8, <1>9, <1>10

(* "No deadlock as long as the master do not notify the originating        *)
(* server" (FleCSServer::run): with a thread in each pool that no early    *)
(* client can take, somebody goes on while a server is joining or a        *)
(* request waits for the lock servers.                                     *)
THEOREM DeadlockFree == Spec => [](MaxRequests < PoolSize => SomeoneCanWork)
<1>1. IInv => (MaxRequests < PoolSize => SomeoneCanWork)
  BY JoinGoesOn, ServerGoesOn DEF SomeoneCanWork, CanWork
<1> QED
  BY <1>1, Invariance, PTL

(* No server and no master ends, unless GetLockServers has fixed the list  *)
(* before the first Join was done.                                         *)
THEOREM DeathsNeedEmptyList == Spec => []DeathsFromEmptyList
<1>1. IInv => DeathsFromEmptyList
  BY DEF IInv
<1> QED
  BY <1>1, Invariance, PTL

-----------------------------------------------------------------------------
(* What a Put reaches                                                      *)

(* The one window in which updates are lost is AddServers: no Put is made  *)
(* at a server while its main thread is there.                             *)
NoPutWhileAdding == [][\A s \in Servers : Put(s) => state[s] # "adding"]_vars

(* A server has no peers before its Join is over; the lock servers' Joins  *)
(* are over, and none of them has ended; nobody writes before the list of  *)
(* them is fixed.                                                          *)
WindowInv ==
  /\ \A s \in Servers :
       state[s] \in {"down", "active", "joining", "in_join"} => peer_servers[s] = {}
  /\ \A s \in frozen : state[s] \in {"adding", "serving"}
  /\ first_request => \A s \in Servers : value[s] = 0
  /\ UpdatesReachAll

(* The steps of a server's main thread, as far as the window goes.         *)
LEMMA StateSteps ==
  ASSUME IInv, [Next]_vars, NEW s \in Servers
  PROVE  /\ state[s] \in {"adding", "serving"} => state'[s] \in {"adding", "serving", "dead"}
         /\ state'[s] \in {"down", "active", "joining", "in_join"}
              => state[s] \in {"down", "active", "joining", "in_join"}
<1> USE DEF TypeOK
<1>1. TypeOK /\ JoinOrder /\ joiner \in Servers \cup {None} /\ None \notin Servers
  BY MembershipAssumption DEF IInv
<1>2. CASE JoinStep
  BY <1>1, <1>2 DEF JoinStep, JoinInsert, JoinInsertFails, Notify, Notified, JoinThrows,
     MasterDies, JoinReturn, JoinOrder, serverVars
<1>3. ASSUME NEW t \in Servers, Activate(t) \/ AskJoin(t) \/ JoinRefused(t)
      PROVE  /\ state[s] \in {"adding", "serving"} => state'[s] = state[s]
             /\ state'[s] \in {"down", "active", "joining", "in_join"}
                  => state[s] \in {"down", "active", "joining", "in_join"}
  BY <1>1, <1>3 DEF Activate, AskJoin, JoinRefused, SetState
<1>4. ASSUME NEW t \in Servers, JoinStart(t)
      PROVE  /\ state[s] \in {"adding", "serving"} => state'[s] = state[s]
             /\ state'[s] \in {"down", "active", "joining", "in_join"}
                  => state[s] \in {"down", "active", "joining", "in_join"}
  BY <1>1, <1>4 DEF JoinStart, SetState
<1>5. ASSUME NEW t \in Servers, NEW u \in Servers,
             AddServersDone(t) \/ AddServer(t, u) \/ AddServerThrows(t, u)
      PROVE  /\ state[s] \in {"adding", "serving"}
                  => state'[s] \in {"adding", "serving", "dead"}
             /\ state'[s] \in {"down", "active", "joining", "in_join"}
                  => state[s] \in {"down", "active", "joining", "in_join"}
  BY <1>1, <1>5 DEF AddServersDone, AddServer, AddServerThrows, SetState
<1>6. ASSUME NEW t \in Servers, HandlerSide(t)
      PROVE  /\ state[s] \in {"adding", "serving"}
                  => state'[s] \in {"adding", "serving", "dead"}
             /\ state'[s] \in {"down", "active", "joining", "in_join"}
                  => state[s] \in {"down", "active", "joining", "in_join"}
  BY <1>1, <1>6, HandlerSideFrame
<1>7. CASE UNCHANGED vars
  BY <1>1, <1>7 DEF vars, serverVars
<1> QED
  BY <1>2, <1>3, <1>4, <1>5, <1>6, <1>7, StepSides DEF JoinSide

(* Only AddServers and ServerJoined, at servers that have joined, give a   *)
(* server peers.                                                           *)
LEMMA StepKeepsNoPeers ==
  ASSUME IInv, WindowInv, [Next]_vars, NEW s \in Servers,
         state'[s] \in {"down", "active", "joining", "in_join"}
  PROVE  peer_servers'[s] = {}
<1>1. /\ TypeOK /\ JoinOrder /\ NotifyInJoin /\ CallsGoToServers
      /\ joiner \in Servers \cup {None} /\ None \notin Servers
  BY MembershipAssumption DEF IInv, TypeOK
<1>2. /\ state[s] \in {"down", "active", "joining", "in_join"}
      /\ peer_servers[s] = {}
  BY StateSteps DEF WindowInv
<1>3. CASE Notified
  <2>1. notifying \in servers /\ notifying # joiner /\ joiner \in servers
    BY <1>1, <1>3 DEF Notified, NotifyInJoin, CallsGoToServers
  <2>2. notifying # s
    BY <1>1, <1>2, <2>1 DEF JoinOrder
  <2> QED
    BY <1>1, <1>2, <1>3, <2>2 DEF Notified, TypeOK
<1>4. ASSUME NEW t \in Servers, NEW u \in Servers, AddServer(t, u)
      PROVE  peer_servers'[s] = {}
  BY <1>1, <1>2, <1>4 DEF AddServer, TypeOK
<1>5. CASE JoinStep /\ ~Notified
  BY <1>2, <1>5 DEF JoinStep, JoinInsert, JoinInsertFails, Notify, JoinThrows,
     MasterDies, JoinReturn, serverVars
<1>6. ASSUME NEW t \in Servers,
             \/ Activate(t) \/ AskJoin(t) \/ JoinStart(t) \/ JoinRefused(t)
             \/ AddServersDone(t) \/ \E u \in Servers : AddServerThrows(t, u)
      PROVE  peer_servers'[s] = {}
  BY <1>2, <1>6 DEF Activate, AskJoin, JoinStart, JoinRefused, AddServersDone,
     AddServerThrows
<1>7. ASSUME NEW t \in Servers, HandlerSide(t)
      PROVE  peer_servers'[s] = {}
  BY <1>2, <1>7, HandlerSideFrame
<1>8. CASE UNCHANGED vars
  BY <1>2, <1>8 DEF vars, serverVars
<1> QED
  BY <1>3, <1>4, <1>5, <1>6, <1>7, <1>8, StepSides DEF JoinSide

(* Who changes the frozen list, and who writes.                            *)
LEMMA ListAndData ==
  ASSUME [Next]_vars
  PROVE  \/ UNCHANGED <<first_request, frozen, value>>
         \/ \E s \in Servers : GetLockServers(s) /\ FirstGetLockServers(s)
         \/ \E s \in Servers : Put(s)
<1>1. ASSUME NEW s \in Servers, HandlerSide(s)
      PROVE  \/ UNCHANGED <<first_request, frozen, value>>
             \/ GetLockServers(s) /\ FirstGetLockServers(s)
             \/ Put(s)
  BY <1>1 DEF HandlerSide, Request, AskLockServers, GetLockServers, SameLockServers,
     LockServersChanged, NoMaster, LockServersReady, NoLockServer, CastLockServer,
     masterVars, dataVars
<1>2. CASE JoinSide
  BY <1>2, JoinSideFrame DEF JoinSide, JoinStep, JoinInsert, JoinInsertFails, Notify,
     Notified, JoinThrows, MasterDies, JoinReturn, Activate, AskJoin, JoinStart,
     JoinRefused, AddServersDone, AddServer, AddServerThrows, dataVars
<1>3. CASE UNCHANGED vars
  BY <1>3 DEF vars, masterVars, dataVars
<1> QED
  BY <1>1, <1>2, <1>3, StepSides

LEMMA StepKeepsWindow ==
  ASSUME IInv, IInv', WindowInv, [Next]_vars,
         \A s \in Servers : Put(s) => state[s] # "adding"
  PROVE  WindowInv'
<1>1. /\ TypeOK /\ JoinOrder /\ DeathsFromEmptyList /\ ListsAreFrozen
      /\ joiner \in Servers \cup {None} /\ None \notin Servers
      /\ frozen \subseteq Servers /\ servers \subseteq Servers
  BY MembershipAssumption DEF IInv, TypeOK
<1>2. ASSUME NEW s \in Servers, state'[s] = "dead"
      PROVE  ~first_request' /\ frozen' = {}
  BY <1>2 DEF IInv, DeathsFromEmptyList
<1>3. \A s \in Servers :
        state'[s] \in {"down", "active", "joining", "in_join"} => peer_servers'[s] = {}
  BY StepKeepsNoPeers
<1>4. ASSUME frozen' = frozen
      PROVE  \A s \in frozen' : state'[s] \in {"adding", "serving"}
  <2> SUFFICES ASSUME NEW s \in frozen
               PROVE  state'[s] \in {"adding", "serving"}
    BY <1>4
  <2>1. s \in Servers /\ state[s] \in {"adding", "serving"}
    BY <1>1 DEF WindowInv
  <2>2. state'[s] \in {"adding", "serving", "dead"}
    BY <2>1, StateSteps
  <2> QED
    BY <1>2, <1>4, <2>1, <2>2
<1>5. CASE UNCHANGED <<first_request, frozen, value>>
  BY <1>3, <1>4, <1>5 DEF WindowInv, UpdatesReachAll
<1>6. ASSUME NEW s \in Servers, GetLockServers(s), FirstGetLockServers(s)
      PROVE  WindowInv'
  <2>1. /\ joiner = None /\ first_request /\ frozen' = servers /\ ~first_request'
        /\ UNCHANGED <<state, value>>
    BY <1>6 DEF GetLockServers, FirstGetLockServers, serverVars, dataVars
  <2>2. ASSUME NEW t \in servers
        PROVE  state'[t] \in {"adding", "serving"}
    <3>1. t \in Servers /\ state[t] # "dead"
      BY <1>1, <2>1 DEF DeathsFromEmptyList
    <3> QED
      BY <1>1, <2>1, <3>1 DEF JoinOrder, TypeOK
  <2>3. \A t \in Servers : value'[t] = 0
    BY <2>1 DEF WindowInv
  <2> QED
    BY <1>1, <1>3, <2>1, <2>2, <2>3 DEF WindowInv, UpdatesReachAll
<1>7. ASSUME NEW s \in Servers, Put(s)
      PROVE  WindowInv'
  <2>1. /\ mgr[s] = "ready" /\ Up(s) /\ state[s] # "adding"
        /\ UNCHANGED <<state, first_request, frozen>>
        /\ value' = [t \in Servers |->
                       IF t \in {s} \cup peer_servers[s] THEN writes' ELSE value[t]]
    BY <1>7 DEF Put, serverVars, masterVars
  <2>2. ~first_request'
    BY <1>1, <2>1 DEF ListsAreFrozen
  <2>3. CASE state[s] = "serving"
    <3>1. ASSUME NEW t \in frozen
          PROVE  value'[t] = writes'
      <4>1. t \in Servers /\ state[t] \in {"adding", "serving"}
        BY <1>1 DEF WindowInv
      <4>2. t = s \/ t \in peer_servers[s]
        BY <2>3, <4>1, <1>1 DEF IInv, PeersPending, JoinOrder
      <4> QED
        BY <2>1, <4>1, <4>2
    <3> QED
      BY <1>3, <1>4, <2>1, <2>2, <3>1 DEF WindowInv, UpdatesReachAll
  <2>4. CASE state[s] # "serving"
    <3>1. state[s] \in {"active", "joining", "in_join"}
      BY <1>1, <2>1, <2>4 DEF TypeOK, Up
    <3>2. peer_servers[s] = {} /\ s \notin frozen
      BY <3>1 DEF WindowInv
    <3>3. \A t \in frozen : value'[t] = value[t]
      BY <1>1, <2>1, <3>2
    <3> QED
      BY <1>3, <1>4, <2>1, <2>2, <3>3 DEF WindowInv, UpdatesReachAll
  <2> QED
    BY <2>3, <2>4
<1> QED
  BY <1>5, <1>6, <1>7, ListAndData

(* "propagate update to the other servers" (C2S_Put): the last Put is at   *)
(* every lock server, whoever made it and whichever servers have joined    *)
(* since, as long as no server serves a Put between its Join and the end   *)
(* of its AddServers.                                                      *)
THEOREM PutsReachLockServers == Spec /\ NoPutWhileAdding => []UpdatesReachAll
<1>1. Init => WindowInv
  BY DEF Init, WindowInv, UpdatesReachAll
<1>2. /\ IInv /\ IInv' /\ WindowInv /\ [Next]_vars
      /\ [\A s \in Servers : Put(s) => state[s] # "adding"]_vars
      => WindowInv'
  <2> SUFFICES ASSUME IInv, IInv', WindowInv, [Next]_vars,
                      [\A s \in Servers : Put(s) => state[s] # "adding"]_vars
               PROVE  WindowInv'
    OBVIOUS
  <2>1. CASE UNCHANGED vars
    BY <2>1 DEF vars, serverVars, masterVars, dataVars, WindowInv, UpdatesReachAll
  <2> QED
    BY <2>1, StepKeepsWindow
<1>3. WindowInv => UpdatesReachAll
  BY DEF WindowInv
<1> QED
  BY <1>1, <1>2, <1>3, Invariance, PTL DEF Spec, NoPutWhileAdding
=============================================================================
