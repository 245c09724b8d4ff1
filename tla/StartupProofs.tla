---------------------------- MODULE StartupProofs ----------------------------
(***************************************************************************)
(* What holds on any number of hosts, for any replacements of the trigger  *)
(* files and any runs of the agent client: the table of a launcher that    *)
(* waits is what the kernel watches, and a restart leaves no server with a *)
(* master of before.                                                       *)
(***************************************************************************)
EXTENDS Startup, TLAPS, WellFoundedInduction

HostInv(h) == doing[h] # "exited" => DescriptorsInv(h) /\ TableInv(h)

(* A step of one host's files and launcher leaves the others as they are.  *)
SameHost(h) ==
  /\ inode'[h] = inode[h] /\ last_wd'[h] = last_wd[h] /\ queue'[h] = queue[h]
  /\ wds'[h] = wds[h] /\ doing'[h] = doing[h]
  /\ event'[h] = event[h] /\ old_wds'[h] = old_wds[h]

LEMMA SameHostKeepsInv ==
  ASSUME NEW h, SameHost(h), HostInv(h)
  PROVE  HostInv(h)'
<1> USE DEF SameHost
<1>1. /\ \A d : Live(h, d)' <=> Live(h, d)
      /\ \A d : Named(h, d)' <=> Named(h, d)
      /\ \A f : ToReset(h, f)' <=> ToReset(h, f)
      /\ \A d : Queues(h, d)' <=> Queues(h, d)
  BY DEF Live, Named, ToReset, Queues
<1>2. /\ \A d : Ignored(h, d)' <=> Ignored(h, d)
      /\ AnyIgnored(h)' <=> AnyIgnored(h)
  BY <1>1 DEF Ignored, AnyIgnored
<1>3. DescriptorsInv(h) => DescriptorsInv(h)'
  <2> SUFFICES ASSUME DescriptorsInv(h) PROVE DescriptorsInv(h)'
    OBVIOUS
  <2>1. ASSUME NEW i \in DOMAIN queue'[h]
        PROVE  /\ queue'[h][i].wd \in 1 .. last_wd'[h]
               /\ queue'[h][i].ignored => ~Live(h, queue[h][i].wd)'
               /\ \/ Live(h, queue[h][i].wd)'
                  \/ \E j \in DOMAIN queue'[h] :
                       j >= i /\ queue'[h][j] = Event(queue'[h][i].wd, TRUE)
    <3>1. i \in DOMAIN queue[h]
      OBVIOUS
    <3>2. /\ queue[h][i].wd \in 1 .. last_wd[h]
          /\ queue[h][i].ignored => ~Live(h, queue[h][i].wd)
          /\ \/ Live(h, queue[h][i].wd)
             \/ \E j \in DOMAIN queue[h] :
                  j >= i /\ queue[h][j] = Event(queue[h][i].wd, TRUE)
      BY <3>1 DEF DescriptorsInv
    <3>3. Live(h, queue[h][i].wd)' <=> Live(h, queue[h][i].wd)
      <4>1. queue'[h][i].wd = queue[h][i].wd
        OBVIOUS
      <4> QED
        BY <4>1 DEF Live
    <3> QED
      BY <3>2, <3>3
  <2>2. ASSUME NEW f \in Files
        PROVE  /\ inode'[h][f].wd <= last_wd'[h]
               /\ inode'[h][f].is = "missing" => inode'[h][f].wd = 0
               /\ \A g \in Files : inode'[h][f].wd = inode'[h][g].wd /\ f # g
                                     => inode'[h][f].wd = 0
    BY DEF DescriptorsInv
  <2> QED
    BY <1>1, <2>1, <2>2 DEF DescriptorsInv
<1>4. TableInv(h) => TableInv(h)'
  BY <1>1, <1>2 DEF TableInv
<1> QED
  BY <1>3, <1>4 DEF HostInv

LEMMA TriggerFiles ==
  /\ Files = {"agent", "master", "server", "client", "regen-fileset"}
  /\ NoName \notin Files
  /\ DOMAIN Triggers = 1 .. 5 /\ Len(Triggers) = 5
  /\ Triggers[1] = "agent" /\ Triggers[2] = "master" /\ Triggers[3] = "server"
  /\ Triggers[4] = "client" /\ Triggers[5] = "regen-fileset"
<1>1. /\ DOMAIN Triggers = 1 .. 5 /\ Len(Triggers) = 5
      /\ Triggers[1] = "agent" /\ Triggers[2] = "master" /\ Triggers[3] = "server"
      /\ Triggers[4] = "client" /\ Triggers[5] = "regen-fileset"
  BY DEF Triggers
<1>2. DOMAIN Triggers = {1, 2, 3, 4, 5}
  BY <1>1
<1>3. Files = {Triggers[1], Triggers[2], Triggers[3], Triggers[4], Triggers[5]}
  BY <1>2 DEF Files
<1>4. Files = {"agent", "master", "server", "client", "regen-fileset"}
  BY <1>1, <1>3
<1>5. NoName \notin Files
  BY <1>4 DEF NoName
<1> QED
  BY <1>1, <1>4, <1>5

LEMMA NothingQueued ==
  <<>> \in Seq([wd : Nat, ignored : BOOLEAN]) /\ DOMAIN <<>> = {}
OBVIOUS

LEMMA LauncherInitInv ==
  ASSUME LauncherInit
  PROVE  WatchesInv
<1>1. \A f \in Files : \E i \in 1 .. 5 : Triggers[i] = f
  BY TriggerFiles
<1>2. \A i, j \in 1 .. 5 : Triggers[i] = Triggers[j] => i = j
  BY TriggerFiles
<1> DEFINE Wd(f) == CHOOSE i \in DOMAIN Triggers : Triggers[i] = f
<1>3. ASSUME NEW f \in Files
      PROVE  Wd(f) \in 1 .. 5 /\ Triggers[Wd(f)] = f
  BY <1>1, TriggerFiles
<1>4. /\ \A h \in Hosts : \A f \in Files :
            inode[h][f].is = "closed" /\ inode[h][f].wd = Wd(f)
      /\ inode \in [Hosts -> [Files -> [is : {"closed", "open", "missing"}, wd : Nat]]]
  <2>1. \A h \in Hosts : inode[h] = [f \in Files |-> [is |-> "closed", wd |-> Wd(f)]]
    BY DEF LauncherInit
  <2>2. ASSUME NEW f \in Files
        PROVE  Wd(f) \in Nat
    <3>1. Wd(f) \in 1 .. 5
      BY <1>3
    <3> HIDE DEF Wd
    <3> QED
      BY <3>1
  <2>3. DOMAIN inode = Hosts /\ inode = [h \in Hosts |-> inode[h]]
    BY DEF LauncherInit
  <2> HIDE DEF Wd
  <2> QED
    BY <2>1, <2>2, <2>3
<1> HIDE DEF Wd
<1>5. LauncherType
  <2>1. <<>> \in Seq([wd : Nat, ignored : BOOLEAN]) /\ DOMAIN <<>> = {}
    BY NothingQueued
  <2>2. queue \in [Hosts -> Seq([wd : Nat, ignored : BOOLEAN])]
    BY <2>1 DEF LauncherInit
  <2>3. last_wd \in [Hosts -> Nat] /\ event \in [Hosts -> [wd : Nat, ignored : BOOLEAN]]
    BY TriggerFiles DEF LauncherInit, Event
  <2>4. \A h \in Hosts : wds[h] = Triggers /\ old_wds[h] = <<>>
    BY DEF LauncherInit
  <2>5. ASSUME NEW h \in Hosts
        PROVE  DOMAIN wds[h] \subseteq Nat /\ DOMAIN old_wds[h] \subseteq Nat
    <3>1. DOMAIN wds[h] = 1 .. 5 /\ DOMAIN old_wds[h] = {}
      BY <2>1, <2>4, TriggerFiles
    <3> QED
      BY <3>1
  <2> QED
    BY <1>4, <2>2, <2>3, <2>5 DEF LauncherType, LauncherInit
<1>6. ASSUME NEW h \in Hosts
      PROVE  DescriptorsInv(h)
  <2>1. last_wd[h] = 5 /\ queue[h] = <<>>
    BY TriggerFiles DEF LauncherInit
  <2>2. DOMAIN queue[h] = {}
    BY <2>1, NothingQueued
  <2> QED
    BY <1>3, <1>4, <2>1, <2>2 DEF DescriptorsInv
<1>7. ASSUME NEW h \in Hosts
      PROVE  TableInv(h)
  <2>1. wds[h] = Triggers /\ last_wd[h] = 5 /\ doing[h] = "select"
    BY TriggerFiles DEF LauncherInit
  <2>2. \A d \in 1 .. 5 : wds[h][d] \in Files
    BY <2>1, TriggerFiles
  <2>3. \A d \in DOMAIN wds[h] : Named(h, d)
    BY <1>2, <1>3, <1>4, <2>1, <2>2, TriggerFiles DEF Named
  <2>4. \A f \in Files : inode[h][f].wd \in DOMAIN wds[h] /\ wds[h][inode[h][f].wd] = f
    BY <1>3, <1>4, <2>1, TriggerFiles
  <2>5. DOMAIN wds[h] = 1 .. last_wd[h]
    BY <2>1, TriggerFiles
  <2> QED
    BY <2>3, <2>4, <2>5 DEF TableInv
<1> QED
  BY <1>5, <1>6, <1>7 DEF WatchesInv
-----------------------------------------------------------------------------
Entry == [wd : Nat, ignored : BOOLEAN]

LEMMA SeqDomain ==
  ASSUME NEW E, NEW q \in Seq(E)
  PROVE  DOMAIN q = 1 .. Len(q) /\ Len(q) \in Nat /\ DOMAIN q \subseteq Nat
OBVIOUS

LEMMA Appended ==
  ASSUME NEW E, NEW q \in Seq(E), NEW e \in E
  PROVE  /\ Append(q, e) \in Seq(E)
         /\ DOMAIN q = 1 .. Len(q) /\ Len(q) \in Nat
         /\ DOMAIN Append(q, e) = 1 .. Len(q) + 1
         /\ \A i \in 1 .. Len(q) : Append(q, e)[i] = q[i]
         /\ Append(q, e)[Len(q) + 1] = e
OBVIOUS

LEMMA HeadAndTail ==
  ASSUME NEW E, NEW q \in Seq(E), q # <<>>
  PROVE  /\ Tail(q) \in Seq(E) /\ Head(q) = q[1] /\ Head(q) \in E
         /\ DOMAIN q = 1 .. Len(q) /\ Len(q) \in Nat \ {0}
         /\ DOMAIN Tail(q) = 1 .. Len(q) - 1
         /\ \A i \in 1 .. Len(q) - 1 : Tail(q)[i] = q[i + 1]
OBVIOUS

(* An event is put at the end of a host's queue, if it is not there.       *)
LEMMA Notified ==
  ASSUME LauncherType, NEW h \in Hosts, NEW e \in Entry, Notify(h, e)
  PROVE  /\ queue' \in [Hosts -> Seq(Entry)]
         /\ \A k \in Hosts \ {h} : queue'[k] = queue[k]
         /\ DOMAIN queue[h] \subseteq DOMAIN queue'[h] /\ DOMAIN queue[h] \subseteq Nat
         /\ \A i \in DOMAIN queue[h] : queue'[h][i] = queue[h][i]
         /\ \A i \in DOMAIN queue'[h] :
              i \in DOMAIN queue[h] \/ (e.wd # 0 /\ queue'[h][i] = e)
         /\ e.wd # 0 => \E i \in DOMAIN queue'[h] :
              queue'[h][i] = e /\ \A j \in DOMAIN queue[h] : j <= i
<1>0. /\ queue \in [Hosts -> Seq(Entry)] /\ queue[h] \in Seq(Entry)
      /\ DOMAIN queue[h] = 1 .. Len(queue[h]) /\ Len(queue[h]) \in Nat
  BY DEF LauncherType, Entry
<1>1. /\ queue'[h] = Queued(h, e)
      /\ \A k \in Hosts \ {h} : queue'[k] = queue[k]
      /\ Queued(h, e) \in Seq(Entry) => queue' \in [Hosts -> Seq(Entry)]
  BY <1>0 DEF Notify
<1>2. CASE e.wd = 0
  BY <1>0, <1>1, <1>2 DEF Queued
<1>3. CASE e.wd # 0 /\ queue[h] # <<>> /\ queue[h][Len(queue[h])] = e
  <2>1. Len(queue[h]) \in DOMAIN queue[h] /\ Queued(h, e) = queue[h]
    BY <1>0, <1>3 DEF Queued
  <2>2. \A j \in DOMAIN queue[h] : j <= Len(queue[h])
    BY <1>0
  <2> QED
    BY <1>0, <1>1, <1>3, <2>1, <2>2
<1>4. CASE e.wd # 0 /\ ~(queue[h] # <<>> /\ queue[h][Len(queue[h])] = e)
  <2> DEFINE n == Len(queue[h])
  <2>1. Queued(h, e) = Append(queue[h], e)
    BY <1>4 DEF Queued
  <2>2. /\ Append(queue[h], e) \in Seq(Entry)
        /\ DOMAIN queue'[h] = 1 .. n + 1
        /\ \A i \in 1 .. n : queue'[h][i] = queue[h][i]
        /\ queue'[h][n + 1] = e
    BY <1>0, <1>1, <2>1, Appended
  <2>3. \A i \in 1 .. n + 1 : i \in 1 .. n \/ i = n + 1
    BY <1>0
  <2>4. n + 1 \in 1 .. n + 1 /\ \A j \in 1 .. n : j <= n + 1 /\ j \in 1 .. n + 1
    BY <1>0
  <2> HIDE DEF n
  <2>5. DOMAIN queue[h] = 1 .. n
    BY <1>0 DEF n
  <2> QED
    BY <1>0, <1>1, <1>4, <2>1, <2>2, <2>3, <2>4, <2>5
<1> QED
  BY <1>2, <1>3, <1>4
-----------------------------------------------------------------------------
(* A file is touched or closed, or created, which nobody is told of: its   *)
(* watch and the launcher's table are as before.                           *)
LEMMA WriteKeepsInv ==
  ASSUME LauncherType, NEW h \in Hosts, NEW f \in Files, HostInv(h),
         Notify(h, Event(inode[h][f].wd, FALSE)) \/ UNCHANGED queue,
         \A g \in Files : /\ inode'[h][g].wd = inode[h][g].wd
                          /\ inode'[h][g].is = "missing" => inode[h][g].is = "missing",
         last_wd'[h] = last_wd[h], UNCHANGED watcherVars
  PROVE  HostInv(h)'
<1> SUFFICES ASSUME doing[h] # "exited"
             PROVE  DescriptorsInv(h)' /\ TableInv(h)'
  BY DEF HostInv, watcherVars
<1> USE DEF watcherVars
<1>0. DescriptorsInv(h) /\ TableInv(h)
  BY DEF HostInv
<1> DEFINE e == Event(inode[h][f].wd, FALSE)
<1>1. /\ e \in Entry /\ e.wd = inode[h][f].wd /\ e.ignored = FALSE
      /\ inode[h][f].wd \in Nat /\ last_wd[h] \in Nat
  BY DEF LauncherType, Event, Entry
<1>2. /\ DOMAIN queue[h] \subseteq DOMAIN queue'[h]
      /\ \A i \in DOMAIN queue[h] : queue'[h][i] = queue[h][i]
      /\ \A i \in DOMAIN queue'[h] :
           i \in DOMAIN queue[h] \/ (e.wd # 0 /\ queue'[h][i] = e)
  BY <1>1, Notified
<1> HIDE DEF e
<1>3. /\ \A d : Live(h, d)' <=> Live(h, d)
      /\ \A d : Named(h, d)' <=> Named(h, d)
      /\ \A g : ToReset(h, g)' <=> ToReset(h, g)
      /\ \A d : Ignored(h, d) => Ignored(h, d)'
      /\ AnyIgnored(h) => AnyIgnored(h)'
  BY <1>2 DEF Live, Named, ToReset, Ignored, Queues, AnyIgnored
<1>4. DescriptorsInv(h)'
  <2>1. ASSUME NEW g \in Files
        PROVE  /\ inode'[h][g].wd <= last_wd'[h]
               /\ inode'[h][g].is = "missing" => inode'[h][g].wd = 0
               /\ \A k \in Files : inode'[h][g].wd = inode'[h][k].wd /\ g # k
                                     => inode'[h][g].wd = 0
    BY <1>0 DEF DescriptorsInv
  <2>2. ASSUME NEW i \in DOMAIN queue'[h]
        PROVE  /\ queue'[h][i].wd \in 1 .. last_wd'[h]
               /\ queue'[h][i].ignored => ~Live(h, queue[h][i].wd)'
               /\ \/ Live(h, queue[h][i].wd)'
                  \/ \E j \in DOMAIN queue'[h] :
                       j >= i /\ queue'[h][j] = Event(queue'[h][i].wd, TRUE)
    <3>1. CASE i \in DOMAIN queue[h]
      <4>1. queue'[h][i] = queue[h][i]
        BY <1>2, <3>1
      <4>2. /\ queue[h][i].wd \in 1 .. last_wd[h]
            /\ queue[h][i].ignored => ~Live(h, queue[h][i].wd)
            /\ \/ Live(h, queue[h][i].wd)
               \/ \E j \in DOMAIN queue[h] :
                    j >= i /\ queue[h][j] = Event(queue[h][i].wd, TRUE)
        BY <1>0, <3>1 DEF DescriptorsInv
      <4>3. Live(h, queue[h][i].wd)' <=> Live(h, queue[h][i].wd)
        BY <4>1 DEF Live
      <4> QED
        BY <1>2, <4>1, <4>2, <4>3
    <3>2. CASE e.wd # 0 /\ queue'[h][i] = e
      <4>1. Live(h, queue[h][i].wd)'
        BY <1>1, <3>2 DEF Live
      <4>2. inode[h][f].wd <= last_wd[h]
        BY <1>0 DEF DescriptorsInv
      <4>3. queue'[h][i].wd = e.wd /\ queue'[h][i].ignored = FALSE
        BY <1>1, <3>2
      <4>4. e.wd \in 1 .. last_wd'[h]
        BY <1>1, <3>2, <4>2
      <4> QED
        BY <4>1, <4>3, <4>4
    <3> QED
      BY <1>2, <3>1, <3>2
  <2> QED
    BY <2>1, <2>2 DEF DescriptorsInv
<1>5. TableInv(h)'
  BY <1>0, <1>3 DEF TableInv
<1> QED
  BY <1>4, <1>5

(* What the invariant says of one event and of one entry or file. *)
LEMMA EventFacts ==
  ASSUME NEW h, DescriptorsInv(h), NEW i \in DOMAIN queue[h]
  PROVE  /\ queue[h][i].wd \in 1 .. last_wd[h]
         /\ queue[h][i].ignored => ~Live(h, queue[h][i].wd)
         /\ \/ Live(h, queue[h][i].wd)
            \/ \E j \in DOMAIN queue[h] :
                 j >= i /\ queue[h][j] = Event(queue[h][i].wd, TRUE)
BY DEF DescriptorsInv

LEMMA FileFacts ==
  ASSUME NEW h, NEW f \in Files
  PROVE  /\ DescriptorsInv(h) =>
              /\ inode[h][f].wd <= last_wd[h]
              /\ inode[h][f].is = "missing" => inode[h][f].wd = 0
              /\ \A g \in Files : inode[h][f].wd = inode[h][g].wd /\ f # g
                                    => inode[h][f].wd = 0
         /\ TableInv(h) =>
              /\ \/ ToReset(h, f)
                 \/ inode[h][f].wd = 0 /\ AnyIgnored(h)
                 \/ inode[h][f].wd \in DOMAIN wds[h] /\ wds[h][inode[h][f].wd] = f
              /\ ToReset(h, f) \/ \E d \in DOMAIN wds[h] : wds[h][d] = f
BY DEF DescriptorsInv, TableInv

(* A file is removed, and its watch with it, which the queue then tells.   *)
LEMMA RemoveKeepsInv ==
  ASSUME LauncherType, NEW h \in Hosts, NEW f \in Files, HostInv(h), Remove(h, f)
  PROVE  HostInv(h)'
<1> USE DEF watcherVars
<1> SUFFICES ASSUME doing[h] # "exited"
             PROVE  DescriptorsInv(h)' /\ TableInv(h)'
  BY DEF HostInv, Remove
<1>0. DescriptorsInv(h) /\ TableInv(h)
  BY DEF HostInv
<1>6. PICK w : w = inode[h][f].wd
  OBVIOUS
<1>4. PICK e : e = Event(w, TRUE)
  OBVIOUS
<1>1. /\ e \in Entry /\ e.wd = w /\ e.ignored = TRUE
      /\ w \in Nat /\ last_wd[h] \in Nat /\ w <= last_wd[h]
  BY <1>0, <1>4, <1>6, FileFacts DEF LauncherType, Event, Entry
<1>2. /\ DOMAIN queue[h] \subseteq DOMAIN queue'[h] /\ DOMAIN queue[h] \subseteq Nat
      /\ \A i \in DOMAIN queue[h] : queue'[h][i] = queue[h][i]
      /\ \A i \in DOMAIN queue'[h] :
           i \in DOMAIN queue[h] \/ (w # 0 /\ queue'[h][i] = e)
      /\ w # 0 => \E i \in DOMAIN queue'[h] :
           queue'[h][i] = e /\ \A j \in DOMAIN queue[h] : j <= i
  <2>1. Notify(h, e)
    BY <1>4, <1>6 DEF Remove
  <2> QED
    BY <1>1, <2>1, Notified
<1>3. /\ inode'[h][f].wd = 0 /\ inode'[h][f].is = "missing"
      /\ \A g \in Files \ {f} : inode'[h][g] = inode[h][g]
      /\ last_wd' = last_wd /\ wds' = wds /\ doing' = doing
      /\ event' = event /\ old_wds' = old_wds
  BY DEF Remove, LauncherType
<1>7. /\ \A d : d # 0 /\ Live(h, d) /\ ~(Live(h, d)') => d = w
      /\ \A d : d # 0 /\ Live(h, d)' => Live(h, d) /\ d # w
      /\ \A d : d # 0 /\ Named(h, d) /\ ~(Named(h, d)') => d = w
  <2>1. \A g \in Files : w = inode[h][g].wd /\ f # g => w = 0
    BY <1>0, <1>6, FileFacts
  <2>2. ASSUME NEW d, d # 0, Live(h, d), ~(Live(h, d)')
        PROVE  d = w
    BY <1>3, <1>6, <2>2 DEF Live
  <2>3. ASSUME NEW d, d # 0, Live(h, d)'
        PROVE  Live(h, d) /\ d # w
    BY <1>3, <1>6, <2>1, <2>3 DEF Live
  <2>4. ASSUME NEW d, d # 0, Named(h, d), ~(Named(h, d)')
        PROVE  d = w
    BY <1>3, <1>6, <2>4 DEF Named
  <2> QED
    BY <2>2, <2>3, <2>4
<1>8. /\ \A g : ToReset(h, g)' <=> ToReset(h, g)
      /\ \A d : Ignored(h, d) => Ignored(h, d)'
      /\ AnyIgnored(h) => AnyIgnored(h)'
      /\ w # 0 => Ignored(h, w)' /\ AnyIgnored(h)'
  <2>1. \A g : ToReset(h, g)' <=> ToReset(h, g)
    BY <1>3 DEF ToReset
  <2>2. \A d : Ignored(h, d) => Ignored(h, d)'
    BY <1>2, <1>3 DEF Ignored, Queues
  <2>3. AnyIgnored(h) => AnyIgnored(h)'
    BY <1>2, <1>3 DEF AnyIgnored
  <2>4. ASSUME w # 0
        PROVE  Ignored(h, w)' /\ AnyIgnored(h)'
    BY <1>1, <1>2, <1>4, <2>4 DEF Ignored, Queues, AnyIgnored
  <2> QED
    BY <2>1, <2>2, <2>3, <2>4
<1>9. DescriptorsInv(h)'
  <2>1. ASSUME NEW g \in Files
        PROVE  /\ inode'[h][g].wd <= last_wd'[h]
               /\ inode'[h][g].is = "missing" => inode'[h][g].wd = 0
               /\ \A k \in Files : inode'[h][g].wd = inode'[h][k].wd /\ g # k
                                     => inode'[h][g].wd = 0
    BY <1>0, <1>1, <1>3, FileFacts
  <2>2. ASSUME NEW i \in DOMAIN queue'[h]
        PROVE  /\ queue'[h][i].wd \in 1 .. last_wd'[h]
               /\ queue'[h][i].ignored => ~Live(h, queue[h][i].wd)'
               /\ \/ Live(h, queue[h][i].wd)'
                  \/ \E j \in DOMAIN queue'[h] :
                       j >= i /\ queue'[h][j] = Event(queue'[h][i].wd, TRUE)
    <3>1. CASE i \in DOMAIN queue[h]
      <4>1. queue'[h][i] = queue[h][i]
        BY <1>2, <3>1
      <4>2. /\ queue[h][i].wd \in 1 .. last_wd[h]
            /\ queue[h][i].ignored => ~Live(h, queue[h][i].wd)
            /\ \/ Live(h, queue[h][i].wd)
               \/ \E j \in DOMAIN queue[h] :
                    j >= i /\ queue[h][j] = Event(queue[h][i].wd, TRUE)
        BY <1>0, <3>1, EventFacts
      <4>3. queue[h][i].wd # 0 /\ queue'[h][i].wd = queue[h][i].wd
        BY <1>1, <4>1, <4>2
      <4>4. Live(h, queue[h][i].wd)' => Live(h, queue[h][i].wd)
        BY <1>3, <4>3 DEF Live
      <4>5. CASE Live(h, queue[h][i].wd) /\ ~(Live(h, queue[h][i].wd)')
        <5>1. queue[h][i].wd = w
          <6>1. ASSUME NEW g \in Files, inode[h][g].wd = queue[h][i].wd
                PROVE  g = f
            BY <1>3, <4>3, <4>5, <6>1 DEF Live
          <6> QED
            BY <1>6, <4>5, <6>1 DEF Live
        <5>2. \E j \in DOMAIN queue'[h] : queue'[h][j] = e /\ j >= i
          BY <1>2, <3>1, <4>3, <5>1
        <5> QED
          BY <1>3, <1>4, <4>1, <4>2, <4>4, <4>5, <5>1, <5>2
      <4> QED
        BY <1>2, <1>3, <4>1, <4>2, <4>4, <4>5
    <3>2. CASE w # 0 /\ queue'[h][i] = e /\ i \notin DOMAIN queue[h]
      <4>1. queue'[h][i].wd = w /\ queue'[h][i].ignored = TRUE
        BY <1>1, <3>2
      <4>2. ~Live(h, queue[h][i].wd)'
        <5>1. ~ \E g \in Files : inode'[h][g].wd = w
          BY <1>7, <3>2 DEF Live
        <5> QED
          BY <4>1, <5>1 DEF Live
      <4>3. i >= i
        <5>1. i \in Nat
          <6>1. queue'[h] \in Seq(Entry)
            <7>1. Notify(h, e)
              BY <1>4, <1>6 DEF Remove
            <7> QED
              BY <1>1, <7>1, Notified
          <6> QED
            BY <6>1, SeqDomain
        <5> QED
          BY <5>1
      <4>4. w \in 1 .. last_wd'[h]
        BY <1>1, <1>3, <3>2
      <4> QED
        BY <1>4, <3>2, <4>1, <4>2, <4>3, <4>4
    <3> QED
      BY <1>2, <3>1, <3>2
  <2> QED
    BY <2>1, <2>2 DEF DescriptorsInv
<1>10. TableInv(h)'
  <2>1. DOMAIN wds'[h] \subseteq 1 .. last_wd'[h]
    BY <1>0, <1>3 DEF TableInv
  <2>2. ASSUME NEW d \in DOMAIN wds'[h]
        PROVE  Named(h, d)' \/ Ignored(h, d)'
    <3>1. d # 0 /\ (Named(h, d) \/ Ignored(h, d))
      BY <1>0, <1>1, <1>3 DEF TableInv
    <3> QED
      BY <1>7, <1>8, <3>1
  <2>3. ASSUME NEW g \in Files
        PROVE  /\ \/ ToReset(h, g)'
                  \/ inode'[h][g].wd = 0 /\ AnyIgnored(h)'
                  \/ inode'[h][g].wd \in DOMAIN wds'[h] /\ wds'[h][inode'[h][g].wd] = g
               /\ ToReset(h, g)' \/ \E d \in DOMAIN wds'[h] : wds'[h][d] = g
    <3>1. /\ \/ ToReset(h, g)
             \/ inode[h][g].wd = 0 /\ AnyIgnored(h)
             \/ inode[h][g].wd \in DOMAIN wds[h] /\ wds[h][inode[h][g].wd] = g
          /\ ToReset(h, g) \/ \E d \in DOMAIN wds[h] : wds[h][d] = g
      BY <1>0, FileFacts
    <3>2. 0 \notin DOMAIN wds[h]
      BY <1>0, <1>1 DEF TableInv
    <3>3. CASE g = f
      BY <1>3, <1>6, <1>8, <3>1, <3>2, <3>3
    <3>4. CASE g # f
      BY <1>3, <1>8, <3>1, <3>4
    <3> QED
      BY <3>3, <3>4
  <2> QED
    BY <2>1, <2>2, <2>3 DEF TableInv
<1> QED
  BY <1>9, <1>10
-----------------------------------------------------------------------------
(* An event is read: its descriptor gets an entry, if it had none.         *)
LEMMA ReadKeepsInv ==
  ASSUME LauncherType, NEW h \in Hosts, HostInv(h), ReadEvent(h)
  PROVE  HostInv(h)'
<1>0. DescriptorsInv(h) /\ TableInv(h)
  BY DEF HostInv, ReadEvent
<1>1. PICK n, e, t : n = Len(queue[h]) /\ e = Head(queue[h]) /\ t = wds[h]
  OBVIOUS
<1>2. /\ n \in Nat \ {0} /\ DOMAIN queue[h] = 1 .. n /\ queue[h][1] = e
      /\ DOMAIN queue'[h] = 1 .. n - 1
      /\ \A i \in 1 .. n - 1 : queue'[h][i] = queue[h][i + 1]
  <2>1. queue[h] \in Seq(Entry) /\ queue[h] # <<>> /\ queue'[h] = Tail(queue[h])
    BY DEF LauncherType, ReadEvent, Entry
  <2> QED
    BY <1>1, <2>1, HeadAndTail
<1>3. /\ inode' = inode /\ last_wd' = last_wd /\ old_wds' = old_wds
      /\ doing[h] = "select" /\ doing'[h] = "system" /\ event'[h] = e
      /\ wds'[h] = Entered(t, e.wd, NameOf(h, e.wd))
  BY <1>1 DEF ReadEvent, LauncherType
<1>4. /\ last_wd[h] \in Nat /\ e.wd \in 1 .. last_wd[h]
      /\ e.ignored => ~Live(h, e.wd)
      /\ \/ Live(h, e.wd)
         \/ \E j \in 1 .. n : queue[h][j] = Event(e.wd, TRUE)
  <2>1. 1 \in DOMAIN queue[h]
    BY <1>2
  <2> QED
    BY <1>0, <1>2, <2>1, EventFacts DEF LauncherType
<1>5. /\ DOMAIN wds'[h] = DOMAIN t \cup {e.wd}
      /\ \A d \in DOMAIN t : wds'[h][d] = t[d]
  BY <1>3, <1>1 DEF Entered, NameOf
<1>6. /\ \A d : Live(h, d)' <=> Live(h, d)
      /\ \A d \in DOMAIN t : Named(h, d) => Named(h, d)'
      /\ \A f : ~ToReset(h, f) /\ ~(ToReset(h, f)')
  BY <1>1, <1>3, <1>5 DEF Live, Named, ToReset
<1>7. \A j \in 1 .. n : j = 1 \/ (j - 1 \in 1 .. n - 1 /\ queue'[h][j - 1] = queue[h][j])
  BY <1>2
<1>8. ASSUME NEW d, NEW j \in 1 .. n, queue[h][j] = Event(d, TRUE)
      PROVE  Ignored(h, d)'
  BY <1>2, <1>3, <1>7, <1>8 DEF Ignored, Queues
<1>9. AnyIgnored(h) => AnyIgnored(h)'
  BY <1>2, <1>3, <1>7 DEF AnyIgnored
<1>10. DescriptorsInv(h)'
  <2>1. ASSUME NEW f \in Files
        PROVE  /\ inode'[h][f].wd <= last_wd'[h]
               /\ inode'[h][f].is = "missing" => inode'[h][f].wd = 0
               /\ \A g \in Files : inode'[h][f].wd = inode'[h][g].wd /\ f # g
                                     => inode'[h][f].wd = 0
    BY <1>0, <1>3, FileFacts
  <2>2. ASSUME NEW i \in DOMAIN queue'[h]
        PROVE  /\ queue'[h][i].wd \in 1 .. last_wd'[h]
               /\ queue'[h][i].ignored => ~Live(h, queue[h][i].wd)'
               /\ \/ Live(h, queue[h][i].wd)'
                  \/ \E j \in DOMAIN queue'[h] :
                       j >= i /\ queue'[h][j] = Event(queue'[h][i].wd, TRUE)
    <3>1. i \in 1 .. n - 1 /\ i + 1 \in 1 .. n /\ queue'[h][i] = queue[h][i + 1]
      BY <1>2
    <3>2. PICK d : d = queue[h][i + 1].wd
      OBVIOUS
    <3>3. /\ d \in 1 .. last_wd[h]
          /\ queue[h][i + 1].ignored => ~Live(h, d)
          /\ \/ Live(h, d)
             \/ \E j \in 1 .. n : j >= i + 1 /\ queue[h][j] = Event(d, TRUE)
      BY <1>0, <1>2, <3>1, <3>2, EventFacts
    <3>4. Live(h, queue[h][i].wd)' <=> Live(h, d)
      BY <1>3, <3>1, <3>2 DEF Live
    <3>5. ASSUME NEW j \in 1 .. n, j >= i + 1, queue[h][j] = Event(d, TRUE)
          PROVE  \E k \in DOMAIN queue'[h] : k >= i /\ queue'[h][k] = Event(d, TRUE)
      <4>1. /\ j - 1 \in 1 .. n - 1 /\ j - 1 >= i
            /\ queue'[h][j - 1] = queue[h][j]
        <5>1. j # 1 /\ j - 1 >= i
          BY <1>2, <3>1, <3>5
        <5> QED
          BY <1>7, <5>1
      <4> QED
        BY <1>2, <3>5, <4>1
    <3> QED
      BY <1>3, <3>1, <3>2, <3>3, <3>4, <3>5
  <2> QED
    BY <2>1, <2>2 DEF DescriptorsInv
<1>11. TableInv(h)'
  <2>1. DOMAIN wds'[h] \subseteq 1 .. last_wd'[h]
    BY <1>0, <1>1, <1>3, <1>4, <1>5 DEF TableInv
  <2>2. ASSUME NEW d \in DOMAIN wds'[h]
        PROVE  Named(h, d)' \/ Ignored(h, d)'
    <3>1. CASE d \in DOMAIN t
      <4>1. Named(h, d) \/ Ignored(h, d)
        BY <1>0, <1>1, <3>1 DEF TableInv
      <4>2. Ignored(h, d) => \E j \in 1 .. n : queue[h][j] = Event(d, TRUE)
        BY <1>2, <1>3 DEF Ignored, Queues
      <4> QED
        BY <1>6, <1>8, <3>1, <4>1, <4>2
    <3>2. CASE d \notin DOMAIN t
      <4>1. d = e.wd
        BY <1>5, <3>2
      <4>2. ~Live(h, d)
        <5> SUFFICES ASSUME NEW f \in Files, inode[h][f].wd = d
                     PROVE  FALSE
          BY DEF Live
        <5>1. d # 0
          BY <1>4, <4>1
        <5> QED
          BY <1>0, <1>1, <1>6, <3>2, <5>1, FileFacts
      <4> QED
        BY <1>4, <1>8, <4>1, <4>2
    <3> QED
      BY <3>1, <3>2
  <2>3. ASSUME NEW f \in Files
        PROVE  /\ \/ ToReset(h, f)'
                  \/ inode'[h][f].wd = 0 /\ AnyIgnored(h)'
                  \/ inode'[h][f].wd \in DOMAIN wds'[h] /\ wds'[h][inode'[h][f].wd] = f
               /\ ToReset(h, f)' \/ \E d \in DOMAIN wds'[h] : wds'[h][d] = f
    BY <1>0, <1>1, <1>3, <1>5, <1>6, <1>9, FileFacts
  <2> QED
    BY <2>1, <2>2, <2>3 DEF TableInv
<1> QED
  BY <1>10, <1>11 DEF HostInv

(* A command has run; if its event was an IN_IGNORED, every name of the    *)
(* table is to be watched anew.                                            *)
LEMMA ReturnKeepsInv ==
  ASSUME LauncherType, NEW h \in Hosts, HostInv(h), CommandReturns(h)
  PROVE  HostInv(h)'
<1>0. DescriptorsInv(h) /\ TableInv(h)
  BY DEF HostInv, CommandReturns
<1>1. /\ inode' = inode /\ last_wd' = last_wd /\ queue' = queue /\ event' = event
      /\ doing[h] = "system" /\ doing'[h] \in {"select", "reset"}
      /\ event[h].ignored =>
           doing'[h] = "reset" /\ old_wds'[h] = wds[h] /\ wds'[h] = <<>>
      /\ ~event[h].ignored =>
           doing'[h] = "select" /\ old_wds'[h] = old_wds[h] /\ wds'[h] = wds[h]
  BY DEF CommandReturns, fileVars, LauncherType
<1>2. /\ \A d : Live(h, d)' <=> Live(h, d)
      /\ \A d : Queues(h, d)' <=> Queues(h, d)
  BY <1>1 DEF Live, Queues
<1>3. DescriptorsInv(h)'
  <2>1. DescriptorsInv(h)' <=> DescriptorsInv(h)
    BY <1>1 DEF DescriptorsInv, Live
  <2> QED
    BY <1>0, <2>1
<1>4. CASE ~event[h].ignored
  <2>1. /\ \A d : Named(h, d) => Named(h, d)'
        /\ \A d : Ignored(h, d) => Ignored(h, d)'
        /\ AnyIgnored(h) => AnyIgnored(h)'
        /\ \A f : ~ToReset(h, f)
    BY <1>1, <1>2, <1>4 DEF Named, Ignored, AnyIgnored, ToReset, Event
  <2> QED
    BY <1>0, <1>1, <1>3, <1>4, <2>1 DEF HostInv, TableInv
<1>5. CASE event[h].ignored
  <2>1. DOMAIN wds'[h] = {}
    BY <1>1, <1>5, NothingQueued
  <2>2. ASSUME NEW f \in Files
        PROVE  ToReset(h, f)'
    <3>1. ~ToReset(h, f)
      BY <1>1 DEF ToReset
    <3>2. \E d \in DOMAIN wds[h] : wds[h][d] = f
      BY <1>0, <3>1, FileFacts
    <3> QED
      BY <1>1, <1>5, <3>2 DEF ToReset
  <2> QED
    BY <1>3, <2>1, <2>2 DEF HostInv, TableInv
<1> QED
  BY <1>4, <1>5

LEMMA LeastOfNaturals ==
  ASSUME NEW S, S \subseteq Nat, S # {}
  PROVE  \E d \in S : \A e \in S : d <= e
<1> DEFINE Less == {ss \in Nat \X Nat : ss[1] < ss[2]}
<1>1. OpToRel(<, Nat) = Less
  BY Zenon DEF OpToRel
<1>2. IsWellFoundedOn(Less, Nat)
  BY <1>1, NatLessThanWellFounded, Zenon
<1>3. \A e, d \in Nat : e < d => <<e, d>> \in Less
  OBVIOUS
<1> HIDE DEF Less
<1>4. \E d \in S : \A e \in S : <<e, d>> \notin Less
  BY <1>2, WFMin
<1>5. PICK d \in S : \A e \in S : <<e, d>> \notin Less
  BY <1>4
<1>6. ASSUME NEW e \in S
      PROVE  d <= e
  <2>1. e \in Nat /\ d \in Nat /\ ~(e < d)
    BY <1>3, <1>5
  <2> QED
    BY <2>1
<1> QED
  BY <1>6

(* The next file of a reset is the one of the lowest descriptor. *)
LEMMA NextDescriptor ==
  ASSUME NEW h, DOMAIN old_wds[h] \subseteq Nat, DOMAIN old_wds[h] # {}
  PROVE  Next_wd(h) \in DOMAIN old_wds[h]
BY LeastOfNaturals DEF Next_wd

(* A file is watched again: under the descriptor that it has, or under a   *)
(* new one, which is higher than all before.                               *)
LEMMA WatchKeepsInv ==
  ASSUME LauncherType, NEW h \in Hosts, HostInv(h), AddWatch(h)
  PROVE  HostInv(h)'
<1>0. DescriptorsInv(h) /\ TableInv(h)
  BY DEF HostInv, AddWatch
<1>1. PICK n, f, w, v, l, t :
        /\ n = Next_wd(h) /\ f = old_wds[h][n] /\ v = inode[h][f].wd /\ l = last_wd[h]
        /\ w = IF v # 0 THEN v ELSE l + 1
        /\ t = wds[h]
  OBVIOUS
<1>2. /\ n \in DOMAIN old_wds[h] /\ f \in Files /\ inode[h][f].is # "missing"
  <2>1. n \in DOMAIN old_wds[h]
    BY <1>1, NextDescriptor DEF AddWatch, LauncherType
  <2> QED
    BY <1>1, <2>1 DEF AddWatch, Present
<1>3. /\ \A g \in Files : inode[h][g].wd \in Nat /\ inode[h][g].wd <= l
      /\ l \in Nat /\ v \in Nat /\ v <= l /\ w \in Nat \ {0}
      /\ v = 0 => w = l + 1
      /\ v # 0 => w = v
  <2>1. l \in Nat /\ \A g \in Files : inode[h][g].wd \in Nat
    BY <1>1 DEF LauncherType
  <2>2. \A g \in Files : inode[h][g].wd <= l
    BY <1>0, <1>1, FileFacts
  <2> QED
    BY <1>1, <1>2, <2>1, <2>2
<1>4. /\ inode'[h][f].wd = w /\ inode'[h][f].is = inode[h][f].is
      /\ \A g \in Files \ {f} : inode'[h][g] = inode[h][g]
  BY <1>1, <1>2 DEF AddWatch, LauncherType
<1>5. /\ last_wd'[h] \in Nat /\ l <= last_wd'[h] /\ w <= last_wd'[h]
  <2>1. last_wd'[h] = IF w > l THEN w ELSE l
    BY <1>1 DEF AddWatch, LauncherType
  <2> QED
    BY <1>3, <2>1
<1>6. /\ wds'[h] = Entered(t, w, f) /\ old_wds'[h] = Without(old_wds[h], n)
      /\ queue' = queue /\ doing' = doing /\ event' = event /\ doing[h] = "reset"
  BY <1>1 DEF AddWatch, LauncherType
<1>7. /\ DOMAIN wds'[h] = DOMAIN t \cup {w} /\ wds'[h][w] = f
      /\ \A d \in DOMAIN t \ {w} : wds'[h][d] = t[d]
  BY <1>6 DEF Entered
<1>8. /\ \A d : Live(h, d) /\ d # 0 => Live(h, d)'
      /\ \A d : Live(h, d)' => Live(h, d) \/ d > l
      /\ \A d : Ignored(h, d)' <=> Ignored(h, d)
      /\ AnyIgnored(h) => AnyIgnored(h)'
  <2>1. ASSUME NEW d, Live(h, d), d # 0
        PROVE  Live(h, d)'
    BY <1>1, <1>2, <1>3, <1>4, <2>1 DEF Live
  <2>2. ASSUME NEW d, Live(h, d)'
        PROVE  Live(h, d) \/ d > l
    <3>1. PICK g \in Files : inode'[h][g].wd = d
      BY <2>2 DEF Live
    <3>2. CASE g = f
      BY <1>1, <1>2, <1>3, <1>4, <3>1, <3>2 DEF Live
    <3>3. CASE g # f
      BY <1>4, <3>1, <3>3 DEF Live
    <3> QED
      BY <3>2, <3>3
  <2> QED
    BY <1>6, <2>1, <2>2 DEF Ignored, Queues, AnyIgnored
<1>9. \A g \in Files \ {f} : inode[h][g].wd # w
  <2> SUFFICES ASSUME NEW g \in Files, g # f, inode[h][g].wd = w
               PROVE  FALSE
    OBVIOUS
  <2>1. v # 0
    BY <1>3
  <2> QED
    BY <1>0, <1>1, <1>2, <1>3, <2>1, FileFacts
<1>10. DescriptorsInv(h)'
  <2>1. ASSUME NEW g \in Files
        PROVE  /\ inode'[h][g].wd <= last_wd'[h]
               /\ inode'[h][g].is = "missing" => inode'[h][g].wd = 0
               /\ \A k \in Files : inode'[h][g].wd = inode'[h][k].wd /\ g # k
                                     => inode'[h][g].wd = 0
    <3>1. inode'[h][g].wd <= last_wd'[h]
      BY <1>3, <1>4, <1>5
    <3>2. inode'[h][g].is = "missing" => inode'[h][g].wd = 0
      BY <1>0, <1>2, <1>4, FileFacts
    <3>3. ASSUME NEW k \in Files, inode'[h][g].wd = inode'[h][k].wd, g # k
          PROVE  inode'[h][g].wd = 0
      BY <1>0, <1>4, <1>9, <3>3, FileFacts
    <3> QED
      BY <3>1, <3>2, <3>3
  <2>2. ASSUME NEW i \in DOMAIN queue'[h]
        PROVE  /\ queue'[h][i].wd \in 1 .. last_wd'[h]
               /\ queue'[h][i].ignored => ~Live(h, queue[h][i].wd)'
               /\ \/ Live(h, queue[h][i].wd)'
                  \/ \E j \in DOMAIN queue'[h] :
                       j >= i /\ queue'[h][j] = Event(queue'[h][i].wd, TRUE)
    <3>1. PICK d : d = queue[h][i].wd
      OBVIOUS
    <3>2. /\ d \in 1 .. l
          /\ queue[h][i].ignored => ~Live(h, d)
          /\ \/ Live(h, d)
             \/ \E j \in DOMAIN queue[h] : j >= i /\ queue[h][j] = Event(d, TRUE)
      BY <1>0, <1>1, <1>6, <3>1, EventFacts
    <3>3. d \in Nat /\ d # 0 /\ ~(d > l) /\ d \in 1 .. last_wd'[h]
      BY <1>3, <1>5, <3>2
    <3>4. Live(h, d)' <=> Live(h, d)
      BY <1>8, <3>3
    <3>5. Live(h, queue[h][i].wd)' <=> Live(h, d)'
      BY <1>6, <3>1 DEF Live
    <3> QED
      BY <1>6, <3>1, <3>2, <3>3, <3>4, <3>5
  <2> QED
    BY <2>1, <2>2 DEF DescriptorsInv
<1>11. \A g : g # f /\ ToReset(h, g) => ToReset(h, g)'
  <2> SUFFICES ASSUME NEW g, g # f, ToReset(h, g)
               PROVE  ToReset(h, g)'
    OBVIOUS
  <2>1. PICK d \in DOMAIN old_wds[h] : old_wds[h][d] = g
    BY DEF ToReset
  <2>2. d # n
    BY <1>1, <2>1
  <2>3. d \in DOMAIN old_wds'[h] /\ old_wds'[h][d] = g
    BY <1>6, <2>1, <2>2 DEF Without
  <2> QED
    BY <1>6, <2>3 DEF ToReset
<1>12. ASSUME w \in DOMAIN t
       PROVE  t[w] = f
  <2>1. w <= l /\ v # 0
    BY <1>0, <1>1, <1>3, <1>12 DEF TableInv
  <2>2. Live(h, w)
    BY <1>1, <1>2, <1>3, <2>1 DEF Live
  <2>3. ~Queues(h, w)
    <3> SUFFICES ASSUME NEW i \in DOMAIN queue[h], queue[h][i] = Event(w, TRUE)
                 PROVE  FALSE
      BY DEF Queues
    <3>1. queue[h][i].wd = w /\ queue[h][i].ignored
      BY DEF Event
    <3> QED
      BY <1>0, <2>2, <3>1, EventFacts
  <2>4. Named(h, w)
    BY <1>0, <1>1, <1>6, <1>12, <2>3 DEF TableInv, Ignored
  <2> QED
    BY <1>1, <1>9, <2>4 DEF Named
<1>13. TableInv(h)'
  <2>1. DOMAIN wds'[h] \subseteq 1 .. last_wd'[h]
    <3> SUFFICES ASSUME NEW d \in DOMAIN wds'[h]
                 PROVE  d \in 1 .. last_wd'[h]
      OBVIOUS
    <3>1. CASE d = w
      BY <1>3, <1>5, <3>1
    <3>2. CASE d \in DOMAIN t
      <4>1. d \in 1 .. l
        BY <1>0, <1>1, <3>2 DEF TableInv
      <4> QED
        BY <1>3, <1>5, <4>1
    <3> QED
      BY <1>7, <3>1, <3>2
  <2>2. ASSUME NEW d \in DOMAIN wds'[h]
        PROVE  Named(h, d)' \/ Ignored(h, d)'
    <3>1. CASE d = w
      BY <1>2, <1>4, <1>7, <3>1 DEF Named
    <3>2. CASE d \in DOMAIN t /\ d # w
      <4>1. d # 0 /\ (Named(h, d) \/ Ignored(h, d))
        BY <1>0, <1>1, <1>3, <3>2 DEF TableInv
      <4>2. ASSUME Named(h, d)
            PROVE  Named(h, d)'
        <5>1. PICK g \in Files : wds[h][d] = g /\ inode[h][g].wd = d
          BY <4>2 DEF Named
        <5>2. g # f
          BY <1>1, <1>3, <3>2, <4>1, <5>1
        <5> QED
          BY <1>1, <1>4, <1>7, <3>2, <5>1, <5>2 DEF Named
      <4> QED
        BY <1>8, <4>1, <4>2
    <3> QED
      BY <1>7, <3>1, <3>2
  <2>3. ASSUME NEW g \in Files
        PROVE  /\ \/ ToReset(h, g)'
                  \/ inode'[h][g].wd = 0 /\ AnyIgnored(h)'
                  \/ inode'[h][g].wd \in DOMAIN wds'[h] /\ wds'[h][inode'[h][g].wd] = g
               /\ ToReset(h, g)' \/ \E d \in DOMAIN wds'[h] : wds'[h][d] = g
    <3>1. CASE g = f
      BY <1>4, <1>7, <3>1
    <3>2. CASE g # f
      <4>1. /\ \/ ToReset(h, g)
               \/ inode[h][g].wd = 0 /\ AnyIgnored(h)
               \/ inode[h][g].wd \in DOMAIN t /\ t[inode[h][g].wd] = g
            /\ ToReset(h, g) \/ \E d \in DOMAIN t : t[d] = g
        BY <1>0, <1>1, FileFacts
      <4>2. \A d \in DOMAIN t : t[d] = g => d # w
        BY <1>12, <3>2
      <4>3. inode'[h][g].wd = inode[h][g].wd
        BY <1>4, <3>2
      <4> QED
        BY <1>7, <1>8, <1>11, <3>2, <4>1, <4>2, <4>3
    <3> QED
      BY <3>1, <3>2
  <2> QED
    BY <2>1, <2>2, <2>3 DEF TableInv
<1> QED
  BY <1>10, <1>13 DEF HostInv

(* A file of the reset is not there and the launcher exits. *)
LEMMA FailureKeepsInv ==
  ASSUME LauncherType, NEW h \in Hosts, AddWatchFails(h)
  PROVE  HostInv(h)'
BY DEF AddWatchFails, HostInv, LauncherType

(* A reset is over: all files are watched. *)
LEMMA ResetKeepsInv ==
  ASSUME LauncherType, NEW h \in Hosts, HostInv(h), ResetReturns(h)
  PROVE  HostInv(h)'
<1>0. DescriptorsInv(h) /\ TableInv(h)
  BY DEF HostInv, ResetReturns
<1>1. /\ inode' = inode /\ last_wd' = last_wd /\ queue' = queue /\ event' = event
      /\ doing[h] = "reset" /\ doing'[h] = "select" /\ wds' = wds
      /\ DOMAIN old_wds[h] = {}
  BY DEF ResetReturns, fileVars, LauncherType
<1>2. DescriptorsInv(h)'
  BY <1>0, <1>1 DEF DescriptorsInv, Live
<1>3. /\ \A d : Named(h, d) => Named(h, d)'
      /\ \A d : Ignored(h, d) => Ignored(h, d)'
      /\ AnyIgnored(h) => AnyIgnored(h)'
      /\ \A f : ~ToReset(h, f)
  BY <1>1 DEF Named, Ignored, Queues, AnyIgnored, ToReset
<1> QED
  BY <1>0, <1>1, <1>2, <1>3 DEF HostInv, TableInv
-----------------------------------------------------------------------------
(* A step of the files or of the launcher of one host. *)
LauncherStep(h) ==
  \/ \E f \in Files : Touch(h, f) \/ Remove(h, f) \/ Create(h, f) \/ Close(h, f)
  \/ ReadEvent(h) \/ CommandReturns(h)
  \/ AddWatch(h) \/ AddWatchFails(h) \/ ResetReturns(h)

Inode == [is : {"closed", "open", "missing"}, wd : Nat]

LEMMA InodeOf ==
  ASSUME NEW s \in {"closed", "open", "missing"}, NEW w \in Nat, NEW x \in Inode
  PROVE  /\ [is |-> s, wd |-> w] \in Inode
         /\ [x EXCEPT !.is = s] \in Inode /\ [x EXCEPT !.wd = w] \in Inode
BY DEF Inode

LEMMA InodeReplaced ==
  ASSUME NEW I \in [Hosts -> [Files -> Inode]], NEW h \in Hosts, NEW f \in Files,
         NEW s \in {"closed", "open", "missing"}, NEW w \in Nat
  PROVE  [I EXCEPT ![h][f] = [is |-> s, wd |-> w]] \in [Hosts -> [Files -> Inode]]
BY InodeOf

LEMMA InodeWritten ==
  ASSUME NEW I \in [Hosts -> [Files -> Inode]], NEW h \in Hosts, NEW f \in Files,
         NEW s \in {"closed", "open", "missing"}
  PROVE  [I EXCEPT ![h][f].is = s] \in [Hosts -> [Files -> Inode]]
BY DEF Inode

LEMMA InodeWatched ==
  ASSUME NEW I \in [Hosts -> [Files -> Inode]], NEW h \in Hosts, NEW f \in Files,
         NEW w \in Nat
  PROVE  [I EXCEPT ![h][f].wd = w] \in [Hosts -> [Files -> Inode]]
BY DEF Inode

LEMMA InodeUnwatched ==
  ASSUME NEW I \in [Hosts -> [Files -> Inode]], NEW h \in Hosts
  PROVE  [I EXCEPT ![h] = [g \in Files |-> [@[g] EXCEPT !.wd = 0]]]
           \in [Hosts -> [Files -> Inode]]
BY DEF Inode

LEMMA StepKeepsType ==
  ASSUME WatchesInv, NEW h \in Hosts, LauncherStep(h)
  PROVE  LauncherType'
<1>0. LauncherType
  BY DEF WatchesInv
<1>1. ASSUME NEW f \in Files, NEW x \in BOOLEAN
      PROVE  Event(inode[h][f].wd, x) \in Entry
  BY <1>0 DEF LauncherType, Event, Entry
<1>9. inode \in [Hosts -> [Files -> Inode]]
  BY <1>0 DEF LauncherType, Inode
<1>2. ASSUME NEW f \in Files, NEW x \in BOOLEAN, Notify(h, Event(inode[h][f].wd, x))
      PROVE  queue' \in [Hosts -> Seq(Entry)]
  BY <1>0, <1>1, <1>2, Notified
<1>3. CASE \E f \in Files : Touch(h, f) \/ Remove(h, f) \/ Create(h, f) \/ Close(h, f)
  <2>1. PICK f \in Files : Touch(h, f) \/ Remove(h, f) \/ Create(h, f) \/ Close(h, f)
    BY <1>3
  <2>2. queue' \in [Hosts -> Seq(Entry)]
    <3>1. \/ Notify(h, Event(inode[h][f].wd, TRUE)) \/ Notify(h, Event(inode[h][f].wd, FALSE))
          \/ queue' = queue
      BY <2>1 DEF Touch, Remove, Create, Close
    <3> QED
      BY <1>0, <1>2, <3>1 DEF LauncherType, Entry
  <2>3. inode' \in [Hosts -> [Files -> Inode]]
    <3>1. 0 \in Nat /\ "missing" \in {"closed", "open", "missing"}
          /\ "open" \in {"closed", "open", "missing"}
          /\ "closed" \in {"closed", "open", "missing"}
      OBVIOUS
    <3>2. CASE Touch(h, f)
      BY <1>9, <3>2 DEF Touch
    <3>3. CASE Remove(h, f)
      <4>1. inode' = [inode EXCEPT ![h][f] = [is |-> "missing", wd |-> 0]]
        BY <3>3 DEF Remove
      <4> QED
        BY <1>9, <3>1, <4>1, InodeReplaced
    <3>4. CASE Create(h, f) \/ Close(h, f)
      <4>1. PICK s \in {"closed", "open", "missing"} : inode' = [inode EXCEPT ![h][f].is = s]
        BY <3>4 DEF Create, Close
      <4> QED
        BY <1>9, <4>1, InodeWritten
    <3> QED
      BY <2>1, <3>2, <3>3, <3>4
  <2>4. last_wd' = last_wd /\ wds' = wds /\ doing' = doing /\ event' = event
        /\ old_wds' = old_wds
    BY <2>1 DEF Touch, Remove, Create, Close, watcherVars
  <2> QED
    BY <1>0, <2>2, <2>3, <2>4 DEF LauncherType, Entry, Inode
<1>4. CASE ReadEvent(h)
  <2>1. queue[h] \in Seq(Entry) /\ queue[h] # <<>>
    BY <1>0, <1>4 DEF LauncherType, ReadEvent, Entry
  <2>2. Tail(queue[h]) \in Seq(Entry) /\ Head(queue[h]) \in Entry
    BY <2>1, HeadAndTail
  <2>3. queue' \in [Hosts -> Seq(Entry)] /\ event' \in [Hosts -> Entry]
    BY <1>0, <1>4, <2>2 DEF LauncherType, ReadEvent, Entry
  <2>4. /\ DOMAIN wds' = Hosts
        /\ \A k \in Hosts : DOMAIN wds'[k] \subseteq Nat
    <3>1. Head(queue[h]).wd \in Nat
      BY <2>2 DEF Entry
    <3> QED
      BY <1>0, <1>4, <3>1 DEF LauncherType, ReadEvent, Entered
  <2>5. /\ inode' = inode /\ last_wd' = last_wd /\ old_wds' = old_wds
        /\ doing' \in [Hosts -> {"select", "system", "reset", "exited"}]
    BY <1>0, <1>4 DEF LauncherType, ReadEvent
  <2> QED
    BY <1>0, <2>3, <2>4, <2>5 DEF LauncherType, Entry
<1>5. CASE CommandReturns(h)
  <2>1. /\ inode' = inode /\ last_wd' = last_wd /\ queue' = queue /\ event' = event
        /\ doing' \in [Hosts -> {"select", "system", "reset", "exited"}]
        /\ DOMAIN wds' = Hosts /\ DOMAIN old_wds' = Hosts
    BY <1>0, <1>5 DEF LauncherType, CommandReturns, fileVars
  <2>2. ASSUME NEW k \in Hosts
        PROVE  DOMAIN wds'[k] \subseteq Nat /\ DOMAIN old_wds'[k] \subseteq Nat
    <3>1. /\ wds'[k] = wds[k] \/ wds'[k] = <<>>
          /\ old_wds'[k] = old_wds[k] \/ old_wds'[k] = wds[k]
      BY <1>0, <1>5 DEF LauncherType, CommandReturns
    <3> QED
      BY <1>0, <3>1, NothingQueued DEF LauncherType
  <2> QED
    BY <1>0, <2>1, <2>2 DEF LauncherType
<1>6. CASE AddWatch(h)
  <2>1. PICK n, f, w :
          /\ n = Next_wd(h) /\ f = old_wds[h][n]
          /\ w = IF inode[h][f].wd # 0 THEN inode[h][f].wd ELSE last_wd[h] + 1
    OBVIOUS
  <2>2. /\ f \in Files /\ inode' = [inode EXCEPT ![h][f].wd = w]
        /\ last_wd' = [last_wd EXCEPT ![h] = IF w > @ THEN w ELSE @]
        /\ wds' = [wds EXCEPT ![h] = Entered(@, w, f)]
        /\ old_wds' = [old_wds EXCEPT ![h] = Without(@, n)]
        /\ UNCHANGED <<queue, doing, event>>
    BY <1>6, <2>1 DEF AddWatch, Present
  <2>3. w \in Nat
    BY <1>0, <2>1, <2>2 DEF LauncherType
  <2>4. /\ inode' \in [Hosts -> [Files -> Inode]]
        /\ last_wd' \in [Hosts -> Nat]
    BY <1>0, <1>9, <2>2, <2>3, InodeWatched DEF LauncherType
  <2>5. /\ DOMAIN wds' = Hosts /\ DOMAIN old_wds' = Hosts
        /\ \A k \in Hosts : DOMAIN wds'[k] \subseteq Nat /\ DOMAIN old_wds'[k] \subseteq Nat
    BY <1>0, <2>2, <2>3 DEF LauncherType, Entered, Without
  <2> QED
    BY <1>0, <2>2, <2>4, <2>5 DEF LauncherType, Inode
<1>7. CASE AddWatchFails(h)
  <2>1. queue' \in [Hosts -> Seq(Entry)]
    <3>1. <<>> \in Seq(Entry)
      OBVIOUS
    <3> QED
      BY <1>0, <1>7, <3>1 DEF LauncherType, AddWatchFails, Entry
  <2>2. inode' \in [Hosts -> [Files -> Inode]]
    <3>1. inode' = [inode EXCEPT ![h] = [g \in Files |-> [@[g] EXCEPT !.wd = 0]]]
      BY <1>7 DEF AddWatchFails
    <3> QED
      BY <1>9, <3>1, InodeUnwatched
  <2>3. /\ UNCHANGED <<last_wd, wds, event, old_wds>>
        /\ doing' \in [Hosts -> {"select", "system", "reset", "exited"}]
    BY <1>0, <1>7 DEF LauncherType, AddWatchFails
  <2> QED
    BY <1>0, <2>1, <2>2, <2>3 DEF LauncherType, Entry, Inode
<1>8. CASE ResetReturns(h)
  BY <1>0, <1>8 DEF LauncherType, ResetReturns, fileVars
<1> QED
  BY <1>3, <1>4, <1>5, <1>6, <1>7, <1>8 DEF LauncherStep

LEMMA StepKeepsOthers ==
  ASSUME LauncherType, NEW h \in Hosts, LauncherStep(h), NEW k \in Hosts, k # h
  PROVE  SameHost(k)
BY DEF LauncherType, LauncherStep, SameHost, Touch, Remove, Create, Close, Notify,
       ReadEvent, CommandReturns, AddWatch, AddWatchFails, ResetReturns,
       fileVars, watcherVars

LEMMA StepKeepsWatches ==
  ASSUME WatchesInv, NEW h \in Hosts, LauncherStep(h)
  PROVE  WatchesInv'
<1>0. LauncherType /\ \A k \in Hosts : HostInv(k)
  BY DEF WatchesInv, HostInv
<1>1. ASSUME NEW f \in Files, Touch(h, f) \/ Create(h, f) \/ Close(h, f)
      PROVE  HostInv(h)'
  <2>1. /\ Notify(h, Event(inode[h][f].wd, FALSE)) \/ UNCHANGED queue
        /\ last_wd'[h] = last_wd[h] /\ UNCHANGED watcherVars
    BY <1>1 DEF Touch, Create, Close
  <2>2. \A g \in Files : /\ inode'[h][g].wd = inode[h][g].wd
                         /\ inode'[h][g].is = "missing" => inode[h][g].is = "missing"
    <3> SUFFICES ASSUME NEW g \in Files
                 PROVE  /\ inode'[h][g].wd = inode[h][g].wd
                        /\ inode'[h][g].is = "missing" => inode[h][g].is = "missing"
      OBVIOUS
    <3>1. CASE Touch(h, f)
      BY <3>1 DEF Touch
    <3>2. CASE Create(h, f) \/ Close(h, f)
      <4>1. PICK s \in {"open", "closed"} : inode' = [inode EXCEPT ![h][f].is = s]
        BY <3>2 DEF Create, Close
      <4>2. /\ inode[h] \in [Files -> Inode] /\ inode[h][g] \in Inode
            /\ inode'[h] = [inode[h] EXCEPT ![f].is = s]
        BY <1>0, <4>1 DEF LauncherType, Inode
      <4>3. inode'[h][g] = inode[h][g] \/ inode'[h][g] = [inode[h][g] EXCEPT !.is = s]
        BY <4>2
      <4> QED
        BY <4>1, <4>2, <4>3 DEF Inode
    <3> QED
      BY <1>1, <3>1, <3>2
  <2> QED
    BY <1>0, <2>1, <2>2, WriteKeepsInv
<1>2. HostInv(h)'
  BY <1>0, <1>1, RemoveKeepsInv, ReadKeepsInv, ReturnKeepsInv, WatchKeepsInv,
     FailureKeepsInv, ResetKeepsInv DEF LauncherStep
<1>3. \A k \in Hosts : HostInv(k)'
  BY <1>0, <1>2, StepKeepsOthers, SameHostKeepsInv
<1> QED
  BY <1>3, StepKeepsType DEF WatchesInv, HostInv
-----------------------------------------------------------------------------
(* Every step is of one host's launcher, or of none. *)
LEMMA ScenarioFacts ==
  ASSUME StartupType
  PROVE  /\ scenario.runs \in Nat /\ scenario.regens \in Nat
         /\ scenario.replacements \in Nat
         /\ \A h \in Hosts : scenario.replaced[h] \subseteq Files
         /\ scenario.client_on \in {"all", "first"}
         /\ done.run \in Nat /\ done.regen \in Nat /\ done.replace \in Nat
BY StartupAssumption DEF StartupType, Scenario

LEMMA LauncherStepOrNone ==
  ASSUME StartupType, [Next]_vars
  PROVE  UNCHANGED launcherVars \/ \E h \in Hosts : LauncherStep(h)
<1>1. CASE KillServices \/ AgentStep \/ UNCHANGED vars
  BY <1>1 DEF KillServices, AgentStep, StartMaster, StartServers, StartClients, Finish, vars
<1>2. ASSUME NEW h \in Hosts, HostStep(h)
      PROVE  UNCHANGED launcherVars \/ LauncherStep(h)
  <2>1. CASE ExecTouch(h)
    BY <2>1, TriggerFiles DEF ExecTouch, LauncherStep, Programs
  <2>2. CASE Launched(h)
    BY <2>2 DEF Launched, LauncherStep
  <2>3. CASE WatcherStep(h)
    BY <2>3 DEF WatcherStep, LauncherStep
  <2> QED
    BY <1>2, <2>1, <2>2, <2>3 DEF HostStep, ExecKill, MasterStarts, ServerStarts, ClientStarts
<1>3. ASSUME NEW h \in Hosts, Regen(h)
      PROVE  LauncherStep(h)
  BY <1>3, TriggerFiles DEF Regen, LauncherStep
<1>4. ASSUME NEW h \in Hosts, Replace(h)
      PROVE  LauncherStep(h)
  BY <1>4, ScenarioFacts DEF Replace, LauncherStep
<1> QED
  BY <1>1, <1>2, <1>3, <1>4 DEF Next

LEMMA StutterKeepsWatches ==
  ASSUME WatchesInv, UNCHANGED launcherVars
  PROVE  WatchesInv'
<1>1. LauncherType'
  BY DEF WatchesInv, LauncherType, launcherVars, fileVars, watcherVars
<1>2. \A h \in Hosts : SameHost(h)
  BY DEF SameHost, launcherVars, fileVars, watcherVars
<1>3. \A h \in Hosts : HostInv(h)'
  BY <1>2, SameHostKeepsInv DEF WatchesInv, HostInv
<1> QED
  BY <1>1, <1>3 DEF WatchesInv, HostInv
-----------------------------------------------------------------------------
LEMMA StartupInitType ==
  ASSUME Init
  PROVE  StartupType
<1>1. scenario \in Scenario
  BY StartupAssumption DEF Init
<1> QED
  BY <1>1 DEF Init, StartupType, Programs

LEMMA StepKeepsStartupType ==
  ASSUME StartupType, [Next]_vars
  PROVE  StartupType'
<1> USE DEF StartupType
<1>0. /\ {"master", "server", "client"} = Programs
      /\ "kill" \notin Programs
  BY DEF Programs
<1>1. CASE UNCHANGED vars
  BY <1>1 DEF vars, agentVars, processVars
<1>2. CASE KillServices \/ AgentStep
  <2>1. exec' \in [Hosts -> {"none", "asked", "waits", "done"}]
    BY <1>2 DEF KillServices, AgentStep, StartMaster, StartServers, StartClients, Finish, Ask
  <2>2. done' \in [run : Nat, regen : Nat, replace : Nat]
    <3>1. KillServices => done' = [done EXCEPT !.run = @ + 1]
      BY DEF KillServices, Count
    <3>2. AgentStep => done' = done
      BY DEF AgentStep, StartMaster, StartServers, StartClients, Finish
    <3>3. [done EXCEPT !.run = @ + 1] \in [run : Nat, regen : Nat, replace : Nat]
      OBVIOUS
    <3> QED
      BY <1>2, <3>1, <3>2, <3>3
  <2> QED
    <3>1. phase' \in {"idle", "kill", "end"} \cup Programs
      BY <1>0, <1>2 DEF KillServices, AgentStep, StartMaster, StartServers, StartClients,
                        Finish
    <3>2. scenario' = scenario /\ starting' = starting /\ server' = server
          /\ master' = master /\ masters' = masters
      BY <1>2 DEF KillServices, AgentStep, StartMaster, StartServers, StartClients, Finish,
                  processVars
    <3> QED
      BY <2>1, <2>2, <3>1, <3>2
<1>3. ASSUME NEW h \in Hosts, ExecTouch(h)
      PROVE  StartupType'
  BY <1>3 DEF ExecTouch, processVars
<1>4. ASSUME NEW h \in Hosts, ExecKill(h)
      PROVE  StartupType'
  BY <1>0, <1>4 DEF ExecKill
<1>5. ASSUME NEW h \in Hosts, Launched(h)
      PROVE  StartupType'
  <2>1. CASE Launching(h) \in Programs
    <3>1. /\ starting[h] \in [Programs -> Nat]
          /\ starting' = [starting EXCEPT ![h] =
                [starting[h] EXCEPT ![Launching(h)] = starting[h][Launching(h)] + 1]]
      BY <1>5, <2>1 DEF Launched
    <3>2. PICK p \in Programs : p = Launching(h)
      BY <2>1
    <3>3. [starting[h] EXCEPT ![p] = starting[h][p] + 1] \in [Programs -> Nat]
      BY <3>1
    <3>4. starting' \in [Hosts -> [Programs -> Nat]]
      BY <3>1, <3>2, <3>3
    <3> QED
      BY <1>5, <3>4 DEF Launched, agentVars
  <2>2. CASE Launching(h) \notin Programs
    BY <1>5, <2>2 DEF Launched, agentVars
  <2> QED
    BY <2>1, <2>2
<1>6. ASSUME NEW h \in Hosts, NEW p \in Programs, Starts(h, p)
      PROVE  starting' \in [Hosts -> [Programs -> Nat]]
  <2>1. /\ starting[h] \in [Programs -> Nat] /\ starting[h][p] - 1 \in Nat
        /\ starting' = [starting EXCEPT ![h] = [starting[h] EXCEPT ![p] = starting[h][p] - 1]]
    BY <1>6 DEF Starts
  <2>2. [starting[h] EXCEPT ![p] = starting[h][p] - 1] \in [Programs -> Nat]
    BY <2>1
  <2> QED
    BY <2>1, <2>2
<1>7. ASSUME NEW h \in Hosts, MasterStarts(h) \/ ClientStarts(h)
      PROVE  StartupType'
  BY <1>0, <1>6, <1>7 DEF MasterStarts, ClientStarts, agentVars
<1>8. ASSUME NEW h \in Hosts, ServerStarts(h)
      PROVE  StartupType'
  BY <1>0, <1>6, <1>8 DEF ServerStarts, agentVars
<1>9. ASSUME NEW h \in Hosts, Regen(h) \/ Replace(h)
      PROVE  StartupType'
  BY <1>9 DEF Regen, Replace, Count, processVars
<1>10. ASSUME NEW h \in Hosts, UNCHANGED <<agentVars, processVars, leftover>>
       PROVE  StartupType'
  BY <1>10 DEF agentVars, processVars
<1> QED
  BY <1>1, <1>2, <1>3, <1>4, <1>5, <1>7, <1>8, <1>9, <1>10 DEF Next, HostStep
-----------------------------------------------------------------------------
(* While no file is replaced, only events of writes are queued.            *)
LEMMA TouchEvent ==
  ASSUME LauncherType, NEW h \in Hosts, NEW f \in Files, Touch(h, f)
  PROVE  /\ inode' = inode /\ wds' = wds /\ doing' = doing /\ event' = event
         /\ queue' \in [Hosts -> Seq(Entry)]
         /\ \A k \in Hosts \ {h} : queue'[k] = queue[k]
         /\ \A i \in DOMAIN queue'[h] :
              \/ i \in DOMAIN queue[h] /\ queue'[h][i] = queue[h][i]
              \/ queue'[h][i].wd = inode[h][f].wd /\ ~queue'[h][i].ignored
<1>1. PICK e : e = Event(inode[h][f].wd, FALSE)
  OBVIOUS
<1>2. e \in Entry /\ e.wd = inode[h][f].wd /\ e.ignored = FALSE
  BY <1>1 DEF LauncherType, Event, Entry
<1>3. Notify(h, e) /\ UNCHANGED <<inode, wds, doing, event>>
  BY <1>1 DEF Touch, watcherVars
<1>4. /\ queue' \in [Hosts -> Seq(Entry)]
      /\ \A k \in Hosts \ {h} : queue'[k] = queue[k]
      /\ \A i \in DOMAIN queue[h] : queue'[h][i] = queue[h][i]
      /\ \A i \in DOMAIN queue'[h] :
           i \in DOMAIN queue[h] \/ (e.wd # 0 /\ queue'[h][i] = e)
  BY <1>2, <1>3, Notified
<1> QED
  BY <1>2, <1>3, <1>4

CalmStep(h) == (\E f \in Files : Touch(h, f)) \/ ReadEvent(h) \/ CommandReturns(h)

LEMMA CalmStepOrNone ==
  ASSUME StartupType, WatchesInv, scenario.replacements = 0, Calm, [Next]_vars
  PROVE  /\ done'.replace = 0
         /\ UNCHANGED launcherVars \/ \E h \in Hosts : CalmStep(h)
<1>1. CASE KillServices
  <2>1. done' = [done EXCEPT !.run = @ + 1]
    BY <1>1 DEF KillServices, Count
  <2> QED
    BY <1>1, <2>1 DEF KillServices, StartupType, Calm
<1>2. CASE AgentStep \/ UNCHANGED vars
  BY <1>2 DEF AgentStep, StartMaster, StartServers, StartClients, Finish, vars, agentVars, Calm
<1>3. ASSUME NEW h \in Hosts, HostStep(h)
      PROVE  done' = done /\ (UNCHANGED launcherVars \/ CalmStep(h))
  <2>1. CASE ExecTouch(h)
    BY <2>1, TriggerFiles DEF ExecTouch, CalmStep, Programs
  <2>2. CASE Launched(h)
    BY <2>2 DEF Launched, CalmStep, agentVars
  <2>3. CASE WatcherStep(h) /\ UNCHANGED <<agentVars, processVars, leftover>>
    <3>1. doing[h] # "reset"
      BY DEF Calm
    <3> QED
      BY <2>3, <3>1
         DEF WatcherStep, CalmStep, AddWatch, AddWatchFails, ResetReturns, agentVars
  <2> QED
    BY <1>3, <2>1, <2>2, <2>3
       DEF HostStep, ExecKill, MasterStarts, ServerStarts, ClientStarts, agentVars
<1>4. ASSUME NEW h \in Hosts, Regen(h)
      PROVE  done'.replace = 0 /\ CalmStep(h)
  <2>1. done' = [done EXCEPT !.regen = @ + 1] /\ Touch(h, "regen-fileset")
    BY <1>4 DEF Regen, Count
  <2> QED
    BY <2>1, TriggerFiles DEF StartupType, Calm, CalmStep
<1>5. ASSUME NEW h \in Hosts, Replace(h)
      PROVE  FALSE
  <2>1. ~(done.replace < scenario.replacements)
    BY ScenarioFacts DEF Calm
  <2>2. \A f \in Files : inode[h][f].is = "closed"
    BY DEF Calm
  <2> QED
    BY <1>5, <2>1, <2>2, ScenarioFacts DEF Replace, Create, Close
<1> QED
  BY <1>1, <1>2, <1>3, <1>4, <1>5 DEF Next, Calm

CalmHost(h) ==
  /\ doing[h] \in {"select", "system"} /\ ~AnyIgnored(h)
  /\ \A f \in Files : inode[h][f].is = "closed"

LEMMA CalmStepKeepsCalm ==
  ASSUME LauncherType, NEW h \in Hosts, CalmHost(h), CalmStep(h)
  PROVE  CalmHost(h)'
<1>1. ASSUME NEW f \in Files, Touch(h, f)
      PROVE  CalmHost(h)'
  BY <1>1, TouchEvent DEF CalmHost, AnyIgnored
<1>2. CASE ReadEvent(h)
  <2>1. queue[h] \in Seq(Entry) /\ queue[h] # <<>> /\ queue'[h] = Tail(queue[h])
    BY <1>2 DEF LauncherType, ReadEvent, Entry
  <2>2. /\ event'[h] = Head(queue[h]) /\ doing'[h] = "system" /\ inode' = inode
    BY <1>2 DEF LauncherType, ReadEvent
  <2>3. PICK n : n = Len(queue[h])
    OBVIOUS
  <2>4. /\ n \in Nat \ {0} /\ DOMAIN queue[h] = 1 .. n /\ Head(queue[h]) = queue[h][1]
        /\ DOMAIN queue'[h] = 1 .. n - 1
        /\ \A i \in 1 .. n - 1 : queue'[h][i] = queue[h][i + 1]
    BY <2>1, <2>3, HeadAndTail
  <2>5. \A i \in 1 .. n : ~queue[h][i].ignored
    BY <2>4 DEF CalmHost, AnyIgnored
  <2>6. 1 \in 1 .. n /\ \A i \in 1 .. n - 1 : i + 1 \in 1 .. n
    BY <2>4
  <2>7. ~event'[h].ignored
    BY <2>2, <2>4, <2>5, <2>6
  <2>8. \A i \in DOMAIN queue'[h] : ~queue'[h][i].ignored
    BY <2>4, <2>5, <2>6
  <2> QED
    BY <2>2, <2>7, <2>8 DEF CalmHost, AnyIgnored
<1>3. CASE CommandReturns(h)
  <2>1. ~event[h].ignored
    BY <1>3 DEF CalmHost, AnyIgnored, CommandReturns
  <2>2. queue' = queue /\ inode' = inode /\ event' = event /\ doing'[h] = "select"
    BY <1>3, <2>1 DEF CommandReturns, LauncherType, fileVars
  <2> QED
    BY <2>2 DEF CalmHost, AnyIgnored
<1> QED
  BY <1>1, <1>2, <1>3 DEF CalmStep

LEMMA StepKeepsCalm ==
  ASSUME StartupType, WatchesInv, scenario.replacements = 0, Calm, [Next]_vars
  PROVE  Calm'
<1>1. LauncherType /\ \A k \in Hosts : CalmHost(k)
  BY DEF WatchesInv, Calm, CalmHost
<1>2. ASSUME NEW k \in Hosts, SameHost(k)
      PROVE  CalmHost(k)'
  BY <1>1, <1>2 DEF CalmHost, SameHost, AnyIgnored
<1>3. CASE UNCHANGED launcherVars
  <2>1. \A k \in Hosts : SameHost(k)
    BY <1>3 DEF SameHost, launcherVars, fileVars, watcherVars
  <2> QED
    BY <1>2, <2>1, CalmStepOrNone DEF Calm, CalmHost
<1>4. ASSUME NEW h \in Hosts, CalmStep(h)
      PROVE  Calm'
  <2>1. LauncherStep(h)
    BY <1>4 DEF CalmStep, LauncherStep
  <2>2. \A k \in Hosts : CalmHost(k)'
    BY <1>1, <1>2, <1>4, <2>1, StepKeepsOthers, CalmStepKeepsCalm
  <2> QED
    BY <2>2, CalmStepOrNone DEF Calm, CalmHost
<1> QED
  BY <1>3, <1>4, CalmStepOrNone
-----------------------------------------------------------------------------
(* The launcher of a host during a kill: what it reads is the data set's   *)
(* trigger, whose entry the table has.                                     *)
LEMMA RegenStepKeepsRegens ==
  ASSUME WatchesInv, NEW h \in Hosts, CalmHost(h), OnlyRegens(h),
         Touch(h, "regen-fileset") \/ ReadEvent(h) \/ CommandReturns(h)
  PROVE  OnlyRegens(h)'
<1>0. LauncherType /\ DescriptorsInv(h) /\ TableInv(h)
  BY DEF WatchesInv, CalmHost
<1>1. "regen-fileset" \in Files
  BY TriggerFiles
<1>2. CASE Touch(h, "regen-fileset")
  BY <1>0, <1>1, <1>2, TouchEvent DEF OnlyRegens, Launching
<1>3. CASE ReadEvent(h)
  <2>1. queue[h] \in Seq(Entry) /\ queue[h] # <<>> /\ queue'[h] = Tail(queue[h])
    BY <1>0, <1>3 DEF LauncherType, ReadEvent, Entry
  <2>2. PICK n, e, w : /\ n = Len(queue[h]) /\ e = Head(queue[h])
                       /\ w = inode[h]["regen-fileset"].wd
    OBVIOUS
  <2>3. /\ n \in Nat \ {0} /\ DOMAIN queue[h] = 1 .. n /\ e = queue[h][1]
        /\ DOMAIN queue'[h] = 1 .. n - 1
        /\ \A i \in 1 .. n - 1 : queue'[h][i] = queue[h][i + 1]
    BY <2>1, <2>2, HeadAndTail
  <2>4. 1 \in 1 .. n /\ \A i \in 1 .. n - 1 : i + 1 \in 1 .. n
    BY <2>3
  <2>5. e.wd = w /\ \A i \in DOMAIN queue'[h] : queue'[h][i].wd = w
    BY <2>2, <2>3, <2>4 DEF OnlyRegens
  <2>6. /\ inode' = inode /\ event'[h] = e
        /\ wds'[h] = Entered(wds[h], e.wd, NameOf(h, e.wd))
    BY <1>0, <1>3, <2>2 DEF LauncherType, ReadEvent
  <2>7. w \in DOMAIN wds[h] /\ wds[h][w] = "regen-fileset"
    BY <1>0, <1>1, <1>3, <2>2, FileFacts DEF CalmHost, ToReset, ReadEvent
  <2>8. wds'[h][w] = "regen-fileset"
    BY <2>5, <2>6, <2>7 DEF Entered, NameOf
  <2> QED
    BY <2>2, <2>5, <2>6, <2>8 DEF OnlyRegens, Launching
<1>4. CASE CommandReturns(h)
  <2>1. queue' = queue /\ inode' = inode /\ doing'[h] # "system"
    BY <1>0, <1>4 DEF CommandReturns, LauncherType, fileVars
  <2> QED
    BY <2>1 DEF OnlyRegens
<1> QED
  BY <1>2, <1>3, <1>4

LEMMA SameHostKeepsRegens ==
  ASSUME NEW h, SameHost(h), OnlyRegens(h)
  PROVE  OnlyRegens(h)'
BY DEF SameHost, OnlyRegens, Launching

LEMMA StepKeepsRegens ==
  ASSUME WatchesInv, Calm, NEW h \in Hosts, \A k \in Hosts : OnlyRegens(k),
         Touch(h, "regen-fileset") \/ ReadEvent(h) \/ CommandReturns(h)
  PROVE  \A k \in Hosts : OnlyRegens(k)'
<1>1. LauncherStep(h)
  BY TriggerFiles DEF LauncherStep
<1>2. CalmHost(h)
  BY DEF Calm, CalmHost
<1>3. OnlyRegens(h)'
  BY <1>2, RegenStepKeepsRegens
<1> QED
  BY <1>1, <1>3, StepKeepsOthers, SameHostKeepsRegens DEF WatchesInv

LEMMA StutterKeepsRegens ==
  ASSUME UNCHANGED launcherVars, \A k \in Hosts : OnlyRegens(k)
  PROVE  \A k \in Hosts : OnlyRegens(k)'
BY SameHostKeepsRegens DEF launcherVars, fileVars, watcherVars, SameHost
-----------------------------------------------------------------------------
(* A kill keeps a killed host without a server. *)
LEMMA KillKeepsInv ==
  ASSUME StartupType, WatchesInv, Calm, scenario.replacements = 0, phase = "kill",
         \A k \in Hosts : KillInv(k), phase' = "kill", [Next]_vars
  PROVE  \A k \in Hosts : KillInv(k)'
<1>0. \A k \in Hosts : OnlyRegens(k)
  BY DEF KillInv
<1> DEFINE Dead(k) == /\ exec[k] # "none"
                      /\ exec[k] # "asked" => server[k] = 0 /\ starting[k].server = 0
<1>1. \A k \in Hosts : Dead(k)
  BY DEF KillInv
<1>2. CASE UNCHANGED vars
  <2>1. \A k \in Hosts : OnlyRegens(k)'
    BY <1>0, <1>2, StutterKeepsRegens DEF vars
  <2> QED
    BY <1>1, <1>2, <2>1 DEF KillInv, vars, agentVars, processVars
<1>3. ~KillServices /\ ~AgentStep
  BY DEF KillServices, AgentStep, StartMaster, StartServers, StartClients, Finish
<1>4. ASSUME NEW h \in Hosts, ExecTouch(h)
      PROVE  FALSE
  BY <1>4 DEF ExecTouch, Programs
<1>5. ASSUME NEW h \in Hosts, ExecKill(h)
      PROVE  \A k \in Hosts : KillInv(k)'
  <2>1. \A k \in Hosts : OnlyRegens(k)'
    BY <1>0, <1>5, StutterKeepsRegens DEF ExecKill
  <2>2. /\ exec' = [exec EXCEPT ![h] = IF h \in scenario.stuck THEN "waits" ELSE "done"]
        /\ server' = [server EXCEPT ![h] = 0]
    BY <1>5 DEF ExecKill
  <2>3. starting'[h].server = 0 /\ \A k \in Hosts \ {h} : starting'[k] = starting[k]
    BY <1>5 DEF ExecKill, StartupType, Programs
  <2>4. ASSUME NEW k \in Hosts
        PROVE  /\ exec'[k] # "none"
               /\ exec'[k] # "asked" => server'[k] = 0 /\ starting'[k].server = 0
    BY <1>1, <2>2, <2>3 DEF StartupType
  <2> QED
    BY <2>1, <2>4 DEF KillInv
<1>6. ASSUME NEW h \in Hosts, Launched(h)
      PROVE  \A k \in Hosts : KillInv(k)'
  <2>1. CommandReturns(h)
    BY <1>6 DEF Launched
  <2>2. \A k \in Hosts : OnlyRegens(k)'
    BY <1>0, <2>1, StepKeepsRegens
  <2>3. Launching(h) \notin Programs
    BY <1>0, <2>1 DEF OnlyRegens, CommandReturns, Programs
  <2>4. starting' = starting /\ exec' = exec /\ server' = server
    BY <1>6, <2>3 DEF Launched, agentVars
  <2> QED
    BY <1>1, <2>2, <2>4 DEF KillInv
<1>7. ASSUME NEW h \in Hosts, MasterStarts(h) \/ ServerStarts(h) \/ ClientStarts(h)
      PROVE  \A k \in Hosts : KillInv(k)'
  <2>1. \A k \in Hosts : OnlyRegens(k)'
    BY <1>0, <1>7, StutterKeepsRegens DEF MasterStarts, ServerStarts, ClientStarts
  <2>2. PICK p \in Programs :
          /\ Starts(h, p) /\ exec' = exec
          /\ p # "server" => server' = server
          /\ p = "server" => \A k \in Hosts \ {h} : server'[k] = server[k]
    BY <1>7 DEF MasterStarts, ServerStarts, ClientStarts, agentVars, Programs, StartupType
  <2>3. /\ \A k \in Hosts \ {h} : starting'[k] = starting[k]
        /\ p # "server" => starting'[h].server = starting[h].server
        /\ p = "server" => starting[h].server > 0
    BY <2>2 DEF Starts, StartupType, Programs
  <2>4. ASSUME NEW k \in Hosts
        PROVE  /\ exec'[k] # "none"
               /\ exec'[k] # "asked" => server'[k] = 0 /\ starting'[k].server = 0
    <3>1. Dead(k)
      BY <1>1
    <3>2. CASE k = h /\ p = "server"
      BY <2>2, <2>3, <3>1, <3>2
    <3>3. CASE k # h \/ p # "server"
      BY <2>2, <2>3, <3>1, <3>3
    <3> QED
      BY <3>2, <3>3
  <2> QED
    BY <2>1, <2>4 DEF KillInv
<1>8. ASSUME NEW h \in Hosts,
             WatcherStep(h) /\ UNCHANGED <<agentVars, processVars, leftover>>
      PROVE  \A k \in Hosts : KillInv(k)'
  <2>1. ReadEvent(h)
    BY <1>8 DEF WatcherStep, AddWatch, AddWatchFails, ResetReturns, Calm
  <2>2. \A k \in Hosts : OnlyRegens(k)'
    BY <1>0, <2>1, StepKeepsRegens
  <2> QED
    BY <1>1, <1>8, <2>2 DEF KillInv, agentVars, processVars
<1>9. ASSUME NEW h \in Hosts, Regen(h)
      PROVE  \A k \in Hosts : KillInv(k)'
  <2>1. \A k \in Hosts : OnlyRegens(k)'
    BY <1>0, <1>9, StepKeepsRegens DEF Regen
  <2> QED
    BY <1>1, <1>9, <2>1 DEF KillInv, Regen, processVars
<1>10. ASSUME NEW h \in Hosts, Replace(h)
       PROVE  FALSE
  <2>1. ~(done.replace < scenario.replacements) /\ scenario.replaced[h] \subseteq Files
    BY ScenarioFacts DEF Calm
  <2>2. \A f \in Files : inode[h][f].is = "closed"
    BY DEF Calm
  <2> QED
    BY <1>10, <2>1, <2>2 DEF Replace, Create, Close
<1> QED
  BY <1>2, <1>3, <1>4, <1>5, <1>6, <1>7, <1>8, <1>9, <1>10 DEF Next, HostStep

(* Outside of a kill a server joins the master that runs, and a master     *)
(* starts when there is none.                                              *)
LEMMA StepKeepsServers ==
  ASSUME StartupType, phase # "kill", phase' # "kill",
         \A k \in Hosts : server[k] \in {0, master}, [Next]_vars
  PROVE  \A k \in Hosts : server'[k] \in {0, master'}
<1>1. CASE UNCHANGED vars \/ KillServices \/ AgentStep
  <2>1. server' = server /\ master' = master
    BY <1>1 DEF vars, KillServices, AgentStep, StartMaster, StartServers, StartClients,
                Finish, processVars
  <2> QED
    BY <2>1
<1>2. ASSUME NEW h \in Hosts, HostStep(h) \/ Regen(h) \/ Replace(h),
             ~MasterStarts(h), ~ServerStarts(h)
      PROVE  server' = server /\ master' = master
  BY <1>2 DEF HostStep, ExecTouch, ExecKill, Launched, ClientStarts, Regen, Replace,
              processVars
<1>3. ASSUME NEW h \in Hosts, MasterStarts(h)
      PROVE  \A k \in Hosts : server'[k] \in {0, master'}
  BY <1>3 DEF MasterStarts
<1>4. ASSUME NEW h \in Hosts, ServerStarts(h)
      PROVE  \A k \in Hosts : server'[k] \in {0, master'}
  BY <1>4 DEF ServerStarts, StartupType
<1> QED
  BY <1>1, <1>2, <1>3, <1>4 DEF Next

LEMMA StepKeepsServersInv ==
  ASSUME StartupInv, [Next]_vars
  PROVE  ServersInv'
<1>0. /\ StartupType /\ WatchesInv /\ scenario' = scenario
      /\ Undisturbed' <=> Undisturbed
  <2>1. scenario' = scenario
    BY DEF Next, vars, agentVars, KillServices, AgentStep, StartMaster, StartServers,
           StartClients, Finish, HostStep, ExecTouch, ExecKill, Launched, MasterStarts,
           ServerStarts, ClientStarts, Regen, Replace
  <2> QED
    BY <2>1 DEF StartupInv, Undisturbed
<1> SUFFICES ASSUME Undisturbed, ~leftover'
             PROVE  IF phase' = "kill" THEN \A h \in Hosts : KillInv(h)'
                    ELSE \A h \in Hosts : server'[h] \in {0, master'}
  BY <1>0 DEF ServersInv
<1>1. CASE KillServices
  <2>1. ASSUME NEW h \in Hosts
        PROVE  KillInv(h)'
    <3>1. doing[h] = "select" /\ queue[h] = <<>>
      BY <1>1 DEF KillServices
    <3>2. doing'[h] = "select" /\ queue'[h] = <<>> /\ exec'[h] = "asked"
      BY <1>1, <3>1 DEF KillServices, Ask, launcherVars, fileVars, watcherVars
    <3>3. DOMAIN queue'[h] = {}
      BY <3>2, NothingQueued
    <3> QED
      BY <3>2, <3>3 DEF KillInv, OnlyRegens
  <2> QED
    BY <1>1, <2>1 DEF KillServices
<1>2. CASE ~KillServices
  <2>1. ~leftover
    BY <1>2 DEF Next, vars, AgentStep, StartMaster, StartServers, StartClients, Finish,
                HostStep, ExecTouch, ExecKill, Launched, MasterStarts, ServerStarts,
                ClientStarts, Regen, Replace
  <2>2. phase' = "kill" => phase = "kill"
    BY <1>2 DEF Next, vars, agentVars, AgentStep, StartMaster, StartServers, StartClients,
                Finish, HostStep, ExecTouch, ExecKill, Launched, MasterStarts, ServerStarts,
                ClientStarts, Regen, Replace
  <2>3. CASE phase # "kill"
    <3>1. \A k \in Hosts : server[k] \in {0, master}
      BY <2>1, <2>3 DEF StartupInv, ServersInv
    <3> QED
      BY <1>0, <2>2, <2>3, <3>1, StepKeepsServers
  <2>4. CASE phase = "kill"
    <3>1. \A k \in Hosts : KillInv(k)
      BY <2>1, <2>4 DEF StartupInv, ServersInv
    <3>2. scenario.replacements = 0 /\ Calm
      BY <2>4 DEF StartupInv, Undisturbed
    <3>3. CASE phase' = "kill"
      BY <1>0, <2>4, <3>1, <3>2, <3>3, KillKeepsInv
    <3>4. CASE phase' # "kill"
      <4>1. StartMaster
        BY <1>2, <2>4, <3>4
           DEF Next, vars, agentVars, AgentStep, StartServers, StartClients, Finish,
               HostStep, ExecTouch, ExecKill, Launched, MasterStarts, ServerStarts,
               ClientStarts, Regen, Replace
      <4>2. \A h \in Hosts : server[h] = 0
        BY <3>1, <4>1 DEF StartMaster, Answered, KillInv
      <4>3. server' = server
        BY <4>1 DEF StartMaster, processVars
      <4> QED
        BY <3>4, <4>2, <4>3
    <3> QED
      BY <3>3, <3>4
  <2> QED
    BY <2>3, <2>4
<1> QED
  BY <1>1, <1>2
-----------------------------------------------------------------------------
LEMMA StartupInitInv ==
  ASSUME Init
  PROVE  StartupInv
<1>1. WatchesInv
  BY LauncherInitInv DEF Init
<1>2. StartupType
  BY StartupInitType
<1>3. Calm
  <2>1. ASSUME NEW h \in Hosts
        PROVE  doing[h] = "select" /\ ~AnyIgnored(h)
               /\ \A f \in Files : inode[h][f].is = "closed"
    <3>1. queue[h] = <<>> /\ doing[h] = "select"
      BY DEF Init, LauncherInit
    <3>2. DOMAIN queue[h] = {}
      BY <3>1, NothingQueued
    <3> QED
      BY <3>1, <3>2 DEF Init, LauncherInit, AnyIgnored
  <2> QED
    BY <2>1 DEF Init, Calm
<1>4. \A h \in Hosts : server[h] \in {0, master}
  BY DEF Init
<1> QED
  BY <1>1, <1>2, <1>3, <1>4 DEF StartupInv, ServersInv, Init

LEMMA StartupStepInv ==
  ASSUME StartupInv, [Next]_vars
  PROVE  StartupInv'
<1>0. StartupType /\ WatchesInv
  BY DEF StartupInv
<1>1. WatchesInv'
  BY <1>0, LauncherStepOrNone, StutterKeepsWatches, StepKeepsWatches
<1>2. StartupType'
  BY <1>0, StepKeepsStartupType
<1>3. scenario' = scenario
  BY DEF Next, vars, agentVars, KillServices, AgentStep, StartMaster, StartServers,
         StartClients, Finish, HostStep, ExecTouch, ExecKill, Launched, MasterStarts,
         ServerStarts, ClientStarts, Regen, Replace
<1>4. ASSUME scenario.runs = 0
      PROVE  phase' = "idle"
  <2>1. phase = "idle" /\ ~(done.run < scenario.runs)
    BY <1>0, <1>4, ScenarioFacts DEF StartupInv
  <2> QED
    BY <2>1 DEF Next, vars, agentVars, KillServices, AgentStep, StartMaster, StartServers,
                StartClients, Finish, HostStep, ExecTouch, ExecKill, Launched,
                MasterStarts, ServerStarts, ClientStarts, Regen, Replace
<1>5. scenario.replacements = 0 => Calm'
  BY <1>0, StepKeepsCalm DEF StartupInv
<1> QED
  BY <1>1, <1>2, <1>3, <1>4, <1>5, StepKeepsServersInv DEF StartupInv

(* The inductive invariant of restarts and of replaced files: descriptors, *)
(* events and tables fit together, and a host that was killed has no       *)
(* server and none on the way.                                             *)
THEOREM StartupInvariance == Spec => []StartupInv
<1>1. Init => StartupInv
  BY StartupInitInv
<1>2. StartupInv /\ [Next]_vars => StartupInv'
  BY StartupStepInv
<1> QED
  BY <1>1, <1>2, PTL DEF Spec

(* A launcher that waits with nothing to read watches every trigger file,  *)
(* each under its own descriptor, and its table has nothing else.          *)
THEOREM TableIsWhatIsWatched == Spec => []WatchesIntact
<1>1. StartupInv => WatchesIntact
  <2> SUFFICES ASSUME StartupInv, NEW h \in Hosts, doing[h] = "select", queue[h] = <<>>
               PROVE  /\ DOMAIN wds[h] = {inode[h][f].wd : f \in Files}
                      /\ \A f \in Files : wds[h][inode[h][f].wd] = f
    BY DEF WatchesIntact
  <2>1. TableInv(h)
    BY DEF StartupInv, WatchesInv
  <2>2. DOMAIN queue[h] = {}
    BY NothingQueued
  <2>3. /\ \A d : ~Ignored(h, d)
        /\ ~AnyIgnored(h) /\ \A f \in Files : ~ToReset(h, f)
    BY <2>2 DEF Ignored, Queues, AnyIgnored, ToReset
  <2>4. \A d \in DOMAIN wds[h] : Named(h, d)
    BY <2>1, <2>3 DEF TableInv
  <2>5. \A f \in Files : inode[h][f].wd \in DOMAIN wds[h] /\ wds[h][inode[h][f].wd] = f
    BY <2>1, <2>3, FileFacts
  <2> QED
    BY <2>4, <2>5 DEF Named
<1> QED
  BY <1>1, StartupInvariance, PTL

(* After the kill every server that runs has joined the master that runs,  *)
(* on any number of hosts and in any number of restarts.                   *)
THEOREM ServersFollowMaster == Spec => []NoStrandedServer
<1>1. StartupInv => NoStrandedServer
  BY DEF StartupInv, ServersInv, NoStrandedServer
<1> QED
  BY <1>1, StartupInvariance, PTL
=============================================================================
