---------------------------- MODULE MCContainers ----------------------------
(* Instances of Containers and RedisStore for TLC: two clients at          *)
(* opposite servers.                                                       *)
EXTENDS RedisStore, TLC

CONSTANTS c1, c2

OppositeHomes == c1 :> "flecs12" @@ c2 :> "flecs52"
LockServers   == "rep-redis" :> "flecs52" @@ "rep-partial" :> "flecs12"

All(kinds) == [c \in Clients |-> kinds]
Use(b)     == [c \in Clients |-> b]

Everywhere == [b \in Buckets |-> Servers]
Nowhere    == [b \in Buckets |-> {}]

Left(n) == [s \in Servers |-> n]

RedisPath   == "stg_root_dir/rep-redis/obj"
PartialPath == "stg_root_dir/rep-partial/obj"

(* The servers have run before: everything is in place. *)
Settled(b, kinds, writes, hosts) ==
  [use |-> Use(b), kinds |-> kinds, writes |-> writes,
   at |-> Everywhere, loaded |-> TRUE, loadable |-> TRUE, named |-> TRUE,
   descriptors |-> Left(Plenty),
   redis |-> [up |-> TRUE, path |-> RedisPath, location |-> PartialPath,
              hosts |-> hosts, percent |-> <<"flecs12">>]]

TwoOfThree ==
  {<<"flecs12", "flecs52">>, <<"flecs12", "flecs22">>, <<"flecs22", "flecs52">>}

SettledRedis    ==
  {Settled("rep-redis", All(Kinds), 1, <<"flecs12", "flecs52">>),
   Settled("rep-redis", c1 :> {"Put", "Append"} @@ c2 :> {"Get", "Append"}, 2, <<"flecs12", "flecs52">>)}
SettledPartial  == {Settled("rep-partial", All(Kinds), 1, hs) : hs \in TwoOfThree}
PartialAppends  ==  (* the file at its two hosts only *)
  {[Settled("rep-partial", All({"Get", "Append"}), 2, hs)
      EXCEPT !.at["rep-partial"] = {hs[1], hs[2]}] : hs \in TwoOfThree}

(* The first requests to servers with a generated data set: nothing is     *)
(* loaded, redis has the keys, or none, or does not run.                   *)
First(b, kinds, keys, up) ==
  [use |-> Use(b), kinds |-> kinds, writes |-> 1,
   at |-> Everywhere, loaded |-> FALSE, loadable |-> TRUE, named |-> TRUE,
   descriptors |-> Left(Plenty),
   redis |-> [up |-> up, path |-> IF keys THEN RedisPath ELSE Missing,
              location |-> IF keys THEN PartialPath ELSE Missing,
              hosts |-> Missing, percent |-> Missing]]

FirstRedis   == {First("rep-redis", All({"Append"}), TRUE, TRUE),
                 First("rep-redis", All({"Get", "Put"}), FALSE, TRUE),
                 First("rep-redis", All({"Get"}), TRUE, FALSE)}
FirstPartial == {First("rep-partial", All({"Put"}), FALSE, up) : up \in BOOLEAN}
                  \cup {First("rep-partial", All({"Get"}), TRUE, TRUE)}

(* One client for each container, whose server can end under the other's  *)
(* lock: with a key of rep-redis missing, or with one host of rep-partial, *)
(* and a file of rep-partial missing when the lock's server has died.      *)
NoKeyForBoth ==
  [First("rep-redis", All({"Get", "Append"}), FALSE, TRUE)
     EXCEPT !.use = c1 :> "rep-redis" @@ c2 :> "rep-partial"]
BothTogether ==
  {NoKeyForBoth,
   [Settled("rep-redis", All({"Get", "Append"}), 1, <<"flecs52">>)
      EXCEPT !.use = NoKeyForBoth.use, !.at = Nowhere],
   [Settled("rep-redis", All({"Get", "Append"}), 1, <<"flecs12", "flecs52">>)
      EXCEPT !.use = NoKeyForBoth.use, !.at = Nowhere, !.redis.path = Missing]}

(* No plugin, no files, and one host only. *)
Unloadable == {[First("rep-redis", All({"Get"}), TRUE, TRUE) EXCEPT !.loadable = FALSE]}
NoFiles    == {[sc EXCEPT !.at = Nowhere, !.writes = 1, !.kinds = All(Kinds)] :
                  sc \in SettledPartial \cup SettledRedis}
SingleHost == {Settled("rep-partial", All({"Get", "Append"}), 1, <<"flecs52">>)}

(* Servers that have served almost as many requests as they can: the       *)
(* client's own server runs out of descriptors, or first one of its peers  *)
(* (which may yet have to load the plugin).                                *)
AlmostUsedUp ==
  {[Settled("rep-redis", All(Kinds), 1, <<"flecs12", "flecs52">>)
      EXCEPT !.descriptors = Left(n)] : n \in 0 .. 3}
  \cup {[Settled("rep-partial", All(Kinds), 1, <<"flecs12", "flecs52">>)
           EXCEPT !.descriptors = Left(n)] : n \in 0 .. 3}
  \cup {[NoKeyForBoth EXCEPT !.redis = Settled("rep-partial", All(Kinds), 1, hs).redis,
                              !.descriptors = Left(2)] : hs \in TwoOfThree}

(* config.server as it is. *)
Unnamed == {[Settled("rep-partial", All(Kinds), 1, hs) EXCEPT !.named = FALSE] : hs \in TwoOfThree}

AllScenarios ==
  SettledRedis \cup SettledPartial \cup PartialAppends \cup FirstRedis
    \cup FirstPartial \cup Unloadable \cup NoFiles \cup SingleHost \cup BothTogether \cup Unnamed
    \cup AlmostUsedUp
=============================================================================
