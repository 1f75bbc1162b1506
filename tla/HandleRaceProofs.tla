--------------------------- MODULE HandleRaceProofs ---------------------------
(***************************************************************************)
(* Proofs about HandleRace: with natives that grow one table apart from    *)
(* each other, and the move of its block apart from those that follow it,  *)
(* the calls are safe, whatever the number of threads, addresses and       *)
(* entries, and see what HandleTables promises.                            *)
(***************************************************************************)
EXTENDS HandleRace, FiniteSetTheorems, TLAPS

(* Where a thread may be in the method that it is in. *)
StageOf(t) ==
  /\ pc[t] = "idle" <=> call[t] = None
  /\ pc[t] \in {"check", "create", "open", "put"} => call[t] = "construct"
  /\ pc[t] = "bind" => call[t] \in {"bindAddr", "connect"}
  /\ pc[t] = "use" <=> call[t] \in {"send", "receive"}
  /\ call[t] \notin {None, "construct"} => idx[t][Follows(call[t])] # Unset

Grower(t, tab) == InNative(t) /\ Grows(call[t]) = tab
Follower(t, tab) == InNative(t) /\ Follows(call[t]) = tab
Mover(t, tab) == Grower(t, tab) /\ pc[t] = "pointer"

(* What Apart keeps apart. *)
Separate ==
  \A tab \in Tables : \A t, u \in Threads :
    /\ Grower(t, tab) /\ Grower(u, tab) => t = u
    /\ Mover(t, tab) => ~Follower(u, tab)

(* A table grows from its realloc() to the store of its counter. *)
Grown == {"pointer", "entry", "open", "count", "counted"}

(* The library makes the device before, channel and handle after the       *)
(* counter was stored.                                                     *)
Ahead(t) == call[t] = "construct" /\ pc[t] \in {"count", "counted"}

(* A table whose grower, if it has one, is not in the midst of it. *)
QuietTable(tab) ==
  /\ (\A t \in Threads : ~Mover(t, tab)) => holders[tab] = {Global}
  /\ (\A t \in Threads : Grower(t, tab) => pc[t] \notin Grown) => size[tab] = num[tab]
  /\ (\A t \in Threads : Grower(t, tab) => ~Ahead(t) /\ pc[t] # "bind")
       => filled[tab] = 0 .. num[tab] - 1
  /\ num[tab] <= size[tab]
  /\ \A i \in Indices : i < num[tab] => entry[tab][i] # NoThread

(* A table as its grower t sees it. *)
Growth(t, tab) ==
  /\ pc[t] \in Grown \cup {"realloc"} => num[tab] < MaxEntries
  /\ pc[t] \in Grown => size[tab] = num[tab] + 1
  /\ pc[t] = "pointer" => t \in holders[tab] /\ holders[tab] \subseteq {t, Global}
  /\ pc[t] \in {"open", "count", "counted"} => entry[tab][num[tab]] = t
  /\ pc[t] = "counted" => reg[t] = num[tab]
  /\ pc[t] \in {"bind", "return"} => num[tab] > 0 /\ entry[tab][num[tab] - 1] = t
  /\ Ahead(t) => filled[tab] = 0 .. num[tab]
  /\ pc[t] = "bind" => filled[tab] = 0 .. num[tab] - 2

TablesInv ==
  /\ \A tab \in Tables : QuietTable(tab)
  /\ \A t \in Threads, tab \in Tables : Grower(t, tab) => Growth(t, tab)

(* What a socket's index names: the entry is counted and made, is its own, *)
(* and a device is one that was opened with its address.                   *)
IndexInv ==
  \A t \in Threads :
    /\ \A tab \in Tables :
         idx[t][tab] # Unset => idx[t][tab] < num[tab] /\ idx[t][tab] \in filled[tab]
    /\ \A tab \in {"channels", "send_handles"} :
         idx[t][tab] # Unset => entry[tab][idx[t][tab]] = t
    /\ idx[t]["devices"] # Unset => HostOf[entry["devices"][idx[t]["devices"]]] = HostOf[t]
    /\ call[t] = "construct" => (idx[t]["devices"] # Unset <=> pc[t] = "put")

CacheInv ==
  \A h \in Hosts : ipInUse[h] # Unset =>
    /\ ipInUse[h] < num["devices"] /\ ipInUse[h] \in filled["devices"]
    /\ HostOf[entry["devices"][ipInUse[h]]] = h

(* Who opened a device that is counted has it, or is about to get it. *)
OwnerInv ==
  \A i \in Indices : i < num["devices"] =>
    LET opener == entry["devices"][i] IN
    \/ idx[opener]["devices"] = i
    \/ call[opener] = "construct" /\ pc[opener] = "return" /\ i = num["devices"] - 1

RInv ==
  /\ RTypeOK /\ (\A t \in Threads : StageOf(t)) /\ Separate
  /\ TablesInv /\ IndexInv /\ CacheInv /\ OwnerInv /\ NoFault

-----------------------------------------------------------------------------
(* The two tables of every method. *)
LEMMA GrowsIs ==
  /\ Grows("construct") = "devices" /\ Grows("bindAddr") = "channels"
  /\ Grows("connect") = "send_handles"
  /\ Grows("send") = None /\ Grows("receive") = None /\ Grows(None) = None
  BY DEF Grows, None

LEMMA FollowsIs ==
  /\ Follows("bindAddr") = "devices" /\ Follows("receive") = "devices"
  /\ Follows("connect") = "channels" /\ Follows("send") = "send_handles"
  /\ Follows("construct") = None /\ Follows(None) = None
  BY DEF Follows, None

LEMMA TablesOf ==
  ASSUME NEW c \in Methods \cup {None}
  PROVE  /\ Grows(c) \in Tables <=> c \in {"construct", "bindAddr", "connect"}
         /\ Grows(c) \notin Tables => Grows(c) = None
         /\ Follows(c) \in Tables <=> c \notin {None, "construct"}
         /\ Grows(c) \in Tables => Grows(c) # Follows(c)
         /\ None \notin Tables
  BY GrowsIs, FollowsIs DEF Methods, Tables, None

(* The table that t grows, at every place of its native. *)
LEMMA GrowerSees ==
  ASSUME RInv, NEW t \in Threads, NEW tab \in Tables, Grower(t, tab)
  PROVE  /\ Growth(t, tab)
         /\ pc[t] # "pointer" => holders[tab] = {Global}
         /\ pc[t] \notin Grown => size[tab] = num[tab]
         /\ ~Ahead(t) /\ pc[t] # "bind" => filled[tab] = 0 .. num[tab] - 1
         /\ \A i \in Indices : i < num[tab] => entry[tab][i] # NoThread
<1>1. QuietTable(tab) /\ Growth(t, tab)
  BY DEF RInv, TablesInv
<1>2. \A u \in Threads : u # t => ~Grower(u, tab)
  BY DEF RInv, Separate
<1>3. pc[t] # "pointer" => \A u \in Threads : ~Mover(u, tab)
  BY <1>2 DEF Mover
<1> QED BY <1>1, <1>2, <1>3 DEF QuietTable

(* The table that t follows may be growing, but its block is in place and  *)
(* the entry that t has the index of is there.                             *)
LEMMA FollowedIsThere ==
  ASSUME RaceAssumption, RInv, NEW t \in Threads, InNative(t), call[t] \notin {None, "construct"}
  PROVE  LET from == Follows(call[t]) IN
         /\ from \in Tables /\ Usable(from, idx[t][from])
         /\ idx[t][from] \in Indices /\ idx[t][from] < num[from]
         /\ entry[from][idx[t][from]] \in Threads
<1> DEFINE from == Follows(call[t])
<1>1. from \in Tables /\ Follower(t, from)
  BY TablesOf DEF RInv, RTypeOK, None, Follower
<1>2. \A u \in Threads : ~Mover(u, from)
  BY <1>1 DEF RInv, Separate
<1>3. idx[t][from] # Unset
  BY DEF RInv, StageOf
<1>4. /\ idx[t][from] \in Indices /\ idx[t][from] < num[from] /\ num[from] \in Nat
      /\ size[from] \in Nat /\ idx[t][from] >= 0 /\ idx[t][from] \in filled[from]
  BY <1>1, <1>3, RaceAssumption DEF RInv, RTypeOK, IndexInv, Indices, RaceAssumption
<1>5. QuietTable(from)
  BY <1>1 DEF RInv, TablesInv
<1>6. /\ holders[from] = {Global} /\ num[from] <= size[from]
      /\ entry[from][idx[t][from]] # NoThread
  BY <1>2, <1>4, <1>5 DEF QuietTable
<1> HIDE DEF from
<1>7. Usable(from, idx[t][from])
  <2>1. idx[t][from] \in Int
    BY <1>4 DEF Indices
  <2>2. idx[t][from] \in 0 .. size[from] - 1
    BY <2>1, <1>4, <1>6
  <2> QED BY <2>2, <1>4, <1>6 DEF Usable, Addressable
<1>8. entry[from][idx[t][from]] \in Threads
  BY <1>1, <1>4, <1>6 DEF RInv, RTypeOK
<1> QED BY <1>1, <1>4, <1>7, <1>8 DEF from

-----------------------------------------------------------------------------
(* What a step of t leaves alone: other threads, and other tables than the *)
(* one that t grows.                                                       *)
Elsewhere(t) ==
  /\ \A u \in Threads \ {t} :
       pc'[u] = pc[u] /\ call'[u] = call[u] /\ reg'[u] = reg[u] /\ idx'[u] = idx[u]
  /\ \A tab \in Tables : ~Grower(t, tab) =>
       /\ holders'[tab] = holders[tab] /\ size'[tab] = size[tab] /\ num'[tab] = num[tab]
       /\ entry'[tab] = entry[tab] /\ filled'[tab] = filled[tab]

(* The others are in their natives as before. *)
LEMMA OthersStay ==
  ASSUME NEW t, NEW u, pc'[u] = pc[u], call'[u] = call[u], NEW tab
  PROVE  /\ Grower(u, tab)' <=> Grower(u, tab)
         /\ Follower(u, tab)' <=> Follower(u, tab)
         /\ Mover(u, tab)' <=> Mover(u, tab)
         /\ Ahead(u)' <=> Ahead(u)
  BY DEF Grower, Follower, Mover, Ahead, InNative

(* t may come to grow, follow or move a table when nobody is in its way.   *)
LEMMA SeparateKept ==
  ASSUME Separate, NEW t \in Threads,
         \A u \in Threads \ {t} : pc'[u] = pc[u] /\ call'[u] = call[u],
         \A tab \in Tables :
           /\ Grower(t, tab)' => Grower(t, tab) \/ \A u \in Threads : ~Grower(u, tab)
           /\ Follower(t, tab)' => Follower(t, tab) \/ \A u \in Threads : ~Mover(u, tab)
           /\ Mover(t, tab)' => /\ \A u \in Threads \ {t} : ~Follower(u, tab)
                                /\ ~Follower(t, tab)'
  PROVE  Separate'
<1> SUFFICES ASSUME NEW tab \in Tables, NEW v \in Threads, NEW u \in Threads
             PROVE  /\ Grower(v, tab)' /\ Grower(u, tab)' => v = u
                    /\ Mover(v, tab)' => ~Follower(u, tab)'
  BY DEF Separate
<1>1. \A w \in Threads \ {t} :
        /\ Grower(w, tab)' <=> Grower(w, tab)
        /\ Follower(w, tab)' <=> Follower(w, tab)
        /\ Mover(w, tab)' <=> Mover(w, tab)
  BY OthersStay
<1>2. Grower(v, tab)' /\ Grower(u, tab)' => v = u
  BY <1>1 DEF Separate
<1>3. Mover(v, tab)' => ~Follower(u, tab)'
  BY <1>1 DEF Separate
<1> QED BY <1>2, <1>3

LEMMA RestOfTables ==
  ASSUME RaceAssumption, RInv, NEW t \in Threads, Elsewhere(t),
         \A tab \in Tables : Grower(t, tab) => QuietTable(tab)',
         \A tab \in Tables : Grower(t, tab)' => Growth(t, tab)'
  PROVE  TablesInv'
<1>1. ASSUME NEW tab \in Tables PROVE QuietTable(tab)'
  <2>1. CASE Grower(t, tab)
    BY <2>1
  <2>2. CASE ~Grower(t, tab)
    <3>1. /\ holders'[tab] = holders[tab] /\ size'[tab] = size[tab] /\ num'[tab] = num[tab]
          /\ entry'[tab] = entry[tab] /\ filled'[tab] = filled[tab]
      BY <2>2 DEF Elsewhere
    <3>2. QuietTable(tab)
      BY DEF RInv, TablesInv
    <3>3. \A u \in Threads \ {t} :
            /\ pc'[u] = pc[u]
            /\ Grower(u, tab)' <=> Grower(u, tab)
            /\ Mover(u, tab)' <=> Mover(u, tab)
            /\ Ahead(u)' <=> Ahead(u)
      BY OthersStay DEF Elsewhere
    <3>4. ~Mover(t, tab)
      BY <2>2 DEF Mover
    <3>5. (\A u \in Threads : ~Mover(u, tab))' => \A u \in Threads : ~Mover(u, tab)
      BY <3>3, <3>4
    <3>6. (\A u \in Threads : Grower(u, tab) => pc[u] \notin Grown)'
            => \A u \in Threads : Grower(u, tab) => pc[u] \notin Grown
      BY <2>2, <3>3 DEF Grown
    <3>7. (\A u \in Threads : Grower(u, tab) => ~Ahead(u) /\ pc[u] # "bind")'
            => \A u \in Threads : Grower(u, tab) => ~Ahead(u) /\ pc[u] # "bind"
      BY <2>2, <3>3
    <3> QED BY <3>1, <3>2, <3>5, <3>6, <3>7 DEF QuietTable
  <2> QED BY <2>1, <2>2
<1>2. ASSUME NEW u \in Threads, NEW tab \in Tables, Grower(u, tab)'
      PROVE  Growth(u, tab)'
  <2>1. CASE u = t
    BY <1>2, <2>1
  <2>2. CASE u # t
    <3>1. pc'[u] = pc[u] /\ call'[u] = call[u] /\ reg'[u] = reg[u]
      BY <2>2 DEF Elsewhere
    <3>2. Grower(u, tab) /\ ~Grower(t, tab)
      BY <1>2, <2>2, <3>1, OthersStay DEF RInv, Separate
    <3>3. /\ holders'[tab] = holders[tab] /\ size'[tab] = size[tab] /\ num'[tab] = num[tab]
          /\ entry'[tab] = entry[tab] /\ filled'[tab] = filled[tab]
      BY <3>2 DEF Elsewhere
    <3>4. Growth(u, tab)
      BY <3>2 DEF RInv, TablesInv
    <3> QED BY <3>1, <3>3, <3>4 DEF Growth, Ahead
  <2> QED BY <2>1, <2>2
<1> QED BY <1>1, <1>2 DEF TablesInv

(* A step inside a native that grows a table: what is counted stays, and   *)
(* Java has not seen anything yet.                                         *)
LEMMA IndexKept ==
  ASSUME RaceAssumption, RInv, NEW t \in Threads,
         idx' = idx, call' = call, ipInUse' = ipInUse,
         \A u \in Threads \ {t} : pc'[u] = pc[u],
         pc[t] # "put", pc'[t] # "put",
         \A d \in Tables : num'[d] \in Nat /\ num'[d] >= num[d],
         \A d \in Tables : filled[d] \subseteq filled'[d],
         \A d \in Tables, i \in Indices : i < num[d] => entry'[d][i] = entry[d][i]
  PROVE  IndexInv' /\ CacheInv'
<1>0. "devices" \in Tables /\ {"channels", "send_handles"} \subseteq Tables /\ num \in [Tables -> Nat]
  BY RaceAssumption DEF RInv, RTypeOK, Tables, RaceAssumption
<1>1. IndexInv'
  <2> SUFFICES ASSUME NEW u \in Threads
               PROVE  /\ \A d \in Tables : idx[u][d] # Unset =>
                           idx[u][d] < num'[d] /\ idx[u][d] \in filled'[d]
                      /\ \A d \in {"channels", "send_handles"} :
                           idx[u][d] # Unset => entry'[d][idx[u][d]] = u
                      /\ idx[u]["devices"] # Unset =>
                           HostOf[entry'["devices"][idx[u]["devices"]]] = HostOf[u]
                      /\ call[u] = "construct" => (idx[u]["devices"] # Unset <=> pc'[u] = "put")
    BY DEF IndexInv
  <2>1. \A d \in Tables : idx[u][d] # Unset =>
          /\ idx[u][d] \in Indices /\ idx[u][d] < num[d] /\ idx[u][d] \in filled[d]
          /\ entry'[d][idx[u][d]] = entry[d][idx[u][d]]
    BY DEF RInv, RTypeOK, IndexInv
  <2>2. \A d \in Tables : idx[u][d] # Unset => idx[u][d] < num'[d] /\ idx[u][d] \in filled'[d]
    BY <1>0, <2>1 DEF Indices
  <2>3. u = t \/ pc'[u] = pc[u]
    OBVIOUS
  <2> QED BY <1>0, <2>1, <2>2, <2>3 DEF RInv, IndexInv
<1>2. CacheInv'
  <2> SUFFICES ASSUME NEW h \in Hosts, ipInUse[h] # Unset
               PROVE  /\ ipInUse[h] < num'["devices"] /\ ipInUse[h] \in filled'["devices"]
                      /\ HostOf[entry'["devices"][ipInUse[h]]] = h
    BY DEF CacheInv
  <2>1. ipInUse[h] \in Indices
    BY DEF RInv, RTypeOK
  <2> QED BY <1>0, <2>1 DEF RInv, CacheInv, Indices
<1> QED BY <1>1, <1>2

(* A device that comes to be counted is one whose opener returns it. *)
LEMMA OwnersKept ==
  ASSUME RaceAssumption, RInv, NEW t \in Threads,
         idx' = idx, call' = call, \A u \in Threads \ {t} : pc'[u] = pc[u],
         pc[t] # "return",
         \A i \in Indices : i < num["devices"] => entry'["devices"][i] = entry["devices"][i],
         \/ num'["devices"] = num["devices"]
         \/ /\ num'["devices"] = num["devices"] + 1 /\ Grower(t, "devices")
            /\ call[t] = "construct" /\ pc'[t] = "return"
            /\ entry'["devices"][num["devices"]] = t
  PROVE  OwnerInv'
<1>1. "devices" \in Tables /\ num["devices"] \in Nat
  BY RaceAssumption DEF RInv, RTypeOK, Tables, RaceAssumption
<1>2. SUFFICES ASSUME NEW i \in Indices, i < num'["devices"]
               PROVE  LET opener == entry'["devices"][i] IN
                      \/ idx[opener]["devices"] = i
                      \/ /\ call[opener] = "construct" /\ pc'[opener] = "return"
                         /\ i = num'["devices"] - 1
  BY DEF OwnerInv
<1>3. i \in Nat
  BY RaceAssumption DEF Indices, RaceAssumption
<1>4. CASE i < num["devices"]
  <2> DEFINE opener == entry["devices"][i]
  <2>1. entry'["devices"][i] = opener /\ opener \in Threads
    BY <1>1, <1>4 DEF RInv, RTypeOK, TablesInv, QuietTable
  <2>2. \/ idx[opener]["devices"] = i
        \/ call[opener] = "construct" /\ pc[opener] = "return" /\ i = num["devices"] - 1
    BY <1>4 DEF RInv, OwnerInv
  <2> HIDE DEF opener
  <2>3. CASE call[opener] = "construct" /\ pc[opener] = "return" /\ i = num["devices"] - 1
    <3>1. opener # t /\ Grower(opener, "devices")
      BY <2>3, GrowsIs DEF Grower, InNative
    <3>2. num'["devices"] = num["devices"]
      BY <1>1, <2>1, <3>1 DEF RInv, Separate
    <3> QED BY <2>1, <2>3, <3>1, <3>2
  <2> QED BY <2>1, <2>2, <2>3
<1>5. CASE ~(i < num["devices"])
  BY <1>1, <1>2, <1>3, <1>5
<1> QED BY <1>4, <1>5

(* A step of t inside a native that grows tab keeps the invariant when it  *)
(* leaves tab as its next place requires.                                  *)
LEMMA GrowStep ==
  ASSUME RaceAssumption, RInv, NEW t \in Threads, NEW tab \in Tables,
         tab = Grows(call[t]) /\ Grower(t, tab),
         RTypeOK', jvm' = jvm, idx' = idx, call' = call, ipInUse' = ipInUse,
         Elsewhere(t), StageOf(t)',
         pc[t] \in Grown \cup {"realloc", "bind"}, pc'[t] \in Grown \cup {"bind", "return"},
         pc'[t] = "pointer" => \A u \in Threads : ~Follower(u, tab),
         \/ num'[tab] = num[tab]
         \/ num'[tab] = num[tab] + 1 /\ (call[t] = "construct" => pc'[t] = "return"),
         filled[tab] \subseteq filled'[tab],
         \A i \in Indices : i < num[tab] => entry'[tab][i] = entry[tab][i],
         \A i \in Indices : i < num'[tab] => entry'[tab][i] # NoThread,
         pc'[t] # "pointer" => holders'[tab] = {Global},
         pc'[t] \notin Grown => size'[tab] = num'[tab],
         ~Ahead(t)' /\ pc'[t] # "bind" => filled'[tab] = 0 .. num'[tab] - 1,
         Growth(t, tab)'
  PROVE  RInv'
<1>0. /\ InNative(t) /\ InNative(t)' /\ Grower(t, tab)'
      /\ \A d \in Tables : Grower(t, d) => d = tab
      /\ \A d \in Tables : Follower(t, d)' <=> Follower(t, d)
      /\ \A u \in Threads \ {t} : pc'[u] = pc[u]
  BY DEF Grower, Follower, InNative, Grown, Elsewhere
<1>n. /\ \A d \in Tables : num[d] \in Nat /\ num'[d] \in Nat
      /\ \A d \in Tables : num'[d] >= num[d]
  <2>1. \A d \in Tables : num[d] \in Nat /\ num'[d] \in Nat
    BY RaceAssumption DEF RInv, RTypeOK, RaceAssumption
  <2> QED BY <1>0, <2>1 DEF Elsewhere
<1>1. \A u \in Threads : StageOf(u)'
  <2> SUFFICES ASSUME NEW u \in Threads, u # t PROVE StageOf(u)'
    OBVIOUS
  <2> QED BY DEF RInv, StageOf, Elsewhere
<1>2. Separate'
  <2>1. \A d \in Tables : Grower(t, d)' => Grower(t, d)
    BY <1>0 DEF Grower
  <2>2. \A d \in Tables : Mover(t, d)' => d = tab /\ pc'[t] = "pointer"
    BY <1>0, <2>1 DEF Mover
  <2>3. ~Follower(t, tab)
    BY TablesOf DEF Follower, RInv, RTypeOK
  <2> QED BY <1>0, <2>1, <2>2, <2>3, SeparateKept DEF RInv
<1>3. QuietTable(tab)'
  <2>1. pc'[t] \in Grown => size'[tab] = num[tab]' + 1
    BY DEF Growth
  <2>2. num'[tab] <= size'[tab]
    BY <1>n, <2>1
  <2>3. (\A u \in Threads : ~Mover(u, tab))' => holders'[tab] = {Global}
    BY <1>0 DEF Mover
  <2>4. (\A u \in Threads : Grower(u, tab) => pc[u] \notin Grown)' => size'[tab] = num'[tab]
    BY <1>0
  <2>5. (\A u \in Threads : Grower(u, tab) => ~Ahead(u) /\ pc[u] # "bind")'
          => filled'[tab] = 0 .. num'[tab] - 1
    BY <1>0
  <2> QED BY <2>2, <2>3, <2>4, <2>5 DEF QuietTable
<1>4. TablesInv'
  <2>1. \A d \in Tables : Grower(t, d)' => d = tab
    BY <1>0 DEF Grower
  <2> QED BY <1>0, <1>3, <2>1, RestOfTables
<1>5. \A d \in Tables, i \in Indices : i < num[d] => entry'[d][i] = entry[d][i]
  BY <1>0 DEF Elsewhere
<1>6. IndexInv' /\ CacheInv'
  <2>1. \A d \in Tables : filled[d] \subseteq filled'[d]
    BY <1>0 DEF Elsewhere
  <2>2. pc[t] # "put" /\ pc'[t] # "put"
    BY DEF Grown
  <2> QED BY <1>0, <1>n, <1>5, <2>1, <2>2, IndexKept
<1>7. OwnerInv'
  <2>1. "devices" \in Tables /\ pc[t] # "return"
    BY DEF Tables, Grown
  <2>2. CASE tab # "devices"
    <3>1. num'["devices"] = num["devices"]
      BY <1>0, <2>1, <2>2 DEF Elsewhere
    <3> QED BY <1>0, <1>5, <2>1, <3>1, OwnersKept
  <2>3. CASE tab = "devices"
    <3>1. call[t] = "construct"
      BY <2>3, GrowsIs DEF RInv, RTypeOK, Methods, None
    <3>2. num'[tab] # num[tab] => entry'[tab][num[tab]] = t
      BY <1>n, <3>1 DEF Growth
    <3>3. \/ num'["devices"] = num["devices"]
          \/ /\ num'["devices"] = num["devices"] + 1 /\ Grower(t, "devices")
             /\ call[t] = "construct" /\ pc'[t] = "return"
             /\ entry'["devices"][num["devices"]] = t
      BY <1>n, <2>3, <3>1, <3>2
    <3> QED BY <1>0, <1>5, <2>1, <3>3, OwnersKept
  <2> QED BY <2>2, <2>3
<1> QED BY <1>1, <1>2, <1>4, <1>6, <1>7 DEF RInv, NoFault

(* The facts about the grower's table that every growing step starts from. *)
LEMMA GrowerTypes ==
  ASSUME RaceAssumption, RInv, NEW t \in Threads, pc[t] \in Grown \cup {"realloc", "bind", "return"}
  PROVE  /\ Grows(call[t]) \in Tables /\ Grower(t, Grows(call[t]))
         /\ num[Grows(call[t])] \in Nat /\ num[Grows(call[t])] <= MaxEntries
         /\ call[t] \in {"construct", "bindAddr", "connect"}
         /\ MaxEntries \in Nat /\ t # Global
<1>1. call[t] \in {"construct", "bindAddr", "connect"}
  BY DEF RInv, RTypeOK, StageOf, Grown, Methods
<1>2. Grows(call[t]) \in Tables /\ InNative(t)
  BY <1>1, GrowsIs DEF Tables, InNative, Grown
<1> QED BY <1>1, <1>2, RaceAssumption DEF RInv, RTypeOK, RaceAssumption, Global, Grower

LEMMA ReallocKeeps ==
  ASSUME RaceAssumption, Apart, RInv, NEW t \in Threads, Realloc(t)
  PROVE  RInv'
<1>1. pc[t] = "realloc" /\ jvm = "up"
  BY DEF Realloc, At
<1>a. PICK tab \in Tables : tab = Grows(call[t]) /\ Grower(t, tab)
  BY <1>1, GrowerTypes DEF Grown
<1>b. /\ Growth(t, tab) /\ (pc[t] # "pointer" => holders[tab] = {Global})
      /\ (pc[t] \notin Grown => size[tab] = num[tab])
      /\ (~Ahead(t) /\ pc[t] # "bind" => filled[tab] = 0 .. num[tab] - 1)
      /\ \A i \in Indices : i < num[tab] => entry[tab][i] # NoThread
  BY <1>a, GrowerSees
<1>2. /\ num[tab] \in Nat /\ num[tab] < MaxEntries /\ MaxEntries \in Nat
      /\ t # Global /\ holders[tab] = {Global} /\ filled[tab] = 0 .. num[tab] - 1
      /\ \A i \in Indices : i < num[tab] => entry[tab][i] # NoThread
  BY <1>1, <1>a, <1>b, GrowerTypes DEF Growth, Grown, Ahead
<1>3. PICK others \in {{}, holders[tab]} :
        /\ holders' = [holders EXCEPT ![tab] = others \cup {t}]
        /\ size' = [size EXCEPT ![tab] = num[tab] + 1]
        /\ pc' = [pc EXCEPT ![t] = "pointer"]
        /\ UNCHANGED <<num, entry, filled, ipInUse, idx, call, reg, reached, jvm>>
  BY <1>a, <1>2 DEF Realloc, Goto, Enlarged
<1>c. \A u \in Threads : ~Follower(u, tab)
  BY <1>a DEF Realloc, MayMove, Following, Follower
<1>4. RTypeOK'
  <2>1. others \cup {t} \in SUBSET (Threads \cup {Global}) /\ num[tab] + 1 \in 0 .. MaxEntries
    BY <1>2, <1>3
  <2> QED BY <1>2, <1>3, <2>1 DEF RInv, RTypeOK
<1>5. Elsewhere(t)
  BY <1>a, <1>3 DEF Elsewhere, RInv, RTypeOK
<1>6. pc'[t] = "pointer" /\ size'[tab] = num[tab] + 1 /\ holders'[tab] = others \cup {t}
  BY <1>2, <1>3 DEF RInv, RTypeOK
<1>7. StageOf(t)'
  BY <1>1, <1>3, <1>6 DEF RInv, StageOf
<1>8. Growth(t, tab)'
  BY <1>2, <1>3, <1>6 DEF Growth, Grown, Ahead
<1> QED
  BY <1>a, <1>b, <1>c, <1>1, <1>2, <1>3, <1>4, <1>5, <1>6, <1>7, <1>8, GrowStep DEF Grown, Ahead

LEMMA StorePointerKeeps ==
  ASSUME RaceAssumption, RInv, NEW t \in Threads, StorePointer(t)
  PROVE  RInv'
<1>1. pc[t] = "pointer" /\ jvm = "up"
  BY DEF StorePointer, At
<1>a. PICK tab \in Tables : tab = Grows(call[t]) /\ Grower(t, tab)
  BY <1>1, GrowerTypes DEF Grown
<1>b. /\ Growth(t, tab) /\ (pc[t] # "pointer" => holders[tab] = {Global})
      /\ (pc[t] \notin Grown => size[tab] = num[tab])
      /\ (~Ahead(t) /\ pc[t] # "bind" => filled[tab] = 0 .. num[tab] - 1)
      /\ \A i \in Indices : i < num[tab] => entry[tab][i] # NoThread
  BY <1>a, GrowerSees
<1>2. /\ num[tab] \in Nat /\ num[tab] < MaxEntries /\ MaxEntries \in Nat
      /\ t # Global /\ t \in holders[tab] /\ holders[tab] \subseteq {t, Global}
      /\ size[tab] = num[tab] + 1 /\ filled[tab] = 0 .. num[tab] - 1
      /\ \A i \in Indices : i < num[tab] => entry[tab][i] # NoThread
  BY <1>1, <1>a, <1>b, GrowerTypes DEF Growth, Grown, Ahead
<1>3. /\ holders' = [holders EXCEPT ![tab] =
                       (@ \ {t, Global}) \cup (IF t \in @ THEN {Global} ELSE {})]
      /\ pc' = [pc EXCEPT ![t] = "entry"]
      /\ UNCHANGED <<size, num, entry, filled, ipInUse, idx, call, reg, reached, jvm>>
  BY <1>a DEF StorePointer, Goto
<1>4. holders' = [holders EXCEPT ![tab] = {Global}]
  <2>1. (holders[tab] \ {t, Global}) \cup (IF t \in holders[tab] THEN {Global} ELSE {}) = {Global}
    BY <1>2
  <2> QED BY <1>2, <1>3, <2>1 DEF RInv, RTypeOK
<1>5. RTypeOK'
  BY <1>2, <1>3, <1>4 DEF RInv, RTypeOK
<1>6. Elsewhere(t)
  BY <1>a, <1>3, <1>4 DEF Elsewhere, RInv, RTypeOK
<1>7. pc'[t] = "entry" /\ holders'[tab] = {Global}
  BY <1>2, <1>3, <1>4 DEF RInv, RTypeOK
<1>8. StageOf(t)'
  BY <1>1, <1>3, <1>7 DEF RInv, StageOf
<1>9. Growth(t, tab)'
  BY <1>2, <1>3, <1>7 DEF Growth, Grown, Ahead
<1> QED
  BY <1>a, <1>b, <1>1, <1>2, <1>3, <1>5, <1>6, <1>7, <1>8, <1>9, GrowStep DEF Grown, Ahead

LEMMA StoreEntryKeeps ==
  ASSUME RaceAssumption, RInv, NEW t \in Threads, StoreEntry(t)
  PROVE  RInv'
<1> DEFINE next == IF call[t] = "construct" THEN "open" ELSE "count"
<1>1. pc[t] = "entry" /\ jvm = "up"
  BY DEF StoreEntry, At
<1>a. PICK tab \in Tables : tab = Grows(call[t]) /\ Grower(t, tab)
  BY <1>1, GrowerTypes DEF Grown
<1>b. /\ Growth(t, tab) /\ (pc[t] # "pointer" => holders[tab] = {Global})
      /\ (pc[t] \notin Grown => size[tab] = num[tab])
      /\ (~Ahead(t) /\ pc[t] # "bind" => filled[tab] = 0 .. num[tab] - 1)
      /\ \A i \in Indices : i < num[tab] => entry[tab][i] # NoThread
  BY <1>a, GrowerSees
<1>2. /\ num[tab] \in Nat /\ num[tab] < MaxEntries /\ MaxEntries \in Nat
      /\ holders[tab] = {Global} /\ size[tab] = num[tab] + 1 /\ filled[tab] = 0 .. num[tab] - 1
      /\ \A i \in Indices : i < num[tab] => entry[tab][i] # NoThread
  BY <1>1, <1>a, <1>b, GrowerTypes DEF Growth, Grown, Ahead
<1>3. Addressable(tab, NextEntry(tab))
  <2> QED BY <1>2 DEF Addressable, NextEntry
<1>4. /\ entry' = [entry EXCEPT ![tab][num[tab]] = t]
      /\ pc' = [pc EXCEPT ![t] = next]
      /\ UNCHANGED <<holders, size, num, filled, ipInUse, idx, call, reg, reached, jvm>>
  BY <1>a, <1>3 DEF StoreEntry, Goto, NextEntry
<1>5. num[tab] \in Indices
  BY <1>2 DEF Indices
<1>6. RTypeOK'
  BY <1>2, <1>4, <1>5 DEF RInv, RTypeOK
<1>7. /\ \A d \in Tables \ {tab} : entry'[d] = entry[d]
      /\ \A i \in Indices : entry'[tab][i] = IF i = num[tab] THEN t ELSE entry[tab][i]
  BY <1>2, <1>4 DEF RInv, RTypeOK
<1>8. Elsewhere(t)
  BY <1>a, <1>4, <1>7 DEF Elsewhere, RInv, RTypeOK
<1>9. pc'[t] = next /\ entry'[tab][num[tab]] = t
  BY <1>4, <1>5, <1>7 DEF RInv, RTypeOK
<1>10. StageOf(t)'
  BY <1>1, <1>4, <1>9 DEF RInv, StageOf
<1>11. Growth(t, tab)' /\ (~Ahead(t)' => filled'[tab] = 0 .. num'[tab] - 1)
  <2>1. pc'[t] \in {"open", "count"} /\ (pc'[t] = "count" => call'[t] # "construct")
    BY <1>4, <1>9
  <2> HIDE DEF next
  <2> QED BY <1>2, <1>4, <1>9, <2>1 DEF Growth, Grown, Ahead
<1>12. t # NoThread
  BY RaceAssumption DEF RaceAssumption
<1>13. /\ \A i \in Indices : i < num[tab] => entry'[tab][i] = entry[tab][i]
       /\ \A i \in Indices : i < num'[tab] => entry'[tab][i] # NoThread
  BY <1>2, <1>4, <1>7
<1> QED
  BY <1>a, <1>b, <1>1, <1>2, <1>4, <1>6, <1>8, <1>9, <1>10, <1>11, <1>13, GrowStep DEF Grown

LEMMA OpenKeeps ==
  ASSUME RaceAssumption, RInv, NEW t \in Threads, Open(t), ~Exit
  PROVE  RInv'
<1>1. pc[t] = "open" /\ jvm = "up" /\ call[t] = "construct" /\ Grows(call[t]) = "devices"
  BY GrowsIs DEF Open, At, RInv, StageOf
<1>a. PICK tab \in Tables : tab = Grows(call[t]) /\ Grower(t, tab)
  BY <1>1, GrowerTypes DEF Grown
<1>b. /\ Growth(t, tab) /\ (pc[t] # "pointer" => holders[tab] = {Global})
      /\ (pc[t] \notin Grown => size[tab] = num[tab])
      /\ (~Ahead(t) /\ pc[t] # "bind" => filled[tab] = 0 .. num[tab] - 1)
      /\ \A i \in Indices : i < num[tab] => entry[tab][i] # NoThread
  BY <1>a, GrowerSees
<1>2. /\ num[tab] \in Nat /\ num[tab] < MaxEntries /\ MaxEntries \in Nat
      /\ holders[tab] = {Global} /\ size[tab] = num[tab] + 1 /\ filled[tab] = 0 .. num[tab] - 1
      /\ entry[tab][num[tab]] = t
      /\ \A i \in Indices : i < num[tab] => entry[tab][i] # NoThread
  BY <1>1, <1>a, <1>b, GrowerTypes DEF Growth, Grown, Ahead
<1>3. Addressable(tab, num[tab])
  BY <1>2 DEF Addressable
<1>4. /\ filled' = [filled EXCEPT ![tab] = @ \cup {num[tab]}]
      /\ pc' = [pc EXCEPT ![t] = "count"]
      /\ UNCHANGED <<holders, size, num, entry, ipInUse, idx, call, reg, reached, jvm>>
  BY <1>1, <1>a, <1>3 DEF Open, Goto
<1>5. filled' = [filled EXCEPT ![tab] = 0 .. num[tab]]
  <2>1. (0 .. num[tab] - 1) \cup {num[tab]} = 0 .. num[tab]
    BY <1>2
  <2> QED BY <1>2, <1>4, <2>1 DEF RInv, RTypeOK
<1>6. 0 .. num[tab] \subseteq Indices
  BY <1>2 DEF Indices
<1>7. RTypeOK'
  BY <1>2, <1>4, <1>5, <1>6 DEF RInv, RTypeOK
<1>8. Elsewhere(t)
  BY <1>a, <1>1, <1>4, <1>5 DEF Elsewhere, RInv, RTypeOK
<1>9. pc'[t] = "count" /\ filled'[tab] = 0 .. num[tab]
  BY <1>2, <1>4, <1>5 DEF RInv, RTypeOK
<1>10. StageOf(t)'
  BY <1>1, <1>4, <1>9 DEF RInv, StageOf
<1>11. Growth(t, tab)' /\ Ahead(t)'
  BY <1>1, <1>2, <1>4, <1>9 DEF Growth, Grown, Ahead
<1> QED
  BY <1>a, <1>b, <1>1, <1>2, <1>4, <1>7, <1>8, <1>9, <1>10, <1>11, GrowStep DEF Grown

LEMMA LoadNumKeeps ==
  ASSUME RaceAssumption, RInv, NEW t \in Threads, LoadNum(t)
  PROVE  RInv'
<1>1. pc[t] = "count" /\ jvm = "up"
  BY DEF LoadNum, At
<1>a. PICK tab \in Tables : tab = Grows(call[t]) /\ Grower(t, tab)
  BY <1>1, GrowerTypes DEF Grown
<1>b. /\ Growth(t, tab) /\ (pc[t] # "pointer" => holders[tab] = {Global})
      /\ (~Ahead(t) /\ pc[t] # "bind" => filled[tab] = 0 .. num[tab] - 1)
      /\ \A i \in Indices : i < num[tab] => entry[tab][i] # NoThread
  BY <1>a, GrowerSees
<1>2. num[tab] \in Nat /\ num[tab] < MaxEntries /\ MaxEntries \in Nat /\ holders[tab] = {Global}
  BY <1>1, <1>a, <1>b, GrowerTypes DEF Growth, Grown
<1>3. /\ reg' = [reg EXCEPT ![t] = num[tab]]
      /\ pc' = [pc EXCEPT ![t] = "counted"]
      /\ UNCHANGED <<holders, size, num, entry, filled, ipInUse, idx, call, reached, jvm>>
  BY <1>a DEF LoadNum, Goto, tabvars
<1>4. RTypeOK'
  BY <1>2, <1>3 DEF RInv, RTypeOK
<1>5. Elsewhere(t)
  BY <1>3 DEF Elsewhere, RInv, RTypeOK
<1>6. pc'[t] = "counted" /\ reg'[t] = num[tab]
  BY <1>3 DEF RInv, RTypeOK
<1>7. StageOf(t)'
  BY <1>1, <1>3, <1>6 DEF RInv, StageOf
<1>8. Ahead(t)' = Ahead(t)
  BY <1>1, <1>3, <1>6 DEF Ahead
<1>9. Growth(t, tab)'
  BY <1>1, <1>2, <1>3, <1>6, <1>8, <1>b DEF Growth, Grown
<1> QED
  BY <1>a, <1>b, <1>1, <1>2, <1>3, <1>4, <1>5, <1>6, <1>7, <1>8, <1>9, GrowStep DEF Grown

LEMMA StoreNumKeeps ==
  ASSUME RaceAssumption, RInv, NEW t \in Threads, StoreNum(t)
  PROVE  RInv'
<1> DEFINE next == IF call[t] = "construct" THEN "return" ELSE "bind"
<1>1. pc[t] = "counted" /\ jvm = "up"
  BY DEF StoreNum, At
<1>a. PICK tab \in Tables : tab = Grows(call[t]) /\ Grower(t, tab)
  BY <1>1, GrowerTypes DEF Grown
<1>b. /\ Growth(t, tab) /\ (pc[t] # "pointer" => holders[tab] = {Global})
      /\ (~Ahead(t) /\ pc[t] # "bind" => filled[tab] = 0 .. num[tab] - 1)
      /\ \A i \in Indices : i < num[tab] => entry[tab][i] # NoThread
  BY <1>a, GrowerSees
<1>2. /\ num[tab] \in Nat /\ num[tab] < MaxEntries /\ MaxEntries \in Nat
      /\ holders[tab] = {Global} /\ size[tab] = num[tab] + 1
      /\ entry[tab][num[tab]] = t /\ reg[t] = num[tab] /\ t # NoThread
      /\ call[t] \in {"construct", "bindAddr", "connect"}
      /\ filled[tab] = IF call[t] = "construct" THEN 0 .. num[tab] ELSE 0 .. num[tab] - 1
  BY <1>1, <1>a, <1>b, GrowerTypes, RaceAssumption DEF Growth, Grown, Ahead, RaceAssumption
<1>3. /\ num' = [num EXCEPT ![tab] = num[tab] + 1]
      /\ reg' = [reg EXCEPT ![t] = 0]
      /\ pc' = [pc EXCEPT ![t] = next]
      /\ UNCHANGED <<holders, size, entry, filled, ipInUse, idx, call, reached, jvm>>
  BY <1>a, <1>2 DEF StoreNum, Goto
<1>4. RTypeOK'
  BY <1>2, <1>3 DEF RInv, RTypeOK
<1>5. Elsewhere(t)
  BY <1>a, <1>3 DEF Elsewhere, RInv, RTypeOK
<1>6. pc'[t] = next /\ num'[tab] = num[tab] + 1
  BY <1>3 DEF RInv, RTypeOK
<1>7. StageOf(t)'
  BY <1>1, <1>2, <1>3, <1>6 DEF RInv, StageOf
<1>8. /\ num'[tab] - 1 = num[tab] /\ num'[tab] - 2 = num[tab] - 1
      /\ ~Ahead(t)' /\ (pc'[t] # "bind" => call[t] = "construct")
      /\ (pc'[t] = "bind" => call[t] # "construct")
      /\ pc'[t] \in {"return", "bind"}
  BY <1>2, <1>6 DEF Ahead
<1> HIDE DEF next
<1>9. Growth(t, tab)'
  BY <1>2, <1>3, <1>6, <1>8 DEF Growth, Grown
<1>10. pc'[t] # "bind" => filled'[tab] = 0 .. num'[tab] - 1
  BY <1>2, <1>3, <1>8
<1>11. \A i \in Indices : i < num'[tab] => entry'[tab][i] # NoThread
  BY <1>b, <1>2, <1>3, <1>6 DEF Indices
<1> QED
  BY <1>a, <1>1, <1>2, <1>3, <1>4, <1>5, <1>6, <1>7, <1>8, <1>9, <1>10, <1>11, GrowStep DEF Grown

LEMMA BindKeeps ==
  ASSUME RaceAssumption, RInv, NEW t \in Threads, Bind(t), ~Exit
  PROVE  RInv'
<1> DEFINE from == Follows(call[t])
<1>1. pc[t] = "bind" /\ jvm = "up" /\ call[t] \in {"bindAddr", "connect"}
  BY DEF Bind, At, RInv, StageOf
<1>a. PICK tab \in Tables : tab = Grows(call[t]) /\ Grower(t, tab)
  BY <1>1, GrowerTypes DEF Grown
<1>b. /\ Growth(t, tab) /\ (pc[t] # "pointer" => holders[tab] = {Global})
      /\ (pc[t] \notin Grown => size[tab] = num[tab])
      /\ \A i \in Indices : i < num[tab] => entry[tab][i] # NoThread
  BY <1>a, GrowerSees
<1>2. /\ num[tab] \in Nat /\ num[tab] <= MaxEntries /\ MaxEntries \in Nat
      /\ holders[tab] = {Global} /\ size[tab] = num[tab]
      /\ num[tab] > 0 /\ entry[tab][num[tab] - 1] = t /\ filled[tab] = 0 .. num[tab] - 2
  BY <1>1, <1>a, <1>b, GrowerTypes DEF Growth, Grown
<1>3. /\ from \in Tables /\ Usable(from, idx[t][from]) /\ idx[t][from] \in Indices
      /\ entry[from][idx[t][from]] \in Threads
  BY <1>1, FollowedIsThere DEF None, InNative
<1>4. Addressable(tab, FreshEntry(tab))
  BY <1>2 DEF Addressable, FreshEntry
<1> HIDE DEF from
<1>5. /\ filled' = [filled EXCEPT ![tab] = @ \cup {num[tab] - 1}]
      /\ reached' = <<t, from, idx[t][from], entry[from][idx[t][from]]>>
      /\ pc' = [pc EXCEPT ![t] = "return"]
      /\ UNCHANGED <<holders, size, num, entry, ipInUse, idx, call, reg, jvm>>
  BY <1>a, <1>3, <1>4 DEF Bind, Goto, Uses, FreshEntry, from
<1>6. filled' = [filled EXCEPT ![tab] = 0 .. num[tab] - 1]
  <2>1. (0 .. num[tab] - 2) \cup {num[tab] - 1} = 0 .. num[tab] - 1
    BY <1>2
  <2> QED BY <1>2, <1>5, <2>1 DEF RInv, RTypeOK
<1>7. 0 .. num[tab] - 1 \subseteq Indices
  BY <1>2 DEF Indices
<1>8. RTypeOK'
  <2>1. reached' \in Threads \X Tables \X Indices \X (Threads \cup {NoThread})
    BY <1>3, <1>5
  <2> QED BY <1>5, <1>6, <1>7, <2>1 DEF RInv, RTypeOK
<1>9. Elsewhere(t)
  BY <1>a, <1>5, <1>6 DEF Elsewhere, RInv, RTypeOK
<1>10. pc'[t] = "return" /\ filled'[tab] = 0 .. num[tab] - 1
  BY <1>5, <1>6 DEF RInv, RTypeOK
<1>11. StageOf(t)'
  BY <1>1, <1>5, <1>10 DEF RInv, StageOf
<1>12. Growth(t, tab)'
  BY <1>2, <1>5, <1>10 DEF Growth, Grown, Ahead
<1>13. /\ num' = num /\ entry' = entry /\ jvm' = jvm /\ idx' = idx /\ call' = call
       /\ ipInUse' = ipInUse /\ holders'[tab] = {Global} /\ size'[tab] = num'[tab]
  BY <1>2, <1>5
<1>14. \A i \in Indices : i < num'[tab] => entry'[tab][i] # NoThread
  BY <1>b, <1>13
<1>15. filled[tab] \subseteq filled'[tab]
  BY <1>2, <1>10
<1>16. pc[t] = "bind" /\ pc'[t] = "return" /\ "return" \notin Grown
  BY <1>1, <1>10 DEF Grown
<1> QED
  BY <1>a, <1>8, <1>9, <1>10, <1>11, <1>12, <1>13, <1>14, <1>15, <1>16, GrowStep

-----------------------------------------------------------------------------
(* A step of t outside its native, or into or out of it. *)
LEMMA OuterStep ==
  ASSUME RaceAssumption, RInv, NEW t \in Threads, RTypeOK', StageOf(t)',
         Separate', IndexInv', CacheInv', OwnerInv',
         UNCHANGED tabvars, jvm' = jvm, reg' = reg,
         \A u \in Threads \ {t} : pc'[u] = pc[u] /\ call'[u] = call[u] /\ idx'[u] = idx[u],
         \A tab \in Tables : Grower(t, tab) => pc[t] = "return",
         \A tab \in Tables : Grower(t, tab)' => pc'[t] = "realloc" /\ num[tab] < MaxEntries
  PROVE  RInv'
<1>1. Elsewhere(t)
  BY DEF Elsewhere, tabvars
<1>2. \A u \in Threads : StageOf(u)'
  <2> SUFFICES ASSUME NEW u \in Threads, u # t PROVE StageOf(u)'
    OBVIOUS
  <2> QED BY DEF RInv, StageOf
<1>3. ASSUME NEW tab \in Tables, Grower(t, tab) PROVE QuietTable(tab)'
  <2>1. /\ holders[tab] = {Global} /\ size[tab] = num[tab]
        /\ filled[tab] = 0 .. num[tab] - 1
        /\ \A i \in Indices : i < num[tab] => entry[tab][i] # NoThread
    BY <1>3, GrowerSees DEF Grown, Ahead
  <2>2. num[tab] \in Nat
    BY RaceAssumption DEF RInv, RTypeOK, RaceAssumption
  <2> QED BY <2>1, <2>2 DEF QuietTable, tabvars
<1>4. ASSUME NEW tab \in Tables, Grower(t, tab)' PROVE Growth(t, tab)'
  BY <1>4 DEF Growth, Grown, Ahead, tabvars
<1>5. TablesInv'
  BY <1>1, <1>3, <1>4, RestOfTables
<1> QED BY <1>2, <1>5 DEF RInv, NoFault

(* Who is in no native at the end of a step is in nobody's way. *)
LEMMA OutOfTheWay ==
  ASSUME RInv, NEW t \in Threads, ~InNative(t)',
         \A u \in Threads \ {t} : pc'[u] = pc[u] /\ call'[u] = call[u]
  PROVE  Separate' /\ \A tab \in Tables : ~Grower(t, tab)'
<1>1. \A tab : ~Grower(t, tab)' /\ ~Follower(t, tab)' /\ ~Mover(t, tab)'
  BY DEF Grower, Follower, Mover
<1> QED BY <1>1, SeparateKept DEF RInv

(* t has no device yet, and keeps its place as far as devices go. *)
LEMMA OwnersStay ==
  ASSUME RaceAssumption, RInv, NEW t \in Threads, UNCHANGED tabvars,
         \A u \in Threads \ {t} : pc'[u] = pc[u] /\ call'[u] = call[u] /\ idx'[u] = idx[u],
         idx[t]["devices"] = Unset \/ idx'[t]["devices"] = idx[t]["devices"],
         call[t] = "construct" => pc[t] # "return"
  PROVE  OwnerInv'
<1>1. SUFFICES ASSUME NEW i \in Indices, i < num["devices"]
               PROVE  LET opener == entry["devices"][i] IN
                      \/ idx'[opener]["devices"] = i
                      \/ /\ call'[opener] = "construct" /\ pc'[opener] = "return"
                         /\ i = num["devices"] - 1
  BY DEF OwnerInv, tabvars
<1> DEFINE opener == entry["devices"][i]
<1>2. opener \in Threads /\ i # Unset
  <2>1. QuietTable("devices") /\ "devices" \in Tables
    BY DEF RInv, TablesInv, Tables
  <2>2. i \in Nat
    BY RaceAssumption DEF RaceAssumption, Indices
  <2>3. entry["devices"][i] \in Threads \cup {NoThread}
    BY <2>1 DEF RInv, RTypeOK
  <2> QED BY <1>1, <2>1, <2>2, <2>3 DEF QuietTable, Unset
<1>3. \/ idx[opener]["devices"] = i
      \/ call[opener] = "construct" /\ pc[opener] = "return" /\ i = num["devices"] - 1
  BY <1>1 DEF RInv, OwnerInv
<1> HIDE DEF opener
<1>4. CASE opener = t
  BY <1>2, <1>3, <1>4 DEF opener
<1>5. CASE opener # t
  BY <1>2, <1>3, <1>5 DEF opener
<1> QED BY <1>4, <1>5

(* Whoever may grow a table is alone with it, and there is room. *)
LEMMA RoomForOne ==
  ASSUME RaceAssumption, Apart, RInv, NEW tab \in Tables, MayGrow(tab)
  PROVE  num[tab] < MaxEntries /\ \A u \in Threads : ~Grower(u, tab)
<1>1. Growing(tab) = {} /\ num[tab] + Cardinality(Growing(tab)) < MaxEntries
  BY DEF MayGrow
<1>2. num[tab] \in Nat
  BY RaceAssumption DEF RInv, RTypeOK, RaceAssumption
<1>3. num[tab] < MaxEntries
  BY <1>1, <1>2, FS_EmptySet
<1> QED BY <1>1, <1>3 DEF Growing, Grower

(* A method begins in the right order; its native, when nothing keeps it.  *)
LEMMA BeginKeeps ==
  ASSUME RaceAssumption, Apart, RInv, NEW t \in Threads, NEW c \in Methods, Begin(t, c)
  PROVE  RInv'
<1> DEFINE step == IF c = "construct" THEN "check" ELSE IF Grows(c) = None THEN "use" ELSE "realloc"
<1>1. /\ pc[t] = "idle" /\ jvm = "up" /\ call[t] = None /\ InOrder(t, c)
      /\ c \in {"bindAddr", "connect"} => MayGrow(Grows(c))
      /\ c # "construct" => MayFollow(Follows(c))
      /\ UNCHANGED <<tabvars, ipInUse, idx, reg, reached, jvm>>
  BY DEF Begin, At, RInv, StageOf
<1>2. call' = [call EXCEPT ![t] = c] /\ pc' = [pc EXCEPT ![t] = step]
  BY DEF Begin, Goto
<1>3. /\ c \in {"construct", "bindAddr", "connect", "send", "receive"}
      /\ step \in {"check", "use", "realloc"}
      /\ step = "check" <=> c = "construct"
      /\ step = "use" <=> c \in {"send", "receive"}
      /\ step = "realloc" <=> c \in {"bindAddr", "connect"}
      /\ Grows(c) \in Tables <=> step # "use"
  BY GrowsIs DEF Methods, Tables, None
<1> HIDE DEF step
<1>4. RTypeOK'
  BY <1>1, <1>2, <1>3 DEF RInv, RTypeOK, tabvars
<1>5. /\ pc'[t] = step /\ call'[t] = c
      /\ \A u \in Threads \ {t} : pc'[u] = pc[u] /\ call'[u] = call[u] /\ idx'[u] = idx[u]
  BY <1>1, <1>2 DEF RInv, RTypeOK
<1>6. idx' = idx /\ reg' = reg /\ jvm' = jvm /\ ipInUse' = ipInUse /\ UNCHANGED tabvars
  BY <1>1
<1>7. StageOf(t)'
  <2>1. c \notin {None, "construct"} => idx[t][Follows(c)] # Unset
    BY <1>1, <1>3, FollowsIs DEF InOrder
  <2> QED BY <1>3, <1>5, <1>6, <2>1 DEF StageOf, None
<1>8. \A tab \in Tables : Grower(t, tab)' => step = "realloc" /\ MayGrow(tab)
  BY <1>1, <1>3, <1>5, GrowsIs DEF Grower, InNative, None, Tables
<1>9. Separate'
  <2>1. \A tab \in Tables : Follower(t, tab)' => \A u \in Threads : ~Mover(u, tab)
    <3> SUFFICES ASSUME NEW tab \in Tables, Follower(t, tab)', NEW u \in Threads, Mover(u, tab)
                 PROVE  FALSE
      OBVIOUS
    <3>1. Follows(c) = tab
      BY <1>5 DEF Follower
    <3>2. c # "construct" /\ tab # None
      BY <3>1, FollowsIs DEF Tables, None
    <3>3. Moving(tab) = {}
      BY <1>1, <3>1, <3>2 DEF MayFollow
    <3> QED BY <3>3 DEF Moving, Growing, Mover, Grower
  <2>2. \A tab \in Tables : ~Mover(t, tab)'
    BY <1>3, <1>5 DEF Mover
  <2> QED BY <1>5, <1>8, <2>1, <2>2, RoomForOne, SeparateKept DEF RInv
<1>10. IndexInv' /\ CacheInv'
  <2>1. ASSUME NEW u \in Threads
        PROVE  /\ pc'[u] = "put" <=> pc[u] = "put"
               /\ call'[u] = "construct" /\ call[u] # "construct" =>
                    pc'[u] = "check" /\ idx[u]["devices"] = Unset
    <3>1. CASE u = t
      BY <1>1, <1>3, <1>5, <3>1 DEF InOrder, None
    <3>2. CASE u # t
      BY <1>5, <3>2
    <3> QED BY <3>1, <3>2
  <2> QED BY <1>6, <2>1 DEF RInv, IndexInv, CacheInv, tabvars
<1>11. OwnerInv'
  BY <1>1, <1>5, <1>6, OwnersStay DEF None
<1>12. \A tab \in Tables : ~Grower(t, tab)
  BY <1>1 DEF Grower, InNative
<1>13. \A tab \in Tables : Grower(t, tab)' => pc'[t] = "realloc" /\ num[tab] < MaxEntries
  BY <1>5, <1>8, RoomForOne
<1> QED BY <1>4, <1>5, <1>6, <1>7, <1>9, <1>10, <1>11, <1>12, <1>13, OuterStep

LEMMA CreateKeeps ==
  ASSUME RaceAssumption, Apart, RInv, NEW t \in Threads, Create(t)
  PROVE  RInv'
<1>1. /\ pc[t] = "create" /\ jvm = "up" /\ call[t] = "construct" /\ MayGrow("devices")
      /\ pc' = [pc EXCEPT ![t] = "realloc"]
      /\ UNCHANGED <<tabvars, ipInUse, idx, call, reg, reached, jvm>>
  BY DEF Create, At, Goto, RInv, StageOf
<1>2. /\ pc'[t] = "realloc" /\ \A u \in Threads \ {t} : pc'[u] = pc[u]
      /\ call' = call /\ idx' = idx /\ "devices" \in Tables
  BY <1>1 DEF RInv, RTypeOK, Tables
<1>3. RTypeOK'
  BY <1>1 DEF RInv, RTypeOK, tabvars
<1>4. StageOf(t)'
  BY <1>1, <1>2 DEF RInv, StageOf
<1>5. num["devices"] < MaxEntries /\ \A u \in Threads : ~Grower(u, "devices")
  BY <1>1, <1>2, RoomForOne
<1>6. \A tab \in Tables :
        /\ Grower(t, tab)' => tab = "devices"
        /\ ~Follower(t, tab)' /\ ~Mover(t, tab)' /\ ~Grower(t, tab)
  BY <1>1, <1>2, GrowsIs, FollowsIs DEF Grower, Follower, Mover, InNative, Tables, None
<1>7. Separate'
  BY <1>2, <1>5, <1>6, SeparateKept DEF RInv
<1>8. IndexInv' /\ CacheInv'
  <2>1. \A u \in Threads : pc'[u] = "put" <=> pc[u] = "put"
    BY <1>1, <1>2
  <2> QED BY <1>1, <2>1 DEF RInv, IndexInv, CacheInv, tabvars
<1>9. OwnerInv'
  BY <1>1, <1>2, OwnersStay
<1>10. UNCHANGED tabvars /\ jvm' = jvm /\ reg' = reg
  BY <1>1
<1>11. /\ \A u \in Threads \ {t} : pc'[u] = pc[u] /\ call'[u] = call[u] /\ idx'[u] = idx[u]
       /\ \A tab \in Tables : Grower(t, tab) => pc[t] = "return"
       /\ \A tab \in Tables : Grower(t, tab)' => pc'[t] = "realloc" /\ num[tab] < MaxEntries
  BY <1>2, <1>5, <1>6
<1> QED BY <1>3, <1>4, <1>7, <1>8, <1>9, <1>10, <1>11, OuterStep

LEMMA CheckKeeps ==
  ASSUME RaceAssumption, RInv, NEW t \in Threads, Check(t)
  PROVE  RInv'
<1> DEFINE h == HostOf[t]
<1>1. /\ pc[t] = "check" /\ jvm = "up" /\ call[t] = "construct" /\ idx[t]["devices"] = Unset
      /\ h \in Hosts /\ "devices" \in Tables /\ ~InNative(t)
  BY RaceAssumption DEF Check, At, RInv, StageOf, IndexInv, RaceAssumption, Tables, InNative
<1>2. UNCHANGED tabvars /\ ipInUse' = ipInUse /\ reg' = reg /\ reached' = reached /\ jvm' = jvm
  BY DEF Check
<1>a. \A tab \in Tables : ~Grower(t, tab)
  BY <1>1 DEF Grower
<1>3. CASE ipInUse[h] = Unset /\ Goto(t, "create") /\ UNCHANGED <<idx, call>>
  <2>1. RTypeOK'
    BY <1>2, <1>3 DEF RInv, RTypeOK, Goto, tabvars
  <2>2. /\ pc'[t] = "create" /\ \A u \in Threads \ {t} : pc'[u] = pc[u]
        /\ idx' = idx /\ call' = call
    BY <1>3 DEF RInv, RTypeOK, Goto
  <2>3. StageOf(t)' /\ ~InNative(t)'
    BY <1>1, <2>2 DEF RInv, StageOf, InNative
  <2>4. IndexInv' /\ CacheInv'
    <3>1. \A u \in Threads : pc'[u] = "put" <=> pc[u] = "put"
      BY <1>1, <2>2
    <3> QED BY <1>2, <2>2, <3>1 DEF RInv, IndexInv, CacheInv, tabvars
  <2>5. OwnerInv'
    BY <1>1, <1>2, <2>2, OwnersStay
  <2>6. Separate' /\ \A tab \in Tables : ~Grower(t, tab)'
    BY <2>2, <2>3, OutOfTheWay
  <2> QED BY <1>2, <1>a, <2>1, <2>2, <2>3, <2>4, <2>5, <2>6, OuterStep
<1>4. CASE ipInUse[h] # Unset /\ idx' = [idx EXCEPT ![t].devices = ipInUse[h]] /\ Finish(t)
  <2>1. /\ ipInUse[h] \in Indices /\ ipInUse[h] < num["devices"] /\ ipInUse[h] \in filled["devices"]
        /\ HostOf[entry["devices"][ipInUse[h]]] = h
    BY <1>1, <1>4 DEF RInv, RTypeOK, CacheInv
  <2>2. RTypeOK'
    BY <1>1, <1>2, <1>4, <2>1 DEF RInv, RTypeOK, Finish, Goto, tabvars
  <2>3. /\ pc'[t] = "idle" /\ call'[t] = None
        /\ \A u \in Threads \ {t} : pc'[u] = pc[u] /\ call'[u] = call[u] /\ idx'[u] = idx[u]
        /\ idx'[t]["devices"] = ipInUse[h]
        /\ \A tab \in Tables \ {"devices"} : idx'[t][tab] = idx[t][tab]
    BY <1>1, <1>4 DEF RInv, RTypeOK, Finish, Goto
  <2>4. StageOf(t)' /\ ~InNative(t)'
    BY <2>3 DEF StageOf, None, InNative
  <2>5. IndexInv'
    <3>1. ASSUME NEW u \in Threads
          PROVE  /\ \A tab \in Tables : idx'[u][tab] # Unset =>
                      idx'[u][tab] < num[tab] /\ idx'[u][tab] \in filled[tab]
                 /\ \A tab \in {"channels", "send_handles"} :
                      idx'[u][tab] # Unset => entry[tab][idx'[u][tab]] = u
                 /\ idx'[u]["devices"] # Unset =>
                      HostOf[entry["devices"][idx'[u]["devices"]]] = HostOf[u]
                 /\ call'[u] = "construct" => (idx'[u]["devices"] # Unset <=> pc'[u] = "put")
      <4>1. CASE u = t
        BY <2>1, <2>3, <4>1 DEF RInv, IndexInv, Tables, None
      <4>2. CASE u # t
        BY <2>3, <4>2 DEF RInv, IndexInv
      <4> QED BY <4>1, <4>2
    <3> QED BY <1>2, <3>1 DEF IndexInv, tabvars
  <2>6. CacheInv'
    BY <1>2 DEF RInv, CacheInv, tabvars
  <2>7. OwnerInv'
    BY <1>1, <1>2, <2>3, OwnersStay
  <2>8. Separate' /\ \A tab \in Tables : ~Grower(t, tab)'
    BY <2>3, <2>4, OutOfTheWay
  <2> QED BY <1>2, <1>a, <2>2, <2>3, <2>4, <2>5, <2>6, <2>7, <2>8, OuterStep
<1> QED BY <1>2, <1>3, <1>4 DEF Check

LEMMA ReturnKeeps ==
  ASSUME RaceAssumption, RInv, NEW t \in Threads, Return(t)
  PROVE  RInv'
<1> DEFINE next == IF call[t] = "construct" THEN "put" ELSE "idle"
           left == IF call[t] = "construct" THEN "construct" ELSE None
<1>1. /\ pc[t] = "return" /\ jvm = "up"
      /\ UNCHANGED tabvars /\ ipInUse' = ipInUse /\ reg' = reg /\ reached' = reached /\ jvm' = jvm
  BY DEF Return, At
<1>2. PICK tab \in Tables : tab = Grows(call[t]) /\ Grower(t, tab)
  BY <1>1, GrowerTypes
<1>3. /\ Growth(t, tab) /\ num[tab] \in Nat /\ num[tab] <= MaxEntries /\ MaxEntries \in Nat
      /\ call[t] \in {"construct", "bindAddr", "connect"}
      /\ filled[tab] = 0 .. num[tab] - 1
  BY <1>1, <1>2, GrowerSees, GrowerTypes DEF Ahead
<1>4. /\ num[tab] - 1 \in Indices /\ num[tab] - 1 < num[tab] /\ entry[tab][num[tab] - 1] = t
      /\ num[tab] - 1 \in filled[tab]
  BY <1>1, <1>3 DEF Growth, Indices
<1>5. /\ idx' = [idx EXCEPT ![t][tab] = num[tab] - 1]
      /\ pc' = [pc EXCEPT ![t] = next]
      /\ call' = [call EXCEPT ![t] = left]
  BY <1>2 DEF Return, Returns, Finish, Goto, RInv, RTypeOK
<1>6. RTypeOK'
  BY <1>1, <1>3, <1>4, <1>5 DEF RInv, RTypeOK, tabvars
<1>7. /\ pc'[t] = next /\ call'[t] = left
      /\ \A u \in Threads \ {t} : pc'[u] = pc[u] /\ call'[u] = call[u] /\ idx'[u] = idx[u]
      /\ idx'[t][tab] = num[tab] - 1
      /\ \A d \in Tables \ {tab} : idx'[t][d] = idx[t][d]
  BY <1>5 DEF RInv, RTypeOK
<1>8. /\ next \in {"idle", "put"}
      /\ next = "put" <=> call[t] = "construct"
      /\ left = "construct" <=> call[t] = "construct"
      /\ left # "construct" => left = None
      /\ call[t] = "construct" <=> tab = "devices"
  BY <1>2, <1>3, GrowsIs DEF None
<1> HIDE DEF next, left
<1>9. StageOf(t)' /\ ~InNative(t)'
  BY <1>7, <1>8 DEF StageOf, None, InNative
<1>10. IndexInv'
  <2>1. ASSUME NEW u \in Threads
        PROVE  /\ \A d \in Tables : idx'[u][d] # Unset =>
                    idx'[u][d] < num[d] /\ idx'[u][d] \in filled[d]
               /\ \A d \in {"channels", "send_handles"} :
                    idx'[u][d] # Unset => entry[d][idx'[u][d]] = u
               /\ idx'[u]["devices"] # Unset =>
                    HostOf[entry["devices"][idx'[u]["devices"]]] = HostOf[u]
               /\ call'[u] = "construct" => (idx'[u]["devices"] # Unset <=> pc'[u] = "put")
    <3>1. CASE u # t
      BY <1>7, <3>1 DEF RInv, IndexInv
    <3>2. CASE u = t
      <4>1. \A d \in Tables : idx'[t][d] # Unset => idx'[t][d] < num[d] /\ idx'[t][d] \in filled[d]
        BY <1>4, <1>7 DEF RInv, IndexInv
      <4>2. \A d \in {"channels", "send_handles"} : idx'[t][d] # Unset => entry[d][idx'[t][d]] = t
        BY <1>4, <1>7 DEF RInv, IndexInv, Tables
      <4>3. idx'[t]["devices"] # Unset => HostOf[entry["devices"][idx'[t]["devices"]]] = HostOf[t]
        BY <1>4, <1>7 DEF RInv, IndexInv, Tables
      <4>4. call'[t] = "construct" => (idx'[t]["devices"] # Unset <=> pc'[t] = "put")
        BY <1>4, <1>7, <1>8 DEF Indices, Unset
      <4> QED BY <3>2, <4>1, <4>2, <4>3, <4>4
    <3> QED BY <3>1, <3>2
  <2> QED BY <1>1, <2>1 DEF IndexInv, tabvars
<1>11. CacheInv'
  BY <1>1 DEF RInv, CacheInv, tabvars
<1>12. OwnerInv'
  <2>1. CASE call[t] # "construct"
    <3>1. idx'[t]["devices"] = idx[t]["devices"]
      BY <1>7, <1>8, <2>1 DEF Tables
    <3> QED BY <1>1, <1>7, <2>1, <3>1, OwnersStay
  <2>2. CASE call[t] = "construct"
    <3>1. SUFFICES ASSUME NEW i \in Indices, i < num["devices"]
                   PROVE  idx'[entry["devices"][i]]["devices"] = i
      BY <1>1 DEF OwnerInv, tabvars
    <3> DEFINE opener == entry["devices"][i]
    <3>a. tab = "devices" /\ idx[t]["devices"] = Unset
      BY <1>1, <1>8, <2>2 DEF RInv, IndexInv
    <3>b. opener # NoThread
      BY <3>1, <3>a DEF RInv, TablesInv, QuietTable
    <3>c. opener \in Threads
      BY <3>1, <3>a, <3>b DEF RInv, RTypeOK
    <3>2. tab = "devices" /\ idx[t]["devices"] = Unset /\ opener \in Threads /\ i # Unset
      BY <3>1, <3>a, <3>c, RaceAssumption DEF Indices, Unset, RaceAssumption
    <3>3. \/ idx[opener]["devices"] = i
          \/ call[opener] = "construct" /\ pc[opener] = "return" /\ i = num["devices"] - 1
      BY <3>1 DEF RInv, OwnerInv
    <3> HIDE DEF opener
    <3>4. CASE opener = t
      BY <1>7, <3>2, <3>3, <3>4 DEF opener
    <3>5. CASE opener # t
      <4>1. ~Grower(opener, tab)
        BY <1>2, <3>2, <3>5 DEF RInv, Separate
      <4>2. ~(call[opener] = "construct" /\ pc[opener] = "return")
        BY <3>2, <4>1, GrowsIs DEF Grower, InNative
      <4> QED BY <1>7, <3>2, <3>3, <3>5, <4>2 DEF opener
    <3> QED BY <3>4, <3>5
  <2> QED BY <2>1, <2>2
<1>13. Separate' /\ \A d \in Tables : ~Grower(t, d)'
  BY <1>7, <1>9, OutOfTheWay
<1> QED BY <1>1, <1>6, <1>7, <1>9, <1>10, <1>11, <1>12, <1>13, OuterStep

(* The put of a device that somebody else's put may have been before. *)
LEMMA PutKeeps ==
  ASSUME RaceAssumption, RInv, NEW t \in Threads, Put(t)
  PROVE  RInv'
<1> DEFINE h == HostOf[t]  d == idx[t]["devices"]
<1>1. /\ pc[t] = "put" /\ jvm = "up" /\ call[t] = "construct" /\ h \in Hosts /\ "devices" \in Tables
      /\ UNCHANGED tabvars /\ idx' = idx /\ reg' = reg /\ reached' = reached /\ jvm' = jvm
  BY RaceAssumption DEF Put, At, RInv, StageOf, RaceAssumption, Tables
<1>2. /\ d # Unset /\ d \in Indices /\ d < num["devices"] /\ d \in filled["devices"]
      /\ HostOf[entry["devices"][d]] = h
  BY <1>1 DEF RInv, RTypeOK, IndexInv
<1>3. ipInUse' = [ipInUse EXCEPT ![h] = d] /\ Finish(t)
  BY DEF Put
<1>4. RTypeOK'
  BY <1>1, <1>2, <1>3 DEF RInv, RTypeOK, Finish, Goto, tabvars
<1>5. /\ pc'[t] = "idle" /\ call'[t] = None
      /\ \A u \in Threads \ {t} : pc'[u] = pc[u] /\ call'[u] = call[u]
      /\ \A g \in Hosts : ipInUse'[g] = IF g = h THEN d ELSE ipInUse[g]
  BY <1>1, <1>3 DEF RInv, RTypeOK, Finish, Goto
<1>6. StageOf(t)' /\ ~InNative(t)'
  BY <1>5 DEF StageOf, None, InNative
<1>7. \A tab \in Tables : ~Grower(t, tab)
  BY <1>1 DEF Grower, InNative
<1> HIDE DEF h, d
<1>8. IndexInv'
  <2>1. \A u \in Threads : u = t \/ (call'[u] = call[u] /\ pc'[u] = pc[u])
    BY <1>5
  <2>2. call'[t] # "construct"
    BY <1>5 DEF None
  <2> QED BY <1>1, <2>1, <2>2 DEF RInv, IndexInv, tabvars
<1>9. CacheInv'
  <2> SUFFICES ASSUME NEW g \in Hosts, ipInUse'[g] # Unset
               PROVE  /\ ipInUse'[g] < num["devices"] /\ ipInUse'[g] \in filled["devices"]
                      /\ HostOf[entry["devices"][ipInUse'[g]]] = g
    BY <1>1 DEF CacheInv, tabvars
  <2>1. CASE g = h
    BY <1>2, <1>5, <2>1
  <2>2. CASE g # h
    BY <1>5, <2>2 DEF RInv, CacheInv
  <2> QED BY <2>1, <2>2
<1>10. OwnerInv'
  BY <1>1, <1>5, OwnersStay
<1>11. Separate' /\ \A tab \in Tables : ~Grower(t, tab)'
  BY <1>5, <1>6, OutOfTheWay
<1>12. \A u \in Threads \ {t} : pc'[u] = pc[u] /\ call'[u] = call[u] /\ idx'[u] = idx[u]
  BY <1>1, <1>5
<1> QED BY <1>1, <1>4, <1>6, <1>7, <1>8, <1>9, <1>10, <1>11, <1>12, OuterStep

LEMMA UseKeeps ==
  ASSUME RaceAssumption, RInv, NEW t \in Threads, Use(t)
  PROVE  RInv'
<1> DEFINE from == Follows(call[t])
<1>1. pc[t] = "use" /\ jvm = "up" /\ call[t] \in {"send", "receive"} /\ InNative(t)
  BY DEF Use, At, RInv, StageOf, InNative
<1>2. /\ from \in Tables /\ Usable(from, idx[t][from]) /\ idx[t][from] \in Indices
      /\ entry[from][idx[t][from]] \in Threads
  BY <1>1, FollowedIsThere DEF None
<1>3. /\ reached' = <<t, from, idx[t][from], entry[from][idx[t][from]]>> /\ Finish(t)
      /\ UNCHANGED tabvars /\ ipInUse' = ipInUse /\ idx' = idx /\ reg' = reg /\ jvm' = jvm
  BY <1>2 DEF Use, Uses
<1>4. \A tab \in Tables : ~Grower(t, tab)
  BY <1>1, GrowsIs DEF Grower, Tables, None
<1> HIDE DEF from
<1>5. RTypeOK'
  <2>1. reached' \in Threads \X Tables \X Indices \X (Threads \cup {NoThread})
    BY <1>2, <1>3
  <2> QED BY <1>3, <2>1 DEF RInv, RTypeOK, Finish, Goto, tabvars
<1>6. /\ pc'[t] = "idle" /\ call'[t] = None
      /\ \A u \in Threads \ {t} : pc'[u] = pc[u] /\ call'[u] = call[u]
  BY <1>3 DEF RInv, RTypeOK, Finish, Goto
<1>7. StageOf(t)' /\ ~InNative(t)'
  BY <1>6 DEF StageOf, None, InNative
<1>8. IndexInv' /\ CacheInv'
  <2>1. \A u \in Threads : (call'[u] = call[u] /\ pc'[u] = pc[u]) \/ u = t
    BY <1>6
  <2>2. pc[t] # "put" /\ call'[t] # "construct"
    BY <1>1, <1>6 DEF None
  <2> QED BY <1>3, <2>1, <2>2 DEF RInv, IndexInv, CacheInv, tabvars
<1>9. OwnerInv'
  BY <1>1, <1>3, <1>6, OwnersStay
<1>10. Separate' /\ \A tab \in Tables : ~Grower(t, tab)'
  BY <1>6, <1>7, OutOfTheWay
<1>11. \A u \in Threads \ {t} : pc'[u] = pc[u] /\ call'[u] = call[u] /\ idx'[u] = idx[u]
  BY <1>3, <1>6
<1> QED BY <1>3, <1>4, <1>5, <1>7, <1>8, <1>9, <1>10, <1>11, OuterStep

-----------------------------------------------------------------------------
LEMMA InitInv ==
  ASSUME RaceAssumption, RInit
  PROVE  RInv
<1>1. RTypeOK
  BY RaceAssumption DEF RInit, RTypeOK, RaceAssumption, Indices, Tables, Methods, Global, None, Unset
<1>2. \A t \in Threads : StageOf(t)
  BY DEF RInit, StageOf, None
<1>3. \A t \in Threads : \A tab : ~Grower(t, tab) /\ ~Follower(t, tab) /\ ~Mover(t, tab)
  BY DEF RInit, Grower, Follower, Mover, InNative
<1>4. Separate
  BY <1>3 DEF Separate
<1>5. TablesInv
  <2>1. ASSUME NEW tab \in Tables PROVE QuietTable(tab)
    BY DEF RInit, QuietTable, Indices
  <2> QED BY <1>3, <2>1 DEF TablesInv
<1>6. IndexInv /\ CacheInv /\ OwnerInv /\ NoFault
  BY DEF RInit, IndexInv, CacheInv, OwnerInv, NoFault, Tables, None, Indices
<1> QED BY <1>1, <1>2, <1>4, <1>5, <1>6 DEF RInv

LEMMA NothingMoves ==
  ASSUME RInv, UNCHANGED <<tabvars, ipInUse, idx, call, pc, reg, reached>>, jvm' \in {jvm, "exit"}
  PROVE  RInv'
<1>1. RTypeOK' /\ (\A t \in Threads : StageOf(t)') /\ NoFault'
  BY DEF RInv, RTypeOK, StageOf, NoFault, tabvars
<1>2. \A t, tab : /\ Grower(t, tab)' <=> Grower(t, tab)
                  /\ Follower(t, tab)' <=> Follower(t, tab)
                  /\ Mover(t, tab)' <=> Mover(t, tab)
                  /\ Ahead(t)' <=> Ahead(t)
  BY DEF Grower, Follower, Mover, InNative, Ahead
<1>3. Separate'
  BY <1>2 DEF RInv, Separate
<1>4. ASSUME NEW tab \in Tables PROVE QuietTable(tab)'
  BY <1>2 DEF RInv, TablesInv, QuietTable, tabvars
<1>5. ASSUME NEW t \in Threads, NEW tab \in Tables, Grower(t, tab)' PROVE Growth(t, tab)'
  BY <1>2, <1>5 DEF RInv, TablesInv, Growth, tabvars
<1>6. IndexInv' /\ CacheInv' /\ OwnerInv'
  BY DEF RInv, IndexInv, CacheInv, OwnerInv, tabvars
<1> QED BY <1>1, <1>3, <1>4, <1>5, <1>6 DEF RInv, TablesInv

LEMMA StepInv ==
  ASSUME RaceAssumption, Apart, RInv, [RNext]_rvars
  PROVE  RInv'
<1>1. CASE UNCHANGED rvars
  BY <1>1, NothingMoves DEF rvars
<1>2. CASE Exit
  BY <1>2, NothingMoves DEF Exit
<1>3. CASE RNext /\ ~Exit
  <2>1. PICK t \in Threads :
          \/ \E c \in Methods : Begin(t, c)
          \/ Check(t) \/ Create(t) \/ Realloc(t) \/ StorePointer(t) \/ StoreEntry(t) \/ Open(t)
          \/ LoadNum(t) \/ StoreNum(t) \/ Bind(t) \/ Return(t) \/ Put(t) \/ Use(t)
    BY <1>3 DEF RNext
  <2> QED
    BY <1>3, <2>1, BeginKeeps, CheckKeeps, CreateKeeps, ReallocKeeps, StorePointerKeeps,
       StoreEntryKeeps, OpenKeeps, LoadNumKeeps, StoreNumKeeps, BindKeeps, ReturnKeeps, PutKeeps, UseKeeps
<1> QED BY <1>1, <1>2, <1>3

LEMMA Invariance == Apart => (RSpec => []RInv)
<1> SUFFICES ASSUME Apart PROVE RSpec => []RInv
  OBVIOUS
<1>1. RInit => RInv
  BY RaceAssumption, InitInv
<1>2. RInv /\ [RNext]_rvars => RInv'
  BY RaceAssumption, StepInv
<1> QED BY <1>1, <1>2, PTL DEF RSpec

-----------------------------------------------------------------------------
(* Counters and table sizes stay within their bounds, and an index is one  *)
(* of the table: threads that keep apart lose no update of a counter.      *)
THEOREM RaceTypes == Apart => (RSpec => []RTypeOK)
<1> SUFFICES ASSUME Apart PROVE RSpec => []RTypeOK
  OBVIOUS
<1>1. RInv => RTypeOK
  BY DEF RInv
<1> QED BY <1>1, Invariance, PTL

(* No thread follows a pointer that another's realloc() has freed, an      *)
(* index beyond a table or an entry that the library has not filled.       *)
THEOREM NoThreadFaults == Apart => (RSpec => []NoFault)
<1> SUFFICES ASSUME Apart PROVE RSpec => []NoFault
  OBVIOUS
<1>1. RInv => NoFault
  BY DEF RInv
<1> QED BY <1>1, Invariance, PTL

(* What createDeviceC, bindAddrC and sendConnectC return names an entry of *)
(* the thread's own, or the device of a thread with the same address.      *)
THEOREM IndicesAreOwn == Apart => (RSpec => []IndicesNameOwnObjects)
<1> SUFFICES ASSUME Apart PROVE RSpec => []IndicesNameOwnObjects
  OBVIOUS
<1>1. RInv => IndicesNameOwnObjects
  <2> SUFFICES ASSUME RInv, NEW t \in Threads, idx[t]["devices"] # Unset
               PROVE  LET opener == entry["devices"][idx[t]["devices"]] IN
                      opener # NoThread /\ HostOf[opener] = HostOf[t]
    BY DEF IndicesNameOwnObjects, RInv, IndexInv
  <2>1. idx[t]["devices"] \in Indices /\ idx[t]["devices"] < num["devices"]
    BY DEF RInv, RTypeOK, IndexInv, Tables
  <2> QED BY <2>1 DEF RInv, IndexInv, TablesInv, QuietTable, Tables
<1> QED BY <1>1, Invariance, PTL

(* Constructors may look for an address at once and each open a device for *)
(* it, the last put staying in ipInUse: every device opened is still the   *)
(* device of who opened it, and ipInUse names a device of the address.     *)
THEOREM NoDeviceGetsLost == Apart => (RSpec => []NoDeviceIsLost)
<1> SUFFICES ASSUME Apart PROVE RSpec => []NoDeviceIsLost
  OBVIOUS
<1>1. RInv => NoDeviceIsLost
  <2> SUFFICES ASSUME RInv PROVE NoDeviceIsLost
    OBVIOUS
  <2>1. "devices" \in Tables /\ num["devices"] \in Nat
    BY RaceAssumption DEF RInv, RTypeOK, Tables, RaceAssumption
  <2>2. ASSUME NEW i \in filled["devices"]
        PROVE  LET opener == entry["devices"][i] IN
               idx[opener].devices = i \/ (call[opener] = "construct" /\ InNative(opener))
    <3>1. i \in Indices /\ i \in Nat
      BY <2>1, RaceAssumption DEF RInv, RTypeOK, Indices, RaceAssumption
    <3>2. CASE i < num["devices"]
      BY <3>1, <3>2 DEF RInv, OwnerInv, InNative
    <3>3. CASE ~(i < num["devices"])
      <4>1. i \notin 0 .. num["devices"] - 1
        BY <2>1, <3>1, <3>3
      <4>2. PICK t \in Threads : Grower(t, "devices") /\ (Ahead(t) \/ pc[t] = "bind")
        BY <2>1, <2>2, <4>1 DEF RInv, TablesInv, QuietTable
      <4>3. call[t] = "construct" /\ Ahead(t)
        BY <4>2, GrowsIs DEF Grower, RInv, StageOf, Ahead
      <4>4. filled["devices"] = 0 .. num["devices"] /\ entry["devices"][num["devices"]] = t
        BY <2>1, <4>2, <4>3 DEF RInv, TablesInv, Growth, Ahead
      <4>5. i = num["devices"]
        BY <2>1, <2>2, <3>1, <3>3, <4>4
      <4> QED BY <4>2, <4>3, <4>4, <4>5 DEF Grower
    <3> QED BY <3>2, <3>3
  <2> QED BY <2>2 DEF NoDeviceIsLost, RInv, CacheInv
<1> QED BY <1>1, Invariance, PTL

-----------------------------------------------------------------------------
(* Refinement.  The objects that HandleTables sees: those that are counted *)
(* and that the library has made.                                          *)
Handed == [tab \in Tables |-> [i \in Indices |-> IF i \in filled[tab] /\ i < num[tab]
                                                 THEN entry[tab][i] ELSE NoThread]]

Same == Handed' = Handed
Gives(t, tab, i) ==
  /\ Handed[tab][i] = NoThread
  /\ Handed' = [Handed EXCEPT ![tab][i] = t]
Sees(t, tab, i) ==
  /\ Handed[tab][i] # NoThread
  /\ reached' = <<t, tab, i, Handed[tab][i]>>

LEMMA SameObjects ==
  ASSUME \A tab \in Tables, i \in Indices :
           (IF i \in filled[tab] /\ i < num[tab] THEN entry[tab][i] ELSE NoThread)'
             = IF i \in filled[tab] /\ i < num[tab] THEN entry[tab][i] ELSE NoThread
  PROVE  Same
  BY DEF Same, Handed

LEMMA OneObjectMore ==
  ASSUME RInv, NEW t \in Threads, NEW tab \in Tables, NEW i \in Indices,
         Handed[tab][i] = NoThread, Handed'[tab][i] = t,
         \A d \in Tables, j \in Indices : d # tab \/ j # i => Handed'[d][j] = Handed[d][j]
  PROVE  Gives(t, tab, i)
<1>1. /\ Handed' = [d \in Tables |-> [j \in Indices |-> Handed'[d][j]]]
      /\ Handed = [d \in Tables |-> [j \in Indices |-> Handed[d][j]]]
  BY DEF Handed
<1>2. [Handed EXCEPT ![tab][i] = t]
        = [d \in Tables |-> [j \in Indices |-> IF d = tab /\ j = i THEN t ELSE Handed[d][j]]]
  <2> DEFINE H == [d \in Tables |-> [j \in Indices |-> Handed[d][j]]]
  <2>1. Handed = H
    BY <1>1
  <2>2. [H EXCEPT ![tab][i] = t]
          = [d \in Tables |-> [j \in Indices |-> IF d = tab /\ j = i THEN t ELSE Handed[d][j]]]
    OBVIOUS
  <2> QED BY <2>1, <2>2
<1>3. \A d \in Tables, j \in Indices :
        Handed'[d][j] = IF d = tab /\ j = i THEN t ELSE Handed[d][j]
  OBVIOUS
<1> QED BY <1>1, <1>2, <1>3 DEF Gives

(* A step that leaves the counters and the library's objects, and of the   *)
(* entries changes at most one that is not counted yet, is a stutter.      *)
LEMMA Unseen ==
  ASSUME RaceAssumption, RInv, NEW tab \in Tables, num' = num,
         \A d \in Tables, i \in Indices : i < num[d] => (i \in filled'[d] <=> i \in filled[d]),
         \A d \in Tables, i \in Indices : i < num[d] => entry'[d][i] = entry[d][i]
  PROVE  Same
  BY SameObjects

LEMMA StoreEntryUnseen ==
  ASSUME RaceAssumption, RInv, NEW t \in Threads, StoreEntry(t), jvm' # "broken"
  PROVE  Same /\ reached' = reached
<1>1. pc[t] = "entry"
  BY DEF StoreEntry, At
<1>2. PICK tab \in Tables : tab = Grows(call[t]) /\ Grower(t, tab)
  BY <1>1, GrowerTypes DEF Grown
<1>3. num[tab] \in Nat /\ num[tab] < MaxEntries
  BY <1>1, <1>2, GrowerTypes, GrowerSees DEF Growth, Grown
<1>4. /\ entry' = [entry EXCEPT ![tab][num[tab]] = t]
      /\ UNCHANGED <<num, filled, reached>>
  BY <1>2 DEF StoreEntry, Broken, NextEntry
<1>5. \A d \in Tables, i \in Indices : i < num[d] => entry'[d][i] = entry[d][i]
  BY <1>2, <1>3, <1>4 DEF RInv, RTypeOK
<1> QED BY <1>2, <1>4, <1>5, Unseen

LEMMA OpenUnseen ==
  ASSUME RaceAssumption, RInv, NEW t \in Threads, Open(t), jvm' # "broken"
  PROVE  Same /\ reached' = reached
<1>1. "devices" \in Tables /\ num["devices"] \in Nat
  BY RaceAssumption DEF RInv, RTypeOK, Tables, RaceAssumption
<1>2. CASE filled' = filled /\ UNCHANGED <<num, entry, reached>>
  BY <1>1, <1>2, Unseen
<1>3. CASE /\ filled' = [filled EXCEPT !["devices"] = @ \cup {num["devices"]}]
           /\ UNCHANGED <<num, entry, reached>>
  <2>1. \A d \in Tables, i \in Indices : i < num[d] => (i \in filled'[d] <=> i \in filled[d])
    BY <1>1, <1>3 DEF RInv, RTypeOK
  <2> QED BY <1>1, <1>3, <2>1, Unseen
<1> QED BY <1>2, <1>3 DEF Open, Broken, Exit, tabvars

(* The counter hands out a device; a channel or handle is not made yet.    *)
LEMMA StoreNumSeen ==
  ASSUME RaceAssumption, RInv, NEW t \in Threads, StoreNum(t)
  PROVE  /\ reached' = reached
         /\ Same \/ \E tab \in Tables, i \in Indices : Gives(t, tab, i)
<1>1. pc[t] = "counted" /\ reached' = reached
  BY DEF StoreNum, At
<1>2. PICK tab \in Tables : tab = Grows(call[t]) /\ Grower(t, tab)
  BY <1>1, GrowerTypes DEF Grown
<1>3. Growth(t, tab) /\ (~Ahead(t) => filled[tab] = 0 .. num[tab] - 1)
  BY <1>1, <1>2, GrowerSees
<1>4. /\ num[tab] \in Nat /\ num[tab] < MaxEntries /\ MaxEntries \in Nat
      /\ entry[tab][num[tab]] = t /\ reg[t] = num[tab]
      /\ filled[tab] = 0 .. num[tab] - 1 \/ filled[tab] = 0 .. num[tab]
  BY <1>1, <1>2, <1>3, GrowerTypes DEF Growth, Grown
<1>5. num' = [num EXCEPT ![tab] = num[tab] + 1] /\ UNCHANGED <<entry, filled>>
  BY <1>2, <1>4 DEF StoreNum
<1>6. num[tab] \in Indices
  BY <1>4 DEF Indices
<1>7. \A d \in Tables : num'[d] = IF d = tab THEN num[tab] + 1 ELSE num[d]
  BY <1>5 DEF RInv, RTypeOK
<1>8. CASE filled[tab] = 0 .. num[tab] - 1
  <2>1. \A i \in Indices : i \in filled[tab] /\ i < num'[tab] <=> i \in filled[tab] /\ i < num[tab]
    BY <1>4, <1>7, <1>8 DEF Indices
  <2> QED BY <1>1, <1>5, <1>7, <2>1, SameObjects
<1>9. CASE filled[tab] = 0 .. num[tab]
  <2>1. \A i \in Indices : i # num[tab] =>
          (i \in filled[tab] /\ i < num'[tab] <=> i \in filled[tab] /\ i < num[tab])
    BY <1>4, <1>7, <1>9 DEF Indices
  <2>2. Handed[tab][num[tab]] = NoThread
    BY <1>4, <1>6 DEF Handed
  <2>3. Handed'[tab][num[tab]] = t
    BY <1>4, <1>5, <1>6, <1>7, <1>9 DEF Handed
  <2>4. \A d \in Tables, j \in Indices : d # tab \/ j # num[tab] => Handed'[d][j] = Handed[d][j]
    BY <1>5, <1>7, <2>1 DEF Handed
  <2>5. Gives(t, tab, num[tab])
    BY <1>6, <2>2, <2>3, <2>4, OneObjectMore
  <2> QED BY <1>1, <1>6, <2>5
<1> QED BY <1>4, <1>8, <1>9

(* What a thread follows was handed out, and is what it sees. *)
LEMMA FollowedSeen ==
  ASSUME RaceAssumption, RInv, NEW t \in Threads, InNative(t), call[t] \notin {None, "construct"},
         Uses(t, Follows(call[t]), idx[t][Follows(call[t])])
  PROVE  \E from \in Tables, i \in Indices : from = Follows(call[t]) /\ Sees(t, from, i)
<1> DEFINE from == Follows(call[t])  i == idx[t][from]
<1>1. /\ from \in Tables /\ i \in Indices /\ i < num[from] /\ i \in filled[from]
      /\ entry[from][i] \in Threads
  BY FollowedIsThere DEF Usable
<1>2. reached' = <<t, from, i, entry[from][i]>>
  BY DEF Uses
<1> HIDE DEF from, i
<1>3. Handed[from][i] = entry[from][i] /\ Handed[from][i] # NoThread
  BY <1>1, RaceAssumption DEF Handed, RaceAssumption
<1> QED BY <1>1, <1>2, <1>3 DEF Sees, from

(* The library makes a channel or a handle, and hands it out. *)
LEMMA BindSeen ==
  ASSUME RaceAssumption, RInv, NEW t \in Threads, Bind(t), jvm' # "broken"
  PROVE  \/ Same /\ reached' = reached
         \/ \E from \in Tables, i \in Indices :
              /\ Sees(t, from, i)
              /\ \E tab \in Tables \ {from}, j \in Indices : Gives(t, tab, j)
<1>1. pc[t] = "bind" /\ call[t] \in {"bindAddr", "connect"}
  BY DEF Bind, At, RInv, StageOf
<1>2. PICK tab \in Tables : tab = Grows(call[t]) /\ Grower(t, tab)
  BY <1>1, GrowerTypes DEF Grown
<1>3. Growth(t, tab)
  BY <1>2, GrowerSees
<1>4. /\ num[tab] \in Nat /\ num[tab] > 0 /\ num[tab] <= MaxEntries /\ MaxEntries \in Nat
      /\ entry[tab][num[tab] - 1] = t /\ filled[tab] = 0 .. num[tab] - 2
  BY <1>1, <1>2, <1>3, GrowerTypes DEF Growth
<1> DEFINE n == num[tab] - 1
<1>5. n \in Indices
  BY <1>4 DEF Indices
<1>6. CASE Exit
  BY <1>2, <1>6, Unseen DEF Exit, tabvars
<1>7. CASE /\ filled' = [filled EXCEPT ![tab] = @ \cup {n}]
           /\ Uses(t, Follows(call[t]), idx[t][Follows(call[t])])
           /\ UNCHANGED <<num, entry>>
  <2>1. \E from \in Tables, i \in Indices : from = Follows(call[t]) /\ Sees(t, from, i)
    BY <1>1, <1>7, FollowedSeen DEF None, InNative
  <2>2. tab # Follows(call[t])
    BY <1>2, TablesOf DEF RInv, RTypeOK
  <2>3. n \notin filled[tab] /\ n \in filled'[tab]
    BY <1>4, <1>7 DEF RInv, RTypeOK
  <2>4. \A d \in Tables, j \in Indices : d # tab \/ j # n => (j \in filled'[d] <=> j \in filled[d])
    BY <1>7 DEF RInv, RTypeOK
  <2>5. n < num[tab] /\ entry'[tab][n] = t /\ num' = num /\ entry' = entry
    BY <1>4, <1>7
  <2> HIDE DEF n
  <2>6. Handed[tab][n] = NoThread /\ Handed'[tab][n] = t
    BY <1>5, <2>3, <2>5 DEF Handed
  <2>7. \A d \in Tables, j \in Indices : d # tab \/ j # n => Handed'[d][j] = Handed[d][j]
    BY <2>4, <2>5 DEF Handed
  <2>8. Gives(t, tab, n)
    BY <1>5, <2>6, <2>7, OneObjectMore
  <2> QED BY <1>5, <2>1, <2>2, <2>8
<1> QED BY <1>2, <1>6, <1>7 DEF Bind, Broken, FreshEntry

LEMMA UseSeen ==
  ASSUME RaceAssumption, RInv, NEW t \in Threads, Use(t), jvm' # "broken"
  PROVE  Same /\ \E from \in Tables, i \in Indices : Sees(t, from, i)
<1>1. pc[t] = "use" /\ call[t] \in {"send", "receive"}
  BY DEF Use, At, RInv, StageOf
<1>2. UNCHANGED <<num, entry, filled>> /\ Uses(t, Follows(call[t]), idx[t][Follows(call[t])])
  BY DEF Use, Broken, tabvars
<1>3. Same
  BY <1>2, SameObjects
<1> QED BY <1>1, <1>2, <1>3, FollowedSeen DEF None, InNative

(* Every step of the threads is a step of HandleTables, or unseen. *)
LEMMA StepMaps ==
  ASSUME RaceAssumption, RInv, NoFault', [RNext]_rvars
  PROVE  [Promise!TNext]_(Promise!tvars)
<1>1. \/ Same /\ reached' = reached
      \/ \E t \in Threads, tab \in Tables, i \in Indices :
           \/ Gives(t, tab, i) /\ reached' = reached
           \/ Sees(t, tab, i) /\ Same
           \/ Sees(t, tab, i) /\ \E d \in Tables \ {tab}, j \in Indices : Gives(t, d, j)
  <2>1. CASE UNCHANGED <<num, entry, filled, reached>>
    BY <2>1, SameObjects
  <2>2. CASE UNCHANGED rvars
    BY <2>1, <2>2 DEF rvars, tabvars
  <2>3. CASE RNext
    <3>1. PICK t \in Threads :
            \/ \E c \in Methods : Begin(t, c)
            \/ Check(t) \/ Create(t) \/ Realloc(t) \/ StorePointer(t) \/ StoreEntry(t) \/ Open(t)
            \/ LoadNum(t) \/ StoreNum(t) \/ Bind(t) \/ Return(t) \/ Put(t) \/ Use(t)
      BY <2>3 DEF RNext
    <3>2. CASE \/ \E c \in Methods : Begin(t, c)
               \/ Check(t) \/ Create(t) \/ Realloc(t) \/ StorePointer(t) \/ LoadNum(t) \/ Return(t) \/ Put(t)
      BY <2>1, <3>2 DEF Begin, Check, Create, Realloc, StorePointer, LoadNum, Return, Put, Broken, tabvars
    <3>3. CASE StoreEntry(t) \/ Open(t)
      BY <3>3, StoreEntryUnseen, OpenUnseen DEF NoFault
    <3>4. CASE StoreNum(t)
      BY <3>4, StoreNumSeen
    <3>5. CASE Bind(t)
      BY <3>5, BindSeen DEF NoFault
    <3>6. CASE Use(t)
      BY <3>6, UseSeen DEF NoFault
    <3> QED BY <3>1, <3>2, <3>3, <3>4, <3>5, <3>6
  <2> QED BY <2>2, <2>3
<1>2. CASE Same /\ reached' = reached
  BY <1>2 DEF Same, Handed, Promise!tvars
<1>3. CASE \E t \in Threads, tab \in Tables, i \in Indices :
             \/ Gives(t, tab, i) /\ reached' = reached
             \/ Sees(t, tab, i) /\ Same
             \/ Sees(t, tab, i) /\ \E d \in Tables \ {tab}, j \in Indices : Gives(t, d, j)
  BY <1>3 DEF Gives, Sees, Same, Handed, Promise!TNext, Promise!HandOut, Promise!Reach
<1> QED BY <1>1, <1>2, <1>3

(* The tables keep the promise of HandleTables although their natives take *)
(* many steps: an index names for ever the object that the call which got  *)
(* it has made, and a use of it acts upon that object.                     *)
THEOREM TablesKeepPromise == Apart => (RSpec => KeepsPromise)
<1> SUFFICES ASSUME Apart PROVE RSpec => KeepsPromise
  OBVIOUS
<1>1. RInit => Promise!TInit
  BY DEF RInit, Promise!TInit, Promise!Nothing
<1>2. RInv /\ NoFault' /\ [RNext]_rvars => [Promise!TNext]_(Promise!tvars)
  BY RaceAssumption, StepMaps
<1>3. RInv => NoFault
  BY DEF RInv
<1> QED BY <1>1, <1>2, <1>3, Invariance, PTL DEF RSpec, KeepsPromise, Promise!TSpec

=============================================================================
