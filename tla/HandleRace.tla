------------------------------ MODULE HandleRace ------------------------------
(***************************************************************************)
(* Threads that use DBL sockets at once: DBLSockets with the statements of *)
(* the natives taken one by one.                                           *)
(*                                                                         *)
(* Three natives grow a table: createDeviceC (devices), bindAddrC          *)
(* (channels) and sendConnectC (send_handles).  Each calls realloc(),      *)
(* stores the pointer, stores a new entry, and counts it, without a lock;  *)
(* the others read a pointer and follow an entry.  The constructor looks   *)
(* into ipInUse before, and puts into it after, its native.                *)
(*                                                                         *)
(* Apart is an assumption on the schedule: natives that grow one table do  *)
(* not overlap, nor does the move of a table's block, from realloc() to    *)
(* the store of the pointer, with a native that follows an entry of it.    *)
(* Nothing else is kept apart: an entry may be followed while its table    *)
(* grows, and constructors interleave before and after their native.       *)
(***************************************************************************)
EXTENDS Integers, FiniteSets

CONSTANTS
  Threads,      (* each thread has one socket                              *)
  NoThread,
  Hosts,
  HostOf,       (* the address that a thread gives to the constructor      *)
  MaxEntries,   (* bound of a table: the code has none                     *)
  Apart

ASSUME RaceAssumption ==
  /\ NoThread \notin Threads /\ "global" \notin Threads
  /\ HostOf \in [Threads -> Hosts]
  /\ MaxEntries \in Nat
  /\ Apart \in BOOLEAN

VARIABLES
  holders,      (* table -> who has the address of its block: Global, the  *)
                (* C pointer, and threads between realloc() and the store  *)
  size,         (* entries that the block has room for                     *)
  num,          (* C: devices_num, channels_num, send_handles_num          *)
  entry,        (* table -> index -> the thread whose malloc is stored     *)
  filled,       (* table -> indices whose object the library has made      *)
  ipInUse,      (* Java: host -> device index, Unset when absent           *)
  idx,          (* Java: thread -> table -> deviceId, channelId,           *)
                (* sendHandleId of its socket, Unset before                *)
  call, pc,     (* the method a thread is in, and its next statement       *)
  reg,          (* C: the counter that a thread has read                   *)
  reached,      (* history: the last use of an object                      *)
  jvm

tabvars == <<holders, size, num, entry, filled>>
rvars == <<tabvars, ipInUse, idx, call, pc, reg, reached, jvm>>

Unset == -1
Global == "global"
Tables == {"devices", "channels", "send_handles"}
Indices == 0 .. MaxEntries - 1
Methods == {"construct", "bindAddr", "connect", "send", "receive"}

None == "none"

(* The table that a method's native grows, and the one it follows. *)
Grows(c) ==
  CASE c = "construct" -> "devices"
    [] c = "bindAddr"  -> "channels"
    [] c = "connect"   -> "send_handles"
    [] OTHER           -> None

Follows(c) ==
  CASE c \in {"bindAddr", "receive"} -> "devices"
    [] c = "connect"                 -> "channels"
    [] c = "send"                    -> "send_handles"
    [] OTHER                         -> None

RInit ==
  /\ holders = [tab \in Tables |-> {Global}]
  /\ size = [tab \in Tables |-> 0]
  /\ num = [tab \in Tables |-> 0]
  /\ entry = [tab \in Tables |-> [i \in Indices |-> NoThread]]
  /\ filled = [tab \in Tables |-> {}]
  /\ ipInUse = [h \in Hosts |-> Unset]
  /\ idx = [t \in Threads |-> [tab \in Tables |-> Unset]]
  /\ call = [t \in Threads |-> None]
  /\ pc = [t \in Threads |-> "idle"]
  /\ reg = [t \in Threads |-> 0]
  /\ reached = <<>>
  /\ jvm = "up"

-----------------------------------------------------------------------------
(* Entry i of a table can be addressed through the pointer. *)
Addressable(tab, i) == Global \in holders[tab] /\ i \in 0 .. size[tab] - 1

(* What entry i points to is an object that the library knows. *)
Usable(tab, i) == Addressable(tab, i) /\ i \in filled[tab]

Uses(t, tab, i) == reached' = <<t, tab, i, entry[tab][i]>>

Goto(t, step) == pc' = [pc EXCEPT ![t] = step]
Finish(t) == Goto(t, "idle") /\ call' = [call EXCEPT ![t] = None]

At(t, step) == jvm = "up" /\ pc[t] = step

(* Freed or foreign memory was used: nothing is known from here on. *)
Broken ==
  /\ jvm' = "broken"
  /\ UNCHANGED <<tabvars, ipInUse, idx, call, pc, reg, reached>>

(* DBL_Safe: the library refuses and the process ends. *)
Exit ==
  /\ jvm' = "exit"
  /\ UNCHANGED <<tabvars, ipInUse, idx, call, pc, reg, reached>>

-----------------------------------------------------------------------------
(* A thread uses its socket in the order construct, bindAddr, connect.     *)
InOrder(t, c) ==
  CASE c = "construct" -> idx[t].devices = Unset
    [] c = "bindAddr"  -> idx[t].devices # Unset /\ idx[t].channels = Unset
    [] c = "connect"   -> idx[t].channels # Unset
    [] c = "send"      -> idx[t].send_handles # Unset
    [] c = "receive"   -> idx[t].devices # Unset

InNative(t) == pc[t] \notin {"idle", "check", "create", "put"}
Growing(tab) == {t \in Threads : InNative(t) /\ Grows(call[t]) = tab}
Following(tab) == {t \in Threads : InNative(t) /\ Follows(call[t]) = tab}
Moving(tab) == {t \in Growing(tab) : pc[t] = "pointer"}

MayGrow(tab) ==
  /\ num[tab] + Cardinality(Growing(tab)) < MaxEntries
  /\ Apart => Growing(tab) = {}
MayFollow(tab) == Apart => Moving(tab) = {}
MayMove(tab) == Apart => Following(tab) = {}

Begin(t, c) ==
  /\ At(t, "idle") /\ InOrder(t, c)
  /\ c \in {"bindAddr", "connect"} => MayGrow(Grows(c))
  /\ c # "construct" => MayFollow(Follows(c))
  /\ call' = [call EXCEPT ![t] = c]
  /\ Goto(t, IF c = "construct" THEN "check" ELSE IF Grows(c) = None THEN "use" ELSE "realloc")
  /\ UNCHANGED <<tabvars, ipInUse, idx, reg, reached, jvm>>

(* ipInUse.containsKey(address), and ipInUse.get(address) when it does. *)
Check(t) ==
  /\ At(t, "check")
  /\ \/ /\ ipInUse[HostOf[t]] = Unset
        /\ Goto(t, "create")
        /\ UNCHANGED <<idx, call>>
     \/ /\ ipInUse[HostOf[t]] # Unset
        /\ idx' = [idx EXCEPT ![t].devices = ipInUse[HostOf[t]]]
        /\ Finish(t)
  /\ UNCHANGED <<tabvars, ipInUse, reg, reached, jvm>>

(* The call of createDeviceC(). *)
Create(t) ==
  /\ At(t, "create") /\ MayGrow("devices")
  /\ Goto(t, "realloc")
  /\ UNCHANGED <<tabvars, ipInUse, idx, call, reg, reached, jvm>>

\* Mutant: room for the entries there are, not for one more.
RoomFor(n) == n
Enlarged(n) == n + 1

(* realloc() of the block that the pointer names: it may stay or move. *)
Realloc(t) ==
  LET tab == Grows(call[t]) IN
  /\ At(t, "realloc") /\ MayMove(tab)
  /\ \/ /\ Global \in holders[tab]
        /\ \E others \in {{}, holders[tab]} : holders' = [holders EXCEPT ![tab] = others \cup {t}]
        /\ size' = [size EXCEPT ![tab] = Enlarged(num[tab])]
        /\ Goto(t, "pointer")
        /\ UNCHANGED <<num, entry, filled, ipInUse, idx, call, reg, reached, jvm>>
     \/ Global \notin holders[tab] /\ Broken

(* devices = ..., channels = ..., send_handles = ... *)
StorePointer(t) ==
  LET tab == Grows(call[t]) IN
  /\ At(t, "pointer")
  /\ holders' = [holders EXCEPT ![tab] =
                   (@ \ {t, Global}) \cup (IF t \in @ THEN {Global} ELSE {})]
  /\ Goto(t, "entry")
  /\ UNCHANGED <<size, num, entry, filled, ipInUse, idx, call, reg, reached, jvm>>

\* Mutant: a table in use has its last entry written over.
NextEntryLast(tab) == IF num[tab] = 0 THEN 0 ELSE num[tab] - 1
NextEntry(tab) == num[tab]

(* createDeviceC opens the device first and counts it afterwards. *)
StoreEntry(t) ==
  LET tab == Grows(call[t]) IN
  /\ At(t, "entry")
  /\ \/ /\ Addressable(tab, NextEntry(tab))
        /\ entry' = [entry EXCEPT ![tab][NextEntry(tab)] = t]
        /\ Goto(t, IF call[t] = "construct" THEN "open" ELSE "count")
        /\ UNCHANGED <<holders, size, num, filled, ipInUse, idx, call, reg, reached, jvm>>
     \/ ~Addressable(tab, NextEntry(tab)) /\ Broken

(* dbl_open() fills devices[devices_num]. *)
Open(t) ==
  /\ At(t, "open")
  /\ \/ /\ Addressable("devices", num["devices"])
        /\ filled' = [filled EXCEPT !["devices"] = @ \cup {num["devices"]}]
        /\ Goto(t, "count")
        /\ UNCHANGED <<holders, size, num, entry, ipInUse, idx, call, reg, reached, jvm>>
     \/ ~Addressable("devices", num["devices"]) /\ Broken
     \/ Exit

(* The increment of the counter, a read and a write. *)
LoadNum(t) ==
  /\ At(t, "count")
  /\ reg' = [reg EXCEPT ![t] = num[Grows(call[t])]]
  /\ Goto(t, "counted")
  /\ UNCHANGED <<tabvars, ipInUse, idx, call, reached, jvm>>

StoreNum(t) ==
  /\ At(t, "counted")
  /\ num' = [num EXCEPT ![Grows(call[t])] = reg[t] + 1]
  /\ reg' = [reg EXCEPT ![t] = 0]
  /\ Goto(t, IF call[t] = "construct" THEN "return" ELSE "bind")
  /\ UNCHANGED <<holders, size, entry, filled, ipInUse, idx, call, reached, jvm>>

(* dbl_bind_addr() makes channels[channels_num - 1] on devices[devId];      *)
(* dbl_send_connect() makes the last of send_handles on channels[channelId] *)
FreshEntry(tab) == num[tab] - 1

Bind(t) ==
  LET tab  == Grows(call[t])
      from == Follows(call[t])
      ok   == Usable(from, idx[t][from]) /\ Addressable(tab, FreshEntry(tab))
  IN
  /\ At(t, "bind")
  /\ \/ /\ ok
        /\ filled' = [filled EXCEPT ![tab] = @ \cup {FreshEntry(tab)}]
        /\ Uses(t, from, idx[t][from])
        /\ Goto(t, "return")
        /\ UNCHANGED <<holders, size, num, entry, ipInUse, idx, call, reg, jvm>>
     \/ ~ok /\ Broken
     \/ Exit

(* return ..._num - 1; the Java method assigns the field. *)
\* Mutant: a handle is given the index of the next entry.
ReturnsNext(t) ==
  IF call[t] = "connect" THEN num[Grows(call[t])] ELSE num[Grows(call[t])] - 1
Returns(t) == num[Grows(call[t])] - 1

Return(t) ==
  /\ At(t, "return")
  /\ idx' = [idx EXCEPT ![t][Grows(call[t])] = Returns(t)]
  /\ IF call[t] = "construct" THEN Goto(t, "put") /\ UNCHANGED call ELSE Finish(t)
  /\ UNCHANGED <<tabvars, ipInUse, reg, reached, jvm>>

\* Mutant: who finds the address there by now takes the device of that put.
PutUnlessThere(t) ==
  /\ At(t, "put")
  /\ IF ipInUse[HostOf[t]] = Unset
     THEN ipInUse' = [ipInUse EXCEPT ![HostOf[t]] = idx[t].devices] /\ UNCHANGED idx
     ELSE idx' = [idx EXCEPT ![t].devices = ipInUse[HostOf[t]]] /\ UNCHANGED ipInUse
  /\ Finish(t)
  /\ UNCHANGED <<tabvars, reg, reached, jvm>>

(* ipInUse.put(address, this.deviceId) *)
Put(t) ==
  /\ At(t, "put")
  /\ ipInUse' = [ipInUse EXCEPT ![HostOf[t]] = idx[t].devices]
  /\ Finish(t)
  /\ UNCHANGED <<tabvars, idx, reg, reached, jvm>>

(* sendC through send_handles[handleId], receiveFromC on devices[devId]. *)
Use(t) ==
  LET from == Follows(call[t]) IN
  /\ At(t, "use")
  /\ \/ /\ Usable(from, idx[t][from])
        /\ Uses(t, from, idx[t][from])
        /\ Finish(t)
        /\ UNCHANGED <<tabvars, ipInUse, idx, reg, jvm>>
     \/ ~Usable(from, idx[t][from]) /\ Broken

RNext ==
  \E t \in Threads :
    \/ \E c \in Methods : Begin(t, c)
    \/ Check(t) \/ Create(t) \/ Realloc(t) \/ StorePointer(t) \/ StoreEntry(t) \/ Open(t)
    \/ LoadNum(t) \/ StoreNum(t) \/ Bind(t) \/ Return(t) \/ Put(t) \/ Use(t)

RSpec == RInit /\ [][RNext]_rvars

-----------------------------------------------------------------------------
RTypeOK ==
  /\ holders \in [Tables -> SUBSET (Threads \cup {Global})]
  /\ size \in [Tables -> 0 .. MaxEntries] /\ num \in [Tables -> 0 .. MaxEntries]
  /\ entry \in [Tables -> [Indices -> Threads \cup {NoThread}]]
  /\ filled \in [Tables -> SUBSET Indices]
  /\ ipInUse \in [Hosts -> Indices \cup {Unset}]
  /\ idx \in [Threads -> [Tables -> Indices \cup {Unset}]]
  /\ call \in [Threads -> Methods \cup {None}]
  /\ pc \in [Threads -> {"idle", "check", "create", "realloc", "pointer", "entry", "open",
                         "count", "counted", "bind", "return", "put", "use"}]
  /\ reg \in [Threads -> 0 .. MaxEntries]
  /\ reached \in {<<>>} \cup (Threads \X Tables \X Indices \X (Threads \cup {NoThread}))
  /\ jvm \in {"up", "exit", "broken"}

(* No call uses a table through a pointer that another thread's realloc()  *)
(* has freed, an entry beyond the table, or one not filled yet.            *)
NoFault == jvm # "broken"

(* Threads may look for an address in ipInUse before any of them has put   *)
(* it there: each then opens a device of its own, and the last put stays.  *)
(* No device is lost by that: who opened it has it, or createDeviceC is    *)
(* about to return it; and ipInUse names a device of the address.          *)
NoDeviceIsLost ==
  /\ \A i \in filled["devices"] :
       LET opener == entry["devices"][i] IN
       idx[opener].devices = i \/ (call[opener] = "construct" /\ InNative(opener))
  /\ \A h \in Hosts : ipInUse[h] # Unset =>
       ipInUse[h] \in filled["devices"] /\ HostOf[entry["devices"][ipInUse[h]]] = h

(* The channel and the handle of a socket are the ones its own calls made, *)
(* and its device was opened by a thread with its address.                 *)
IndicesNameOwnObjects ==
  \A t \in Threads :
    /\ \A tab \in {"channels", "send_handles"} :
         idx[t][tab] # Unset => entry[tab][idx[t][tab]] = t
    /\ idx[t].devices # Unset =>
         LET opener == entry["devices"][idx[t].devices] IN
         opener # NoThread /\ HostOf[opener] = HostOf[t]

(* The tables keep the promise of HandleTables.  An index is handed out    *)
(* when it is counted and the library has made its object, in either order.*)
Promise ==
  INSTANCE HandleTables WITH
    Callers <- Threads, NoCaller <- NoThread,
    made <- [tab \in Tables |->
              [i \in Indices |-> IF i \in filled[tab] /\ i < num[tab]
                                 THEN entry[tab][i] ELSE NoThread]]

KeepsPromise == Promise!TSpec

=============================================================================
