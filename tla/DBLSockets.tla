------------------------------ MODULE DBLSockets ------------------------------
(***************************************************************************)
(* DBLUDPSocket and DBLTCPSocket (Java) over dbl_tcp_udp_socket.c (C).     *)
(*                                                                         *)
(* A Java socket holds three integers: the index of its device, of its     *)
(* channel and of its send handle in tables that are globals of the C      *)
(* library.  The tables only grow; nothing in C knows which Java object an *)
(* index belongs to, and all three indices of a fresh Java object are 0.   *)
(* Java caches the device index of every address it has opened (ipInUse).  *)
(*                                                                         *)
(* Every action is one Java method with the native method it calls.        *)
(* Natives are taken to run one at a time here.                            *)
(***************************************************************************)
EXTENDS Integers

CONSTANTS
  Socks,        (* identities of the Java socket objects                   *)
  Hosts,        (* the address strings passed to the constructors          *)
  NoHost,       (* the constructor argument of a socket that has none      *)
  Ports,        (* local ports                                             *)
  OpenFlags,    (* values of the constructor's flag                        *)
  MaxDevices,   (* bounds of the three C tables: the code has none         *)
  MaxChannels,
  MaxHandles

ASSUME ConstantsAssumption ==
  /\ NoHost \notin Hosts
  /\ Ports \subseteq Nat \ {0}
  /\ OpenFlags \subseteq Nat
  /\ MaxDevices \in Nat
  /\ MaxChannels \in Nat
  /\ MaxHandles \in Nat

VARIABLES
  jsock,             (* the fields of every Java socket object             *)
  ipInUse,           (* address -> device index, Unset when absent         *)
  devices,           (* C: device table and the state of the DBL devices   *)
  devices_num,
  channels,          (* C: channel table and the state of the DBL channels *)
  channels_num,
  send_handles,      (* C: send handle table                               *)
  send_handles_num,
  ch,                (* C: the global channel bindC binds, Unset before    *)
  proc               (* "up", or how the JVM process ended                 *)

cvars == <<devices, devices_num, channels, channels_num,
           send_handles, send_handles_num, ch>>
vars == <<jsock, ipInUse, cvars, proc>>

Unset == -1
DBL_OPEN_DISABLED == 2

DeviceIds  == 0 .. MaxDevices - 1
ChannelIds == 0 .. MaxChannels - 1
HandleIds  == 0 .. MaxHandles - 1

(***************************************************************************)
(* The fields of a Java object.  addr, the constructor's address, is       *)
(* history: the code does not keep it.                                     *)
(***************************************************************************)
JavaSocket ==
  [origin : {"none", "empty", "constructor", "accept"}, addr : Hosts \cup {NoHost},
   deviceId : Nat, channelId : Nat, sendHandleId : Nat,
   openFlag : OpenFlags \cup {Unset},
   port : Ports \cup {0}, bound : BOOLEAN, closed : BOOLEAN,
   connected : BOOLEAN]

NewObject ==
  [origin |-> "none", addr |-> NoHost, deviceId |-> 0, channelId |-> 0,
   sendHandleId |-> 0, openFlag |-> Unset, port |-> 0,
   bound |-> FALSE, closed |-> TRUE, connected |-> FALSE]

Device ==
  [state : {"none", "disabled", "enabled", "closed"},
   host : Hosts \cup {NoHost}, flag : OpenFlags \cup {Unset}]

(* slot: what table entry i holds ("garbage": fresh malloc'd memory).      *)
(* state .. listening: the library channel that the same call created,     *)
(* which entry i refers to only when slot = "handle".                      *)
Channel ==
  [slot : {"free", "garbage", "handle"}, state : {"none", "open", "unbound"},
   dev : Nat, port : Ports \cup {0}, listening : BOOLEAN]

Handle == [state : {"none", "connected", "disconnected"}, chan : Nat]

Init ==
  /\ jsock = [o \in Socks |-> NewObject]
  /\ ipInUse = [h \in Hosts |-> Unset]
  /\ devices = [d \in DeviceIds |->
                  [state |-> "none", host |-> NoHost, flag |-> Unset]]
  /\ channels = [c \in ChannelIds |->
                  [slot |-> "free", state |-> "none", dev |-> 0, port |-> 0,
                   listening |-> FALSE]]
  /\ send_handles = [s \in HandleIds |-> [state |-> "none", chan |-> 0]]
  /\ devices_num = 0 /\ channels_num = 0 /\ send_handles_num = 0
  /\ ch = Unset
  /\ proc = "up"

-----------------------------------------------------------------------------
(***************************************************************************)
(* How a native call ends.  A handle is valid when the library can act on  *)
(* it; passing an invalid one is an error return or a crash, and reading   *)
(* an entry of a table that was never allocated is a crash.                *)
(***************************************************************************)
DeviceValid(d) == d < devices_num /\ devices[d].state \in {"disabled", "enabled"}

LibChannelValid(k) ==
  k \in ChannelIds /\ channels[k].state = "open" /\ DeviceValid(channels[k].dev)

ChannelValid(c) ==
  c < channels_num /\ channels[c].slot = "handle" /\ LibChannelValid(c)

HandleValid(s) ==
  /\ s < send_handles_num
  /\ send_handles[s].state = "connected"
  /\ LibChannelValid(send_handles[s].chan)

(* A call whose result the code drops or hands to a caller that drops it. *)
Unchecked(exists, valid) ==
  proc' \in IF valid THEN {"up"}
            ELSE IF exists THEN {"up", "crash"} ELSE {"crash"}

(* #define DBL_Safe(x): a non-zero result ends the process. *)
DBL_Safe(exists, valid) ==
  proc' \in IF valid THEN {"up", "exit"}
            ELSE IF exists THEN {"exit", "crash"} ELSE {"crash"}

Up == proc' = "up"
Created(o) == proc = "up" /\ jsock[o].origin # "none"
KeepC == UNCHANGED cvars

(* The Java fields after the native returned; a dead process assigns none. *)
Sets(o, fields) == jsock' = IF Up THEN [jsock EXCEPT ![o] = fields] ELSE jsock

-----------------------------------------------------------------------------
(* Natives that change the C tables. *)

(* The flags of dbl_open() are bits; Java compares the whole flag.         *)
Disabled(flag) == (flag \div DBL_OPEN_DISABLED) % 2 = 1
OpenState(flag) == IF Disabled(flag) THEN "disabled" ELSE "enabled"

createDeviceC(host, flag) ==
  /\ devices_num < MaxDevices
  /\ DBL_Safe(TRUE, TRUE)
  /\ \/ /\ Up
        /\ devices' = [devices EXCEPT ![devices_num] =
                         [state |-> OpenState(flag), host |-> host, flag |-> flag]]
        /\ devices_num' = devices_num + 1
     \/ /\ ~Up
        /\ UNCHANGED <<devices, devices_num>>
  /\ UNCHANGED <<channels, channels_num, send_handles, send_handles_num, ch>>

(* realloc and malloc one entry of the channel table and count it. *)
NewChannel(slot, state, dev, port) ==
  /\ channels' = [channels EXCEPT ![channels_num] =
                    [slot |-> slot, state |-> state, dev |-> dev, port |-> port,
                     listening |-> FALSE]]
  /\ channels_num' = channels_num + 1

(* dbl_bind() writes the handle to the global ch; the entry stays garbage. *)
\* Mutants: ch is the entry after the new one; ch is bound only once.
BindGlobalPastNew == ch' = channels_num'
BindGlobalOnce == ch' = IF ch = Unset THEN channels_num ELSE ch
BindGlobal == ch' = channels_num

bindC(dev, port) ==
  /\ channels_num < MaxChannels
  /\ DBL_Safe(dev < devices_num, DeviceValid(dev))
  /\ \/ /\ Up
        /\ NewChannel("garbage", "open", dev, port)
        /\ BindGlobal
     \/ /\ ~Up
        /\ UNCHANGED <<channels, channels_num, ch>>
  /\ UNCHANGED <<devices, devices_num, send_handles, send_handles_num>>

bindAddrC(dev, port) ==
  /\ channels_num < MaxChannels
  /\ DBL_Safe(dev < devices_num, DeviceValid(dev))
  /\ \/ Up /\ NewChannel("handle", "open", dev, port)
     \/ ~Up /\ UNCHANGED <<channels, channels_num>>
  /\ UNCHANGED <<devices, devices_num, send_handles, send_handles_num, ch>>

\* Mutant: the newest channel is connected.
NewHandleNewest(chan) ==
  /\ send_handles' = [send_handles EXCEPT ![send_handles_num] =
                        [state |-> "connected", chan |-> channels_num - 1]]
  /\ send_handles_num' = send_handles_num + 1

NewHandle(chan) ==
  /\ send_handles' = [send_handles EXCEPT ![send_handles_num] =
                        [state |-> "connected", chan |-> chan]]
  /\ send_handles_num' = send_handles_num + 1

sendConnectC(chan) ==
  /\ send_handles_num < MaxHandles
  /\ DBL_Safe(chan < channels_num, ChannelValid(chan))
  /\ \/ Up /\ NewHandle(chan)
     \/ ~Up /\ UNCHANGED <<send_handles, send_handles_num>>
  /\ UNCHANGED <<devices, devices_num, channels, channels_num, ch>>

\* Mutant: the table gives its last entry back.
sendDisconnectShrinks(s) ==
  /\ Unchecked(s < send_handles_num, HandleValid(s))
  /\ \/ /\ Up /\ HandleValid(s)
        /\ send_handles' = [send_handles EXCEPT ![s].state = "disconnected"]
        /\ send_handles_num' = send_handles_num - 1
     \/ UNCHANGED <<send_handles, send_handles_num>>
  /\ UNCHANGED <<devices, devices_num, channels, channels_num, ch>>

(* The result is dropped: the library may also refuse. *)
sendDisconnectC(s) ==
  /\ Unchecked(s < send_handles_num, HandleValid(s))
  /\ \/ /\ Up /\ HandleValid(s)
        /\ send_handles' = [send_handles EXCEPT ![s].state = "disconnected"]
     \/ UNCHANGED send_handles
  /\ UNCHANGED <<devices, devices_num, channels, channels_num, send_handles_num, ch>>

\* Mutant: the table gives its last entry back.
unbindShrinks(chan) ==
  /\ Unchecked(chan < channels_num, ChannelValid(chan))
  /\ \/ /\ Up /\ ChannelValid(chan)
        /\ channels' = [channels EXCEPT ![chan].state = "unbound"]
        /\ channels_num' = channels_num - 1
     \/ UNCHANGED <<channels, channels_num>>
  /\ UNCHANGED <<devices, devices_num, send_handles, send_handles_num, ch>>

unbindC(chan) ==
  /\ Unchecked(chan < channels_num, ChannelValid(chan))
  /\ \/ /\ Up /\ ChannelValid(chan)
        /\ channels' = [channels EXCEPT ![chan].state = "unbound"]
     \/ UNCHANGED channels
  /\ UNCHANGED <<devices, devices_num, channels_num, send_handles, send_handles_num, ch>>

\* Mutant: the first device is closed, whatever device was asked for.
CloseFirstDevice(dev) == devices' = [devices EXCEPT ![0].state = "closed"]
CloseDevice(dev) == devices' = [devices EXCEPT ![dev].state = "closed"]

closeC(dev) ==
  /\ Unchecked(dev < devices_num, DeviceValid(dev))
  /\ \/ /\ Up /\ DeviceValid(dev)
        /\ CloseDevice(dev)
     \/ UNCHANGED devices
  /\ UNCHANGED <<devices_num, channels, channels_num, send_handles, send_handles_num, ch>>

deviceEnableC(dev) ==
  /\ DBL_Safe(dev < devices_num, DeviceValid(dev))
  /\ devices' = IF Up THEN [devices EXCEPT ![dev].state = "enabled"] ELSE devices
  /\ UNCHANGED <<devices_num, channels, channels_num, send_handles, send_handles_num, ch>>

(* dbl_ext_listen() is applied to ch, whatever channel was asked for. *)
tcpListenC(chan) ==
  /\ DBL_Safe(TRUE, LibChannelValid(ch))
  /\ channels' = IF Up THEN [channels EXCEPT ![ch].listening = TRUE] ELSE channels
  /\ UNCHANGED <<devices, devices_num, channels_num, send_handles, send_handles_num, ch>>

(* dbl_ext_accept() on ch; the connection goes to the global ret_ch, which *)
(* nothing reads, and the entry counted for it stays garbage.  The result  *)
(* is returned and dropped.                                                *)
tcpAcceptC(chan, ok, port) ==
  /\ channels_num < MaxChannels
  /\ Unchecked(TRUE, LibChannelValid(ch))
  /\ ok => LibChannelValid(ch) /\ channels[ch].listening
  /\ \/ /\ Up /\ ok
        /\ NewChannel("garbage", "open", channels[ch].dev, port)
     \/ /\ Up /\ ~ok
        /\ NewChannel("garbage", "none", 0, 0)
     \/ /\ ~Up
        /\ UNCHANGED <<channels, channels_num>>
  /\ UNCHANGED <<devices, devices_num, send_handles, send_handles_num, ch>>

(* Natives that only look an entry up and pass it to the library. *)
DeviceCall(dev)      == Unchecked(dev < devices_num, DeviceValid(dev)) /\ KeepC
SafeDeviceCall(dev)  == DBL_Safe(dev < devices_num, DeviceValid(dev)) /\ KeepC
ChannelCall(chan)    == Unchecked(chan < channels_num, ChannelValid(chan)) /\ KeepC
SafeChannelCall(chan) == DBL_Safe(chan < channels_num, ChannelValid(chan)) /\ KeepC

-----------------------------------------------------------------------------
(* DBLUDPSocket *)

NewSocket(host) ==
  [NewObject EXCEPT !.origin = "constructor", !.addr = host, !.closed = FALSE]

(* The constructor when the address is not in ipInUse, and when it is. *)
\* Mutants: the address is not cached; the cached index is one too high;
\* a socket that reuses a device keeps the flag it was given.
OpenDeviceUncached(o, host, flag) ==
  /\ createDeviceC(host, flag)
  /\ Sets(o, [NewSocket(host) EXCEPT !.deviceId = devices_num' - 1, !.openFlag = flag])
  /\ UNCHANGED ipInUse

OpenDeviceCachesNext(o, host, flag) ==
  /\ createDeviceC(host, flag)
  /\ Sets(o, [NewSocket(host) EXCEPT !.deviceId = devices_num' - 1, !.openFlag = flag])
  /\ ipInUse' = IF Up THEN [ipInUse EXCEPT ![host] = devices_num'] ELSE ipInUse

OpenDevice(o, host, flag) ==
  /\ createDeviceC(host, flag)
  /\ Sets(o, [NewSocket(host) EXCEPT !.deviceId = devices_num' - 1, !.openFlag = flag])
  /\ ipInUse' = IF Up THEN [ipInUse EXCEPT ![host] = devices_num' - 1] ELSE ipInUse

ReuseDeviceKeepingFlag(o, host, flag) ==
  /\ UNCHANGED <<cvars, ipInUse, proc>>
  /\ Sets(o, [NewSocket(host) EXCEPT !.deviceId = ipInUse[host], !.openFlag = flag])

ReuseDevice(o, host, flag) ==
  /\ UNCHANGED <<cvars, ipInUse, proc>>
  /\ Sets(o, [NewSocket(host) EXCEPT !.deviceId = ipInUse[host]])

DBLUDPSocket(o, host, flag) ==
  /\ proc = "up" /\ jsock[o].origin = "none"
  /\ \/ ipInUse[host] = Unset /\ OpenDevice(o, host, flag)
     \/ ipInUse[host] # Unset /\ ReuseDevice(o, host, flag)

(* The constructor without an address: every field keeps its default. *)
DBLUDPSocketEmpty(o) ==
  /\ proc = "up" /\ jsock[o].origin = "none"
  /\ UNCHANGED <<cvars, ipInUse, proc>>
  /\ jsock' = [jsock EXCEPT ![o] = [NewObject EXCEPT !.origin = "empty"]]

bind(o, port) ==
  /\ Created(o) /\ ~jsock[o].bound
  /\ bindC(jsock[o].deviceId, port)
  /\ Sets(o, [jsock[o] EXCEPT !.channelId = channels_num' - 1, !.port = port,
                              !.bound = TRUE])
  /\ UNCHANGED ipInUse

bindAddr(o, port) ==
  /\ Created(o) /\ ~jsock[o].bound
  /\ bindAddrC(jsock[o].deviceId, port)
  /\ Sets(o, [jsock[o] EXCEPT !.channelId = channels_num' - 1, !.port = port,
                              !.bound = TRUE])
  /\ UNCHANGED ipInUse

connect(o) ==
  /\ Created(o)
  /\ sendConnectC(jsock[o].channelId)
  /\ Sets(o, [jsock[o] EXCEPT !.sendHandleId = send_handles_num' - 1,
                              !.connected = TRUE])
  /\ UNCHANGED ipInUse

(* connected and sendHandleId keep their values. *)
disconnect(o) ==
  /\ Created(o)
  /\ sendDisconnectC(jsock[o].sendHandleId)
  /\ UNCHANGED <<jsock, ipInUse>>

(* sendC() through the send handle, or sendToC(), which asserts that the *)
(* datagram has more than one byte, through the channel.                 *)
send(o, len) ==
  /\ Created(o)
  /\ \/ /\ jsock[o].connected
        /\ Unchecked(jsock[o].sendHandleId < send_handles_num,
                     HandleValid(jsock[o].sendHandleId))
        /\ KeepC
     \/ /\ ~jsock[o].connected /\ len > 1
        /\ ChannelCall(jsock[o].channelId)
     \/ /\ ~jsock[o].connected /\ len <= 1
        /\ proc' = "abort" /\ KeepC
  /\ UNCHANGED <<jsock, ipInUse>>

(* receive(packet) after setRecvMode(), or receive(packet, mode); without  *)
(* a mode the method throws and nothing changes.                           *)
receive(o) ==
  /\ Created(o)
  /\ DeviceCall(jsock[o].deviceId)
  /\ UNCHANGED <<jsock, ipInUse>>

joinGroup(o) ==
  /\ Created(o)
  /\ ChannelCall(jsock[o].channelId)
  /\ UNCHANGED <<jsock, ipInUse>>

leaveGroup(o) ==
  /\ Created(o)
  /\ ChannelCall(jsock[o].channelId)
  /\ UNCHANGED <<jsock, ipInUse>>

close(o) ==
  /\ Created(o)
  /\ closeC(jsock[o].deviceId)
  /\ Sets(o, [jsock[o] EXCEPT !.closed = TRUE])
  /\ UNCHANGED ipInUse

deviceEnable(o) ==
  /\ Created(o) /\ jsock[o].openFlag = DBL_OPEN_DISABLED
  /\ deviceEnableC(jsock[o].deviceId)
  /\ UNCHANGED <<jsock, ipInUse>>

deviceGetAttributes(o) ==
  /\ Created(o)
  /\ SafeDeviceCall(jsock[o].deviceId)
  /\ UNCHANGED <<jsock, ipInUse>>

deviceSetAttributes(o) ==
  /\ Created(o)
  /\ SafeDeviceCall(jsock[o].deviceId)
  /\ UNCHANGED <<jsock, ipInUse>>

unbind(o) ==
  /\ Created(o)
  /\ unbindC(jsock[o].channelId)
  /\ Sets(o, [jsock[o] EXCEPT !.bound = FALSE])
  /\ UNCHANGED ipInUse

-----------------------------------------------------------------------------
(* DBLTCPSocket *)

tcpListen(o) ==
  /\ Created(o)
  /\ tcpListenC(jsock[o].channelId)
  /\ UNCHANGED <<jsock, ipInUse>>

\* Mutant: the C code writes the new channel's index into the listener.
tcpAcceptIntoListener(o, new, ok, port) ==
  /\ Created(o) /\ jsock[new].origin = "none"
  /\ tcpAcceptC(jsock[o].channelId, ok, port)
  /\ Sets(o, [jsock[o] EXCEPT !.channelId = channels_num' - 1])
  /\ UNCHANGED ipInUse

(* The new object gets a channel index and a port and nothing else: its    *)
(* deviceId stays 0, bound FALSE and closed TRUE.  After a failed accept   *)
(* the port comes from an uninitialised sockaddr_in.                       *)
tcpAccept(o, new, ok, port) ==
  /\ Created(o) /\ jsock[new].origin = "none"
  /\ tcpAcceptC(jsock[o].channelId, ok, port)
  /\ Sets(new, [NewObject EXCEPT !.origin = "accept", !.port = port,
                                 !.channelId = channels_num' - 1])
  /\ UNCHANGED ipInUse

tcpSend(o, via) ==
  /\ Created(o) /\ Created(via)
  /\ SafeChannelCall(jsock[via].channelId)
  /\ UNCHANGED <<jsock, ipInUse>>

tcpReceive(o, via) ==
  /\ Created(o) /\ Created(via)
  /\ ChannelCall(jsock[via].channelId)
  /\ UNCHANGED <<jsock, ipInUse>>

tcpReceiveMsg(o) ==
  /\ Created(o)
  /\ SafeDeviceCall(jsock[o].deviceId)
  /\ UNCHANGED <<jsock, ipInUse>>

tcpPoll(o, sockets) ==
  /\ Created(o) /\ \A s \in sockets : Created(s)
  /\ Unchecked(\A s \in sockets : jsock[s].channelId < channels_num,
               \A s \in sockets : ChannelValid(jsock[s].channelId))
  /\ KeepC
  /\ UNCHANGED <<jsock, ipInUse>>

tcpGetChannelOptions(o) ==
  /\ Created(o)
  /\ SafeChannelCall(jsock[o].channelId)
  /\ UNCHANGED <<jsock, ipInUse>>

tcpSetChannelOptions(o) ==
  /\ Created(o)
  /\ ChannelCall(jsock[o].channelId)
  /\ UNCHANGED <<jsock, ipInUse>>

tcpGetChannelType(o) ==
  /\ Created(o)
  /\ ChannelCall(jsock[o].channelId)
  /\ UNCHANGED <<jsock, ipInUse>>

-----------------------------------------------------------------------------
Next ==
  \E o \in Socks :
    \/ \E h \in Hosts, f \in OpenFlags : DBLUDPSocket(o, h, f)
    \/ DBLUDPSocketEmpty(o)
    \/ \E p \in Ports : bind(o, p) \/ bindAddr(o, p)
    \/ connect(o) \/ disconnect(o)
    \/ \E len \in 1 .. 2 : send(o, len)
    \/ receive(o)
    \/ joinGroup(o) \/ leaveGroup(o)
    \/ close(o) \/ unbind(o)
    \/ deviceEnable(o) \/ deviceGetAttributes(o) \/ deviceSetAttributes(o)
    \/ tcpListen(o)
    \/ \E new \in Socks, ok \in BOOLEAN, p \in Ports : tcpAccept(o, new, ok, p)
    \/ \E via \in Socks : tcpSend(o, via) \/ tcpReceive(o, via)
    \/ tcpReceiveMsg(o)
    \/ \E sockets \in SUBSET Socks : tcpPoll(o, sockets)
    \/ tcpGetChannelOptions(o) \/ tcpSetChannelOptions(o) \/ tcpGetChannelType(o)

Spec == Init /\ [][Next]_vars

-----------------------------------------------------------------------------
TypeOK ==
  /\ jsock \in [Socks -> JavaSocket]
  /\ ipInUse \in [Hosts -> DeviceIds \cup {Unset}]
  /\ devices \in [DeviceIds -> Device] /\ devices_num \in 0 .. MaxDevices
  /\ channels \in [ChannelIds -> Channel] /\ channels_num \in 0 .. MaxChannels
  /\ send_handles \in [HandleIds -> Handle] /\ send_handles_num \in 0 .. MaxHandles
  /\ ch \in ChannelIds \cup {Unset}
  /\ proc \in {"up", "exit", "abort", "crash"}

Constructed(o) == jsock[o].origin = "constructor"

(* A socket that has been given a table entry of its own. *)
HasChannel(o) == jsock[o].bound \/ jsock[o].origin = "accept"

(* No channel index is handed to two sockets: bound sockets and accepted   *)
(* connections all have entries of their own, through every sequence of    *)
(* binds, unbinds, rebinds and accepts.                                    *)
ChannelsAreNotShared ==
  \A o, p \in Socks :
    o # p /\ HasChannel(o) /\ HasChannel(p) => jsock[o].channelId # jsock[p].channelId

(* No send handle index is handed to two sockets that called connect(). *)
HandlesAreNotShared ==
  \A o, p \in Socks :
    o # p /\ jsock[o].connected /\ jsock[p].connected
      => jsock[o].sendHandleId # jsock[p].sendHandleId

(* The address cache is right for ever: sockets constructed for the same   *)
(* address share one device and sockets of different addresses never do,   *)
(* and the device in the C table was opened for that address.              *)
DevicePerAddress ==
  \A o, p \in Socks :
    Constructed(o) /\ Constructed(p) =>
      /\ jsock[o].deviceId < devices_num
      /\ devices[jsock[o].deviceId].host = jsock[o].addr
      /\ (jsock[o].deviceId = jsock[p].deviceId <=> jsock[o].addr = jsock[p].addr)

(* What a bound socket reports in Java (its port, its device) is what the  *)
(* library channel created by its bind has.                                *)
BoundMatchesChannel ==
  \A o \in Socks :
    jsock[o].bound =>
      /\ jsock[o].channelId < channels_num
      /\ channels[jsock[o].channelId].port = jsock[o].port
      /\ channels[jsock[o].channelId].dev = jsock[o].deviceId

(* The only socket that remembers an open flag is the one that opened the  *)
(* device, and it remembers the flag the device was opened with.           *)
OpenFlagIsTheOpeners ==
  \A o \in Socks :
    Constructed(o) =>
      /\ jsock[o].openFlag \in {Unset, devices[jsock[o].deviceId].flag}
      /\ \A p \in Socks : Constructed(p) /\ p # o /\ jsock[p].deviceId = jsock[o].deviceId
                            => jsock[o].openFlag = Unset \/ jsock[p].openFlag = Unset

(* deviceEnable() refuses with "Device open flag is not a                  *)
(* DBL_OPEN_DISABLED" only when the socket's device was not opened with    *)
(* that flag.                                                              *)
EnableRefusalIsTrue ==
  \A o \in Socks :
    Constructed(o) /\ jsock[o].openFlag # DBL_OPEN_DISABLED
      => ~Disabled(devices[jsock[o].deviceId].flag)

=============================================================================
