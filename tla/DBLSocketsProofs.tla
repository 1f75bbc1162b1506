-------------------------- MODULE DBLSocketsProofs --------------------------
(***************************************************************************)
(* Proofs about DBLSockets: its type invariant, and the inductive          *)
(* invariant that gives every socket a table entry of its own.             *)
(***************************************************************************)
EXTENDS DBLSockets, TLAPS

(* The calls that look one table entry up and change no table. *)
LookUp(o) ==
  \/ \E len \in 1 .. 2 : send(o, len)
  \/ receive(o) \/ joinGroup(o) \/ leaveGroup(o)
  \/ deviceGetAttributes(o) \/ deviceSetAttributes(o)
  \/ \E via \in Socks : tcpSend(o, via) \/ tcpReceive(o, via)
  \/ tcpReceiveMsg(o)
  \/ \E sockets \in SUBSET Socks : tcpPoll(o, sockets)
  \/ tcpGetChannelOptions(o) \/ tcpSetChannelOptions(o) \/ tcpGetChannelType(o)

Outcomes == {"up", "exit", "abort", "crash"}

(* A step is one of the table-changing calls or a LookUp. *)
LEMMA NextSplits ==
  ASSUME Next
  PROVE  \E o \in Socks :
           \/ \E h \in Hosts, f \in OpenFlags : DBLUDPSocket(o, h, f)
           \/ DBLUDPSocketEmpty(o)
           \/ \E p \in Ports : bind(o, p) \/ bindAddr(o, p)
           \/ connect(o) \/ disconnect(o)
           \/ close(o) \/ unbind(o)
           \/ deviceEnable(o)
           \/ tcpListen(o)
           \/ \E new \in Socks, ok \in BOOLEAN, p \in Ports : tcpAccept(o, new, ok, p)
           \/ LookUp(o)
  BY Zenon DEF Next, LookUp

LEMMA LookUpChangesNothing ==
  ASSUME NEW o \in Socks, LookUp(o)
  PROVE  /\ UNCHANGED <<jsock, ipInUse, cvars>>
         /\ proc' \in Outcomes
  <1>1. CASE \E len \in 1 .. 2 : send(o, len)
    BY <1>1 DEF send, Unchecked, KeepC, ChannelCall, Outcomes
  <1>2. CASE receive(o) \/ tcpReceiveMsg(o) \/ deviceGetAttributes(o) \/ deviceSetAttributes(o)
    BY <1>2 DEF receive, tcpReceiveMsg, deviceGetAttributes, deviceSetAttributes,
                DeviceCall, SafeDeviceCall, Unchecked, DBL_Safe, KeepC, Outcomes
  <1>3. CASE \/ joinGroup(o) \/ leaveGroup(o)
             \/ tcpGetChannelOptions(o) \/ tcpSetChannelOptions(o) \/ tcpGetChannelType(o)
    BY <1>3 DEF joinGroup, leaveGroup, tcpGetChannelOptions, tcpSetChannelOptions,
                tcpGetChannelType, ChannelCall, SafeChannelCall, Unchecked, DBL_Safe,
                KeepC, Outcomes
  <1>4. CASE \E via \in Socks : tcpSend(o, via) \/ tcpReceive(o, via)
    BY <1>4 DEF tcpSend, tcpReceive, ChannelCall, SafeChannelCall, Unchecked, DBL_Safe,
                KeepC, Outcomes
  <1>5. CASE \E sockets \in SUBSET Socks : tcpPoll(o, sockets)
    BY <1>5 DEF tcpPoll, Unchecked, KeepC, Outcomes
  <1> QED BY <1>1, <1>2, <1>3, <1>4, <1>5 DEF LookUp

-----------------------------------------------------------------------------
(* A new table entry has the type of the table and counts within its bound. *)
LEMMA NewChannelType ==
  ASSUME TypeOK, channels_num < MaxChannels,
         NEW slot \in {"garbage", "handle"}, NEW state \in {"none", "open"},
         NEW dev \in Nat, NEW port \in Ports \cup {0},
         NewChannel(slot, state, dev, port)
  PROVE  /\ channels_num \in ChannelIds
         /\ channels' \in [ChannelIds -> Channel]
         /\ channels_num' = channels_num + 1
         /\ channels_num' \in 0 .. MaxChannels
  BY ConstantsAssumption DEF TypeOK, NewChannel, ChannelIds, Channel

LEMMA NewHandleType ==
  ASSUME TypeOK, send_handles_num < MaxHandles, NEW chan \in Nat, NewHandle(chan)
  PROVE  /\ send_handles_num \in HandleIds
         /\ send_handles' \in [HandleIds -> Handle]
         /\ send_handles_num' = send_handles_num + 1
         /\ send_handles_num' \in 0 .. MaxHandles
  BY ConstantsAssumption DEF TypeOK, NewHandle, HandleIds, Handle

(* The fields of a Java object keep their types when a method assigns them. *)
LEMMA SetsType ==
  ASSUME TypeOK, NEW o \in Socks, NEW fields, Up => fields \in JavaSocket,
         Sets(o, fields)
  PROVE  jsock' \in [Socks -> JavaSocket]
  BY DEF TypeOK, Sets

LEMMA SetsOne ==
  ASSUME TypeOK, NEW o \in Socks, NEW fields, Sets(o, fields), NEW q \in Socks
  PROVE  jsock'[q] = IF Up /\ q = o THEN fields ELSE jsock[q]
  BY DEF TypeOK, Sets

LEMMA InitTypeOK == Init => TypeOK
  BY ConstantsAssumption
     DEF Init, TypeOK, NewObject, JavaSocket, Device, Channel, Handle, Unset

(* No step gives a field, a table entry or a counter a value outside its   *)
(* type, for any number of sockets, addresses, ports and table entries.    *)
LEMMA NextTypeOK == TypeOK /\ [Next]_vars => TypeOK'
  <1> SUFFICES ASSUME TypeOK, [Next]_vars PROVE TypeOK'
    OBVIOUS
  <1> USE ConstantsAssumption
  <1>1. CASE UNCHANGED vars
    BY <1>1 DEF TypeOK, vars, cvars
  <1>2. ASSUME NEW o \in Socks, NEW h \in Hosts, NEW f \in OpenFlags, DBLUDPSocket(o, h, f)
        PROVE  TypeOK'
    <2>1. CASE ipInUse[h] = Unset /\ OpenDevice(o, h, f)
      <3>1. CASE Up
        <4>1. /\ devices_num \in DeviceIds
              /\ devices' \in [DeviceIds -> Device]
              /\ devices_num' = devices_num + 1
              /\ devices_num' \in 0 .. MaxDevices
          <5>1. /\ devices_num < MaxDevices
                /\ devices' = [devices EXCEPT ![devices_num] =
                                 [state |-> OpenState(f), host |-> h, flag |-> f]]
                /\ devices_num' = devices_num + 1
            BY <2>1, <3>1 DEF OpenDevice, createDeviceC
          <5>2. [state |-> OpenState(f), host |-> h, flag |-> f] \in Device
            BY DEF OpenState, Device
          <5> QED BY <5>1, <5>2 DEF TypeOK, DeviceIds
        <4>2. [NewSocket(h) EXCEPT !.deviceId = devices_num' - 1, !.openFlag = f] \in JavaSocket
          <5>1. devices_num' - 1 \in Nat /\ h \in Hosts \cup {NoHost} /\ f \in OpenFlags \cup {Unset}
            BY <4>1 DEF TypeOK
          <5> QED BY <5>1 DEF NewSocket, NewObject, JavaSocket, Unset
        <4>3. jsock' \in [Socks -> JavaSocket]
          BY <2>1, <4>2, SetsType DEF OpenDevice
        <4>4. ipInUse' \in [Hosts -> DeviceIds \cup {Unset}]
          <5>1. devices_num' - 1 \in DeviceIds
            BY <4>1 DEF TypeOK, DeviceIds
          <5> QED BY <2>1, <5>1 DEF OpenDevice, TypeOK
        <4> QED BY <2>1, <3>1, <4>1, <4>3, <4>4 DEF OpenDevice, createDeviceC, TypeOK, Up
      <3>2. CASE ~Up
        BY <2>1, <3>2 DEF OpenDevice, createDeviceC, Sets, TypeOK, DBL_Safe
      <3> QED BY <3>1, <3>2
    <2>2. CASE ipInUse[h] # Unset /\ ReuseDevice(o, h, f)
      <3>1. ipInUse[h] \in Nat
        BY <2>2 DEF TypeOK, DeviceIds
      <3>2. [NewSocket(h) EXCEPT !.deviceId = ipInUse[h]] \in JavaSocket
        BY <3>1 DEF NewSocket, NewObject, JavaSocket, Unset
      <3>3. jsock' \in [Socks -> JavaSocket]
        BY <2>2, <3>2, SetsType DEF ReuseDevice
      <3> QED BY <2>2, <3>3 DEF ReuseDevice, TypeOK, cvars
    <2> QED BY <1>2, <2>1, <2>2 DEF DBLUDPSocket
  <1>3. ASSUME NEW o \in Socks, DBLUDPSocketEmpty(o) PROVE TypeOK'
    <2>1. [NewObject EXCEPT !.origin = "empty"] \in JavaSocket
      BY DEF NewObject, JavaSocket, Unset
    <2> QED BY <1>3, <2>1 DEF DBLUDPSocketEmpty, TypeOK, cvars
  <1>4. ASSUME NEW o \in Socks, NEW p \in Ports, bind(o, p) \/ bindAddr(o, p)
        PROVE  TypeOK'
    <2>1. jsock[o] \in JavaSocket /\ jsock[o].deviceId \in Nat /\ p \in Ports \cup {0}
      BY DEF TypeOK, JavaSocket
    <2>2. CASE Up
      <3>1. /\ channels_num \in ChannelIds
            /\ channels' \in [ChannelIds -> Channel]
            /\ channels_num' = channels_num + 1
            /\ channels_num' \in 0 .. MaxChannels
        BY <1>4, <2>1, <2>2, NewChannelType DEF bind, bindAddr, bindC, bindAddrC
      <3>2. [jsock[o] EXCEPT !.channelId = channels_num' - 1, !.port = p, !.bound = TRUE]
              \in JavaSocket
        <4>1. channels_num' - 1 \in Nat
          BY <3>1 DEF TypeOK
        <4> QED BY <2>1, <4>1 DEF JavaSocket
      <3>3. jsock' \in [Socks -> JavaSocket]
        BY <1>4, <3>2, SetsType DEF bind, bindAddr
      <3>4. ch' \in ChannelIds \cup {Unset}
        BY <1>4, <2>2, <3>1 DEF bind, bindAddr, bindC, bindAddrC, BindGlobal, TypeOK
      <3> QED BY <1>4, <2>2, <3>1, <3>3, <3>4
              DEF bind, bindAddr, bindC, bindAddrC, TypeOK, Up
    <2>3. CASE ~Up
      BY <1>4, <2>3 DEF bind, bindAddr, bindC, bindAddrC, Sets, TypeOK, DBL_Safe
    <2> QED BY <2>2, <2>3
  <1>5. ASSUME NEW o \in Socks, connect(o) PROVE TypeOK'
    <2>1. jsock[o] \in JavaSocket /\ jsock[o].channelId \in Nat
      BY DEF TypeOK, JavaSocket
    <2>2. CASE Up
      <3>1. /\ send_handles_num \in HandleIds
            /\ send_handles' \in [HandleIds -> Handle]
            /\ send_handles_num' = send_handles_num + 1
            /\ send_handles_num' \in 0 .. MaxHandles
        BY <1>5, <2>1, <2>2, NewHandleType DEF connect, sendConnectC
      <3>2. [jsock[o] EXCEPT !.sendHandleId = send_handles_num' - 1, !.connected = TRUE]
              \in JavaSocket
        <4>1. send_handles_num' - 1 \in Nat
          BY <3>1 DEF TypeOK
        <4> QED BY <2>1, <4>1 DEF JavaSocket
      <3>3. jsock' \in [Socks -> JavaSocket]
        BY <1>5, <3>2, SetsType DEF connect
      <3> QED BY <1>5, <2>2, <3>1, <3>3 DEF connect, sendConnectC, TypeOK, Up
    <2>3. CASE ~Up
      BY <1>5, <2>3 DEF connect, sendConnectC, Sets, TypeOK, DBL_Safe
    <2> QED BY <2>2, <2>3
  <1>6. ASSUME NEW o \in Socks, disconnect(o) PROVE TypeOK'
    <2>1. send_handles' \in [HandleIds -> Handle]
      <3>1. \A s \in HandleIds : [send_handles[s] EXCEPT !.state = "disconnected"] \in Handle
        BY DEF TypeOK, Handle
      <3>2. [send_handles EXCEPT ![jsock[o].sendHandleId].state = "disconnected"]
              \in [HandleIds -> Handle]
        BY <3>1 DEF TypeOK
      <3>3. \/ send_handles' = send_handles
            \/ send_handles' = [send_handles EXCEPT ![jsock[o].sendHandleId].state =
                                                       "disconnected"]
        BY <1>6 DEF disconnect, sendDisconnectC
      <3> QED BY <3>2, <3>3 DEF TypeOK
    <2> QED BY <1>6, <2>1 DEF disconnect, sendDisconnectC, Unchecked, TypeOK
  <1>7. ASSUME NEW o \in Socks, close(o) PROVE TypeOK'
    <2>1. [jsock[o] EXCEPT !.closed = TRUE] \in JavaSocket
      BY DEF TypeOK, JavaSocket
    <2>2. jsock' \in [Socks -> JavaSocket]
      BY <1>7, <2>1, SetsType DEF close
    <2>3. devices' \in [DeviceIds -> Device]
      <3>1. \A d \in DeviceIds : [devices[d] EXCEPT !.state = "closed"] \in Device
        BY DEF TypeOK, Device
      <3>2. [devices EXCEPT ![jsock[o].deviceId].state = "closed"] \in [DeviceIds -> Device]
        BY <3>1 DEF TypeOK
      <3>3. \/ devices' = devices
            \/ devices' = [devices EXCEPT ![jsock[o].deviceId].state = "closed"]
        BY <1>7 DEF close, closeC, CloseDevice
      <3> QED BY <3>2, <3>3 DEF TypeOK
    <2> QED BY <1>7, <2>2, <2>3 DEF close, closeC, Unchecked, TypeOK
  <1>8. ASSUME NEW o \in Socks, unbind(o) PROVE TypeOK'
    <2>1. [jsock[o] EXCEPT !.bound = FALSE] \in JavaSocket
      BY DEF TypeOK, JavaSocket
    <2>2. jsock' \in [Socks -> JavaSocket]
      BY <1>8, <2>1, SetsType DEF unbind
    <2>3. channels' \in [ChannelIds -> Channel]
      <3>1. \A c \in ChannelIds : [channels[c] EXCEPT !.state = "unbound"] \in Channel
        BY DEF TypeOK, Channel
      <3>2. [channels EXCEPT ![jsock[o].channelId].state = "unbound"] \in [ChannelIds -> Channel]
        BY <3>1 DEF TypeOK
      <3>3. \/ channels' = channels
            \/ channels' = [channels EXCEPT ![jsock[o].channelId].state = "unbound"]
        BY <1>8 DEF unbind, unbindC
      <3> QED BY <3>2, <3>3 DEF TypeOK
    <2> QED BY <1>8, <2>2, <2>3 DEF unbind, unbindC, Unchecked, TypeOK
  <1>9. ASSUME NEW o \in Socks, deviceEnable(o) PROVE TypeOK'
    <2>1. devices' \in [DeviceIds -> Device]
      <3>1. \A d \in DeviceIds : [devices[d] EXCEPT !.state = "enabled"] \in Device
        BY DEF TypeOK, Device
      <3>2. [devices EXCEPT ![jsock[o].deviceId].state = "enabled"] \in [DeviceIds -> Device]
        BY <3>1 DEF TypeOK
      <3>3. \/ devices' = devices
            \/ devices' = [devices EXCEPT ![jsock[o].deviceId].state = "enabled"]
        BY <1>9 DEF deviceEnable, deviceEnableC
      <3> QED BY <3>2, <3>3 DEF TypeOK
    <2> QED BY <1>9, <2>1 DEF deviceEnable, deviceEnableC, DBL_Safe, TypeOK
  <1>10. ASSUME NEW o \in Socks, tcpListen(o) PROVE TypeOK'
    <2>1. channels' \in [ChannelIds -> Channel]
      <3>1. \A c \in ChannelIds : [channels[c] EXCEPT !.listening = TRUE] \in Channel
        BY DEF TypeOK, Channel
      <3>2. [channels EXCEPT ![ch].listening = TRUE] \in [ChannelIds -> Channel]
        BY <3>1 DEF TypeOK
      <3>3. \/ channels' = channels
            \/ channels' = [channels EXCEPT ![ch].listening = TRUE]
        BY <1>10 DEF tcpListen, tcpListenC
      <3> QED BY <3>2, <3>3 DEF TypeOK
    <2> QED BY <1>10, <2>1 DEF tcpListen, tcpListenC, DBL_Safe, TypeOK
  <1>11. ASSUME NEW o \in Socks, NEW new \in Socks, NEW ok \in BOOLEAN, NEW p \in Ports,
                tcpAccept(o, new, ok, p)
         PROVE  TypeOK'
    <2>2. CASE Up
      <3>1. /\ channels_num \in ChannelIds
            /\ channels' \in [ChannelIds -> Channel]
            /\ channels_num' = channels_num + 1
            /\ channels_num' \in 0 .. MaxChannels
        <4>1. CASE ok
          <5>1. channels[ch].dev \in Nat
            BY <1>11, <4>1 DEF tcpAccept, tcpAcceptC, LibChannelValid, TypeOK, Channel
          <5>2. NewChannel("garbage", "open", channels[ch].dev, p) /\ channels_num < MaxChannels
            BY <1>11, <2>2, <4>1 DEF tcpAccept, tcpAcceptC
          <5> QED BY <5>1, <5>2, NewChannelType
        <4>2. CASE ~ok
          BY <1>11, <2>2, <4>2, NewChannelType DEF tcpAccept, tcpAcceptC
        <4> QED BY <4>1, <4>2
      <3>2. [NewObject EXCEPT !.origin = "accept", !.port = p, !.channelId = channels_num' - 1]
              \in JavaSocket
        <4>1. channels_num' - 1 \in Nat /\ p \in Ports \cup {0}
          BY <3>1 DEF TypeOK
        <4> QED BY <4>1 DEF NewObject, JavaSocket, Unset
      <3>3. jsock' \in [Socks -> JavaSocket]
        BY <1>11, <3>2, SetsType DEF tcpAccept
      <3> QED BY <1>11, <2>2, <3>1, <3>3 DEF tcpAccept, tcpAcceptC, TypeOK, Up
    <2>3. CASE ~Up
      BY <1>11, <2>3 DEF tcpAccept, tcpAcceptC, Sets, TypeOK, Unchecked
    <2> QED BY <2>2, <2>3
  <1>12. ASSUME NEW o \in Socks, LookUp(o) PROVE TypeOK'
    BY <1>12, LookUpChangesNothing DEF TypeOK, cvars, Outcomes
  <1> QED BY <1>1, <1>2, <1>3, <1>4, <1>5, <1>6, <1>7, <1>8, <1>9, <1>10, <1>11, <1>12,
             NextSplits

(* Types: see TypeOK. *)
THEOREM TypeCorrect == Spec => []TypeOK
  <1>1. Init => TypeOK
    BY InitTypeOK
  <1>2. TypeOK /\ [Next]_vars => TypeOK'
    BY NextTypeOK
  <1> QED BY <1>1, <1>2, PTL DEF Spec

-----------------------------------------------------------------------------
(***************************************************************************)
(* The invariants that the runs check are not inductive by themselves: an  *)
(* index is new only because every index in use is below the counter of    *)
(* its table, and a device is the right one only because the address cache *)
(* agrees with the device table.                                           *)
(***************************************************************************)
CacheInv ==
  \A h \in Hosts : ipInUse[h] # Unset =>
    ipInUse[h] < devices_num /\ devices[ipInUse[h]].host = h

OwnerInv ==
  \A o \in Socks : Constructed(o) =>
    jsock[o].addr \in Hosts /\ jsock[o].deviceId = ipInUse[jsock[o].addr]

ChannelInv == \A o \in Socks : HasChannel(o) => jsock[o].channelId < channels_num

HandleInv == \A o \in Socks : jsock[o].connected => jsock[o].sendHandleId < send_handles_num

AddressInv == CacheInv /\ OwnerInv /\ OpenFlagIsTheOpeners
ChannelsInv == ChannelInv /\ ChannelsAreNotShared /\ BoundMatchesChannel
HandlesInv == HandleInv /\ HandlesAreNotShared

IInv == TypeOK /\ AddressInv /\ ChannelsInv /\ HandlesInv

LEMMA InitIInv == Init => IInv
  <1> SUFFICES ASSUME Init PROVE AddressInv /\ ChannelsInv /\ HandlesInv
    BY InitTypeOK DEF IInv
  <1>1. \A o \in Socks : jsock[o] = NewObject
    BY DEF Init
  <1> QED BY <1>1 DEF Init, NewObject, AddressInv, CacheInv, OwnerInv, OpenFlagIsTheOpeners,
                ChannelsInv, ChannelInv, ChannelsAreNotShared, BoundMatchesChannel,
                HandlesInv, HandleInv, HandlesAreNotShared, Constructed, HasChannel

(* Which fields of which sockets a table-changing call assigns. *)
LEMMA AddressStep ==
  ASSUME TypeOK, TypeOK', AddressInv, [Next]_vars
  PROVE  AddressInv'
  <1> USE ConstantsAssumption
  <1> DEFINE SameOwner == \A q \in Socks : Constructed(q)' =>
                 /\ Constructed(q)
                 /\ jsock'[q].addr = jsock[q].addr
                 /\ jsock'[q].deviceId = jsock[q].deviceId
                 /\ jsock'[q].openFlag = jsock[q].openFlag
             SameDevices == /\ devices_num' = devices_num
                            /\ \A d \in DeviceIds : /\ devices'[d].host = devices[d].host
                                                    /\ devices'[d].flag = devices[d].flag
  <1>1. ASSUME SameOwner, SameDevices, UNCHANGED ipInUse PROVE AddressInv'
    <2>1. \A o \in Socks : Constructed(o) => jsock[o].deviceId \in DeviceIds
      BY DEF AddressInv, OwnerInv, CacheInv, TypeOK, JavaSocket, DeviceIds, Unset
    <2>2. CacheInv'
      BY <1>1 DEF AddressInv, CacheInv, TypeOK
    <2>3. OwnerInv'
      BY <1>1 DEF AddressInv, OwnerInv
    <2>4. OpenFlagIsTheOpeners'
      BY <1>1, <2>1 DEF AddressInv, OpenFlagIsTheOpeners
    <2> QED BY <2>2, <2>3, <2>4 DEF AddressInv
  <1>2. CASE UNCHANGED vars
    BY <1>1, <1>2 DEF vars, cvars, Constructed
  <1>3. ASSUME NEW o \in Socks, NEW h \in Hosts, NEW f \in OpenFlags, DBLUDPSocket(o, h, f)
        PROVE  AddressInv'
    <2>1. CASE ~Up
      BY <1>1, <1>3, <2>1 DEF DBLUDPSocket, OpenDevice, ReuseDevice, createDeviceC, Sets,
                              Constructed, Up
    <2>2. CASE Up /\ ipInUse[h] = Unset /\ OpenDevice(o, h, f)
      <3>1. /\ devices_num \in DeviceIds
            /\ devices_num' = devices_num + 1
            /\ devices' = [devices EXCEPT ![devices_num] =
                             [state |-> OpenState(f), host |-> h, flag |-> f]]
            /\ ipInUse' = [ipInUse EXCEPT ![h] = devices_num]
        <4>1. devices_num < MaxDevices /\ devices_num' = devices_num + 1
          BY <2>2 DEF OpenDevice, createDeviceC
        <4>2. devices_num \in DeviceIds /\ devices_num' - 1 = devices_num
          BY <4>1 DEF TypeOK, DeviceIds
        <4> QED BY <2>2, <4>1, <4>2 DEF OpenDevice, createDeviceC
      <3>2. \A q \in Socks : jsock'[q] =
              IF q = o THEN [NewSocket(h) EXCEPT !.deviceId = devices_num' - 1, !.openFlag = f]
                       ELSE jsock[q]
        BY <2>2, SetsOne DEF OpenDevice
      <3>3. /\ jsock'[o].origin = "constructor" /\ jsock'[o].addr = h
            /\ jsock'[o].deviceId = devices_num /\ jsock'[o].openFlag = f
        <4>1. devices_num' - 1 = devices_num
          BY <3>1 DEF TypeOK
        <4> QED BY <3>2, <4>1 DEF NewSocket, NewObject
      <3>4. \A q \in Socks : Constructed(q) => jsock[q].addr # h /\ jsock[q].deviceId < devices_num
        BY <2>2 DEF AddressInv, OwnerInv, CacheInv, TypeOK, JavaSocket, Unset
      <3>5. \A d \in DeviceIds : d < devices_num => devices'[d] = devices[d]
        BY <3>1 DEF TypeOK
      <3>6. CacheInv'
        BY <3>1, <3>5 DEF AddressInv, CacheInv, TypeOK, DeviceIds, Unset
      <3>7. OwnerInv'
        BY <3>1, <3>2, <3>3, <3>4 DEF AddressInv, OwnerInv, Constructed, TypeOK
      <3>8. ASSUME NEW q \in Socks, Constructed(q)'
            PROVE  /\ jsock'[q].openFlag \in {Unset, devices'[jsock'[q].deviceId].flag}
                   /\ \A p \in Socks :
                        Constructed(p)' /\ p # q /\ jsock'[p].deviceId = jsock'[q].deviceId
                          => jsock'[q].openFlag = Unset \/ jsock'[p].openFlag = Unset
        <4>1. CASE q = o
          BY <3>1, <3>2, <3>3, <3>4, <4>1 DEF Constructed, TypeOK
        <4>2. CASE q # o
          <5>1. jsock'[q] = jsock[q] /\ Constructed(q)
            BY <3>2, <3>8, <4>2 DEF Constructed
          <5>2. jsock[q].deviceId \in DeviceIds /\ jsock[q].deviceId < devices_num
            BY <3>4, <5>1 DEF TypeOK, JavaSocket, DeviceIds
          <5>3. devices'[jsock[q].deviceId] = devices[jsock[q].deviceId]
            BY <3>5, <5>2
          <5>4. \A p \in Socks : p # o => jsock'[p] = jsock[p]
            BY <3>2
          <5>5. jsock'[o].deviceId # jsock[q].deviceId
            BY <3>3, <5>2 DEF TypeOK
          <5> QED BY <5>1, <5>3, <5>4, <5>5 DEF AddressInv, OpenFlagIsTheOpeners, Constructed
        <4> QED BY <4>1, <4>2
      <3> QED BY <3>6, <3>7, <3>8 DEF AddressInv, OpenFlagIsTheOpeners
    <2>3. CASE Up /\ ipInUse[h] # Unset /\ ReuseDevice(o, h, f)
      <3>1. UNCHANGED <<devices, devices_num, ipInUse>>
        BY <2>3 DEF ReuseDevice, cvars
      <3>2. \A q \in Socks : jsock'[q] =
              IF q = o THEN [NewSocket(h) EXCEPT !.deviceId = ipInUse[h]] ELSE jsock[q]
        BY <2>3, SetsOne DEF ReuseDevice
      <3>3. /\ jsock'[o].addr = h /\ jsock'[o].deviceId = ipInUse[h]
            /\ jsock'[o].openFlag = Unset
        BY <3>2 DEF NewSocket, NewObject
      <3>4. CacheInv'
        BY <3>1 DEF AddressInv, CacheInv
      <3>5. OwnerInv'
        BY <3>1, <3>2, <3>3 DEF AddressInv, OwnerInv, Constructed
      <3>6. OpenFlagIsTheOpeners'
        BY <3>1, <3>2, <3>3 DEF AddressInv, OpenFlagIsTheOpeners, Constructed
      <3> QED BY <3>4, <3>5, <3>6 DEF AddressInv
    <2> QED BY <1>3, <2>1, <2>2, <2>3 DEF DBLUDPSocket
  <1>4. ASSUME NEW o \in Socks, DBLUDPSocketEmpty(o) PROVE AddressInv'
    <2>1. SameOwner
      BY <1>4 DEF DBLUDPSocketEmpty, TypeOK, JavaSocket, NewObject, Constructed
    <2>2. SameDevices /\ UNCHANGED ipInUse
      BY <1>4 DEF DBLUDPSocketEmpty, cvars
    <2> QED BY <1>1, <2>1, <2>2
  <1>5. ASSUME NEW o \in Socks, NEW p \in Ports, bind(o, p) \/ bindAddr(o, p)
        PROVE  AddressInv'
    <2>1. SameOwner
      <3> TAKE q \in Socks
      <3>1. jsock[q] \in JavaSocket
        BY DEF TypeOK
      <3>2. \/ jsock'[q] = jsock[q]
            \/ jsock'[q] = [jsock[q] EXCEPT !.channelId = channels_num' - 1, !.port = p,
                                          !.bound = TRUE]
        BY <1>5, SetsOne DEF bind, bindAddr
      <3> QED BY <3>1, <3>2 DEF JavaSocket, Constructed
    <2>2. SameDevices /\ UNCHANGED ipInUse
      BY <1>5 DEF bind, bindAddr, bindC, bindAddrC
    <2> QED BY <1>1, <2>1, <2>2
  <1>6. ASSUME NEW o \in Socks, connect(o) \/ unbind(o) \/ close(o)
        PROVE  SameOwner
    <2> TAKE q \in Socks
    <2>1. jsock[q] \in JavaSocket
      BY DEF TypeOK
    <2>2. \/ jsock'[q] = jsock[q]
          \/ jsock'[q] = [jsock[q] EXCEPT !.sendHandleId = send_handles_num' - 1,
                                        !.connected = TRUE]
          \/ jsock'[q] = [jsock[q] EXCEPT !.bound = FALSE]
          \/ jsock'[q] = [jsock[q] EXCEPT !.closed = TRUE]
      BY <1>6, SetsOne DEF connect, unbind, close
    <2> QED BY <2>1, <2>2 DEF JavaSocket, Constructed
  <1>7. ASSUME NEW o \in Socks,
               connect(o) \/ disconnect(o) \/ unbind(o) \/ tcpListen(o)
        PROVE  AddressInv'
    <2>1. SameOwner
      BY <1>6, <1>7 DEF disconnect, tcpListen, Constructed
    <2>2. SameDevices /\ UNCHANGED ipInUse
      BY <1>7 DEF connect, disconnect, unbind, tcpListen,
                  sendConnectC, sendDisconnectC, unbindC, tcpListenC
    <2> QED BY <1>1, <2>1, <2>2
  <1>8. ASSUME NEW o \in Socks, close(o) \/ deviceEnable(o) PROVE AddressInv'
    <2>1. SameOwner
      BY <1>6, <1>8 DEF deviceEnable, Constructed
    <2>2. SameDevices /\ UNCHANGED ipInUse
      BY <1>8 DEF close, deviceEnable, closeC, CloseDevice, deviceEnableC, TypeOK, Device
    <2> QED BY <1>1, <2>1, <2>2
  <1>9. ASSUME NEW o \in Socks, NEW new \in Socks, NEW ok \in BOOLEAN, NEW p \in Ports,
               tcpAccept(o, new, ok, p)
        PROVE  AddressInv'
    <2>1. SameOwner
      BY <1>9 DEF tcpAccept, Sets, TypeOK, JavaSocket, NewObject, Constructed
    <2>2. SameDevices /\ UNCHANGED ipInUse
      BY <1>9 DEF tcpAccept, tcpAcceptC
    <2> QED BY <1>1, <2>1, <2>2
  <1>10. ASSUME NEW o \in Socks, LookUp(o) PROVE AddressInv'
    BY <1>1, <1>10, LookUpChangesNothing DEF cvars, Constructed
  <1> QED BY <1>2, <1>3, <1>4, <1>5, <1>7, <1>8, <1>9, <1>10, NextSplits

(* A new channel entry is above every entry in use. *)
LEMMA ChannelsStep ==
  ASSUME TypeOK, TypeOK', ChannelsInv, [Next]_vars
  PROVE  ChannelsInv'
  <1> USE ConstantsAssumption
  <1> DEFINE SameChannel(q) == HasChannel(q)' =>
                 /\ HasChannel(q)
                 /\ jsock'[q].channelId = jsock[q].channelId
                 /\ jsock'[q].bound => /\ jsock[q].bound
                                       /\ jsock'[q].port = jsock[q].port
                                       /\ jsock'[q].deviceId = jsock[q].deviceId
             Kept == /\ channels_num <= channels_num'
                     /\ \A c \in ChannelIds : c < channels_num =>
                          /\ channels'[c].port = channels[c].port
                          /\ channels'[c].dev = channels[c].dev
  <1>1. ASSUME Kept, \A q \in Socks : SameChannel(q) PROVE ChannelsInv'
    <2>1. \A q \in Socks : HasChannel(q) =>
            jsock[q].channelId \in ChannelIds /\ jsock[q].channelId < channels_num
      BY DEF ChannelsInv, ChannelInv, TypeOK, JavaSocket, ChannelIds
    <2>2. ChannelInv'
      BY <1>1, <2>1 DEF ChannelInv, TypeOK, ChannelIds
    <2>3. ChannelsAreNotShared'
      BY <1>1 DEF ChannelsInv, ChannelsAreNotShared
    <2>4. BoundMatchesChannel'
      BY <1>1, <2>1, <2>2 DEF ChannelsInv, BoundMatchesChannel, ChannelInv, HasChannel
    <2> QED BY <2>2, <2>3, <2>4 DEF ChannelsInv
  <1>2. ASSUME NEW o \in Socks, Kept, channels_num' = channels_num + 1,
               \A q \in Socks : q # o => jsock'[q] = jsock[q],
               jsock'[o].channelId = channels_num,
               jsock'[o].bound => /\ channels'[channels_num].port = jsock'[o].port
                                  /\ channels'[channels_num].dev = jsock'[o].deviceId
        PROVE  ChannelsInv'
    <2>1. \A q \in Socks : HasChannel(q) =>
            jsock[q].channelId \in ChannelIds /\ jsock[q].channelId < channels_num
      BY DEF ChannelsInv, ChannelInv, TypeOK, JavaSocket, ChannelIds
    <2>2. \A q \in Socks : q # o => (HasChannel(q)' <=> HasChannel(q))
      BY <1>2 DEF HasChannel
    <2>3. ChannelInv'
      <3> SUFFICES ASSUME NEW q \in Socks, HasChannel(q)' PROVE jsock'[q].channelId < channels_num'
        BY DEF ChannelInv
      <3>1. CASE q = o
        BY <1>2, <3>1 DEF TypeOK
      <3>2. CASE q # o
        BY <1>2, <2>1, <2>2, <3>2 DEF TypeOK, ChannelIds
      <3> QED BY <3>1, <3>2
    <2>4. ChannelsAreNotShared'
      <3> SUFFICES ASSUME NEW q \in Socks, NEW r \in Socks, q # r,
                          HasChannel(q)', HasChannel(r)'
                   PROVE  jsock'[q].channelId # jsock'[r].channelId
        BY DEF ChannelsAreNotShared
      <3>1. CASE q # o /\ r # o
        BY <1>2, <2>2, <3>1 DEF ChannelsInv, ChannelsAreNotShared
      <3>2. CASE q = o \/ r = o
        BY <1>2, <2>1, <2>2, <3>2 DEF TypeOK, ChannelIds
      <3> QED BY <3>1, <3>2
    <2>5. BoundMatchesChannel'
      <3> SUFFICES ASSUME NEW q \in Socks, jsock'[q].bound
                   PROVE  /\ jsock'[q].channelId < channels_num'
                          /\ channels'[jsock'[q].channelId].port = jsock'[q].port
                          /\ channels'[jsock'[q].channelId].dev = jsock'[q].deviceId
        BY DEF BoundMatchesChannel
      <3>1. CASE q = o
        BY <1>2, <3>1 DEF TypeOK
      <3>2. CASE q # o
        <4>1. jsock'[q] = jsock[q] /\ HasChannel(q)
          BY <1>2, <3>2 DEF HasChannel
        <4> QED BY <1>2, <2>1, <4>1 DEF ChannelsInv, BoundMatchesChannel, TypeOK, ChannelIds
      <3> QED BY <3>1, <3>2
    <2> QED BY <2>3, <2>4, <2>5 DEF ChannelsInv
  <1>3. CASE UNCHANGED vars
    BY <1>1, <1>3 DEF vars, cvars, HasChannel, TypeOK
  <1>4. ASSUME NEW o \in Socks, NEW h \in Hosts, NEW f \in OpenFlags, DBLUDPSocket(o, h, f)
        PROVE  ChannelsInv'
    <2>1. UNCHANGED <<channels, channels_num>>
      BY <1>4 DEF DBLUDPSocket, OpenDevice, createDeviceC, ReuseDevice, cvars
    <2>2. ASSUME NEW q \in Socks PROVE SameChannel(q)
      <3>1. \/ jsock'[q] = jsock[q]
            \/ jsock'[q] = [NewSocket(h) EXCEPT !.deviceId = devices_num' - 1, !.openFlag = f]
            \/ jsock'[q] = [NewSocket(h) EXCEPT !.deviceId = ipInUse[h]]
        BY <1>4, SetsOne DEF DBLUDPSocket, OpenDevice, ReuseDevice
      <3> QED BY <3>1 DEF NewSocket, NewObject, HasChannel
    <2> QED BY <1>1, <2>1, <2>2 DEF TypeOK
  <1>5. ASSUME NEW o \in Socks, DBLUDPSocketEmpty(o) PROVE ChannelsInv'
    BY <1>1, <1>5 DEF DBLUDPSocketEmpty, TypeOK, NewObject, HasChannel, cvars
  <1>6. ASSUME NEW o \in Socks, NEW p \in Ports, bind(o, p) \/ bindAddr(o, p)
        PROVE  ChannelsInv'
    <2>1. CASE ~Up
      BY <1>1, <1>6, <2>1 DEF bind, bindAddr, bindC, bindAddrC, Sets, HasChannel, TypeOK, Up
    <2>2. CASE Up
      <3>1. /\ channels_num \in ChannelIds
            /\ channels_num' = channels_num + 1
            /\ \E slot \in {"garbage", "handle"} : channels' =
                 [channels EXCEPT ![channels_num] =
                    [slot |-> slot, state |-> "open", dev |-> jsock[o].deviceId, port |-> p,
                     listening |-> FALSE]]
        BY <1>6, <2>2 DEF bind, bindAddr, bindC, bindAddrC, NewChannel, TypeOK, ChannelIds
      <3>2. Kept /\ channels'[channels_num].port = p
                 /\ channels'[channels_num].dev = jsock[o].deviceId
        BY <3>1 DEF TypeOK, ChannelIds
      <3>3. \A q \in Socks : jsock'[q] =
              IF q = o THEN [jsock[o] EXCEPT !.channelId = channels_num' - 1, !.port = p,
                                             !.bound = TRUE]
                       ELSE jsock[q]
        BY <1>6, <2>2, SetsOne DEF bind, bindAddr
      <3>4. /\ jsock'[o].channelId = channels_num /\ jsock'[o].port = p
            /\ jsock'[o].deviceId = jsock[o].deviceId
        <4>1. channels_num' - 1 = channels_num /\ jsock[o] \in JavaSocket
          BY <3>1 DEF TypeOK
        <4> QED BY <3>3, <4>1 DEF JavaSocket
      <3> QED BY <1>2, <3>1, <3>2, <3>3, <3>4
    <2> QED BY <2>1, <2>2
  <1>7. ASSUME NEW o \in Socks, connect(o) \/ disconnect(o) \/ close(o) \/ deviceEnable(o)
                                \/ LookUp(o)
        PROVE  ChannelsInv'
    <2>1. UNCHANGED <<channels, channels_num>>
      BY <1>7, LookUpChangesNothing
         DEF connect, disconnect, close, deviceEnable, sendConnectC, sendDisconnectC, closeC,
             deviceEnableC, cvars
    <2>2. ASSUME NEW q \in Socks PROVE SameChannel(q)
      <3>1. jsock[q] \in JavaSocket
        BY DEF TypeOK
      <3>2. \/ jsock'[q] = jsock[q]
            \/ jsock'[q] = [jsock[q] EXCEPT !.sendHandleId = send_handles_num' - 1,
                                          !.connected = TRUE]
            \/ jsock'[q] = [jsock[q] EXCEPT !.closed = TRUE]
        BY <1>7, SetsOne, LookUpChangesNothing DEF connect, disconnect, close, deviceEnable
      <3> QED BY <3>1, <3>2 DEF JavaSocket, HasChannel
    <2> QED BY <1>1, <2>1, <2>2 DEF TypeOK
  <1>8. ASSUME NEW o \in Socks, unbind(o) \/ tcpListen(o) PROVE ChannelsInv'
    <2>1. Kept
      <3>1. \/ channels' = channels
            \/ \E c : channels' = [channels EXCEPT ![c].state = "unbound"]
            \/ \E c : channels' = [channels EXCEPT ![c].listening = TRUE]
        BY <1>8 DEF unbind, tcpListen, unbindC, tcpListenC
      <3>2. \A c \in ChannelIds : /\ channels'[c].port = channels[c].port
                                  /\ channels'[c].dev = channels[c].dev
        BY <3>1 DEF TypeOK, Channel
      <3>3. channels_num' = channels_num
        BY <1>8 DEF unbind, tcpListen, unbindC, tcpListenC
      <3> QED BY <3>2, <3>3 DEF TypeOK
    <2>2. ASSUME NEW q \in Socks PROVE SameChannel(q)
      <3>1. jsock[q] \in JavaSocket
        BY DEF TypeOK
      <3>2. \/ jsock'[q] = jsock[q]
            \/ jsock'[q] = [jsock[q] EXCEPT !.bound = FALSE]
        BY <1>8, SetsOne DEF unbind, tcpListen
      <3> QED BY <3>1, <3>2 DEF JavaSocket, HasChannel
    <2> QED BY <1>1, <2>1, <2>2
  <1>9. ASSUME NEW o \in Socks, NEW new \in Socks, NEW ok \in BOOLEAN, NEW p \in Ports,
               tcpAccept(o, new, ok, p)
        PROVE  ChannelsInv'
    <2>1. CASE ~Up
      BY <1>1, <1>9, <2>1 DEF tcpAccept, tcpAcceptC, Sets, HasChannel, TypeOK, Up
    <2>2. CASE Up
      <3>1. /\ channels_num \in ChannelIds
            /\ channels_num' = channels_num + 1
            /\ \E v \in {channels'[channels_num]} : channels' = [channels EXCEPT ![channels_num] = v]
        BY <1>9, <2>2 DEF tcpAccept, tcpAcceptC, NewChannel, TypeOK, ChannelIds
      <3>2. Kept
        BY <3>1 DEF TypeOK, ChannelIds
      <3>3. \A q \in Socks : jsock'[q] =
              IF q = new THEN [NewObject EXCEPT !.origin = "accept", !.port = p,
                                                !.channelId = channels_num' - 1]
                         ELSE jsock[q]
        BY <1>9, <2>2, SetsOne DEF tcpAccept
      <3>4. jsock'[new].channelId = channels_num /\ ~jsock'[new].bound
        <4>1. channels_num' - 1 = channels_num
          BY <3>1 DEF TypeOK
        <4> QED BY <3>3, <4>1 DEF NewObject
      <3> QED BY <1>2, <3>1, <3>2, <3>3, <3>4
    <2> QED BY <2>1, <2>2
  <1> QED BY <1>3, <1>4, <1>5, <1>6, <1>7, <1>8, <1>9, NextSplits

(* A new send handle entry is above every entry in use. *)
LEMMA HandlesStep ==
  ASSUME TypeOK, TypeOK', HandlesInv, [Next]_vars
  PROVE  HandlesInv'
  <1> USE ConstantsAssumption
  <1> DEFINE SameHandle(q) == jsock'[q].connected =>
                 jsock[q].connected /\ jsock'[q].sendHandleId = jsock[q].sendHandleId
  <1>1. ASSUME send_handles_num' = send_handles_num, \A q \in Socks : SameHandle(q)
        PROVE  HandlesInv'
    BY <1>1 DEF HandlesInv, HandleInv, HandlesAreNotShared
  <1>2. CASE UNCHANGED vars
    BY <1>1, <1>2 DEF vars, cvars
  <1>3. ASSUME NEW o \in Socks, connect(o), Up PROVE HandlesInv'
    <2>1. send_handles_num' = send_handles_num + 1
      BY <1>3 DEF connect, sendConnectC, NewHandle
    <2>2. \A q \in Socks : jsock'[q] =
            IF q = o THEN [jsock[o] EXCEPT !.sendHandleId = send_handles_num' - 1,
                                           !.connected = TRUE]
                     ELSE jsock[q]
      BY <1>3, SetsOne DEF connect
    <2>3. jsock'[o].sendHandleId = send_handles_num
      <3>1. send_handles_num' - 1 = send_handles_num /\ jsock[o] \in JavaSocket
        BY <2>1 DEF TypeOK
      <3> QED BY <2>2, <3>1 DEF JavaSocket
    <2>4. HandleInv'
      BY <2>1, <2>2, <2>3 DEF HandlesInv, HandleInv, TypeOK, JavaSocket
    <2>5. HandlesAreNotShared'
      <3> SUFFICES ASSUME NEW q \in Socks, NEW r \in Socks, q # r,
                          jsock'[q].connected, jsock'[r].connected
                   PROVE  jsock'[q].sendHandleId # jsock'[r].sendHandleId
        BY DEF HandlesAreNotShared
      <3>1. CASE q # o /\ r # o
        BY <2>2, <3>1 DEF HandlesInv, HandlesAreNotShared
      <3>2. CASE q = o \/ r = o
        BY <2>2, <2>3, <3>2 DEF HandlesInv, HandleInv, TypeOK, JavaSocket
      <3> QED BY <3>1, <3>2
    <2> QED BY <2>4, <2>5 DEF HandlesInv
  <1>4. ASSUME NEW o \in Socks, NEW h \in Hosts, NEW f \in OpenFlags, DBLUDPSocket(o, h, f)
        PROVE  HandlesInv'
    <2>1. send_handles_num' = send_handles_num
      BY <1>4 DEF DBLUDPSocket, OpenDevice, createDeviceC, ReuseDevice, cvars
    <2>2. ASSUME NEW q \in Socks PROVE SameHandle(q)
      <3>1. \/ jsock'[q] = jsock[q]
            \/ jsock'[q] = [NewSocket(h) EXCEPT !.deviceId = devices_num' - 1, !.openFlag = f]
            \/ jsock'[q] = [NewSocket(h) EXCEPT !.deviceId = ipInUse[h]]
        BY <1>4, SetsOne DEF DBLUDPSocket, OpenDevice, ReuseDevice
      <3> QED BY <3>1 DEF NewSocket, NewObject
    <2> QED BY <1>1, <2>1, <2>2
  <1>5. ASSUME NEW o \in Socks, DBLUDPSocketEmpty(o) PROVE HandlesInv'
    BY <1>1, <1>5 DEF DBLUDPSocketEmpty, TypeOK, NewObject, cvars
  <1>6. ASSUME NEW o \in Socks,
               \/ \E p \in Ports : bind(o, p) \/ bindAddr(o, p)
               \/ close(o) \/ unbind(o)
               \/ \E new \in Socks, ok \in BOOLEAN, p \in Ports : tcpAccept(o, new, ok, p)
        PROVE  HandlesInv'
    <2>1. send_handles_num' = send_handles_num
      BY <1>6 DEF bind, bindAddr, close, unbind, tcpAccept, bindC, bindAddrC, closeC, unbindC,
                  tcpAcceptC
    <2>2. ASSUME NEW q \in Socks PROVE SameHandle(q)
      <3>1. jsock[q] \in JavaSocket
        BY DEF TypeOK
      <3>2. ASSUME NEW p \in Ports, bind(o, p) \/ bindAddr(o, p) PROVE SameHandle(q)
        <4>1. \/ jsock'[q] = jsock[q]
              \/ jsock'[q] = [jsock[q] EXCEPT !.channelId = channels_num' - 1,
                                            !.port = p, !.bound = TRUE]
          BY <3>2, SetsOne DEF bind, bindAddr
        <4> QED BY <3>1, <4>1 DEF JavaSocket
      <3>3. CASE close(o) \/ unbind(o)
        <4>1. \/ jsock'[q] = jsock[q]
              \/ jsock'[q] = [jsock[q] EXCEPT !.closed = TRUE]
              \/ jsock'[q] = [jsock[q] EXCEPT !.bound = FALSE]
          BY <3>3, SetsOne DEF close, unbind
        <4> QED BY <3>1, <4>1 DEF JavaSocket
      <3>4. ASSUME NEW new \in Socks, NEW ok \in BOOLEAN, NEW p \in Ports,
                   tcpAccept(o, new, ok, p)
            PROVE  SameHandle(q)
        <4>1. \/ jsock'[q] = jsock[q]
              \/ jsock'[q] = [NewObject EXCEPT !.origin = "accept", !.port = p,
                                             !.channelId = channels_num' - 1]
          BY <3>4, SetsOne DEF tcpAccept
        <4> QED BY <4>1 DEF NewObject
      <3> QED BY <1>6, <3>2, <3>3, <3>4
    <2> QED BY <1>1, <2>1, <2>2
  <1>7. ASSUME NEW o \in Socks,
               \/ disconnect(o) \/ deviceEnable(o) \/ tcpListen(o) \/ LookUp(o)
               \/ connect(o) /\ ~Up
        PROVE  HandlesInv'
    BY <1>1, <1>7, LookUpChangesNothing
       DEF disconnect, deviceEnable, tcpListen, connect, sendDisconnectC, deviceEnableC,
           tcpListenC, sendConnectC, Sets, cvars, Up
  <1> QED BY <1>2, <1>3, <1>4, <1>5, <1>6, <1>7, NextSplits

-----------------------------------------------------------------------------
LEMMA NextIInv == IInv /\ [Next]_vars => IInv'
  BY NextTypeOK, AddressStep, ChannelsStep, HandlesStep DEF IInv

LEMMA Invariance == Spec => []IInv
  <1>1. Init => IInv
    BY InitIInv
  <1>2. IInv /\ [Next]_vars => IInv'
    BY NextIInv
  <1> QED BY <1>1, <1>2, PTL DEF Spec

(* No two sockets ever hold the same channel index: bind(), bindAddr() and *)
(* tcpAccept() always hand out an entry that no socket uses.               *)
THEOREM ChannelsOwned == Spec => []ChannelsAreNotShared
  <1>1. IInv => ChannelsAreNotShared
    BY DEF IInv, ChannelsInv
  <1> QED BY <1>1, Invariance, PTL

(* No two sockets that called connect() ever hold the same send handle. *)
THEOREM HandlesOwned == Spec => []HandlesAreNotShared
  <1>1. IInv => HandlesAreNotShared
    BY DEF IInv, HandlesInv
  <1> QED BY <1>1, Invariance, PTL

(* The channel of a bound socket has the port and the device that Java     *)
(* has recorded for the socket.                                            *)
THEOREM BoundSocketsAgree == Spec => []BoundMatchesChannel
  <1>1. IInv => BoundMatchesChannel
    BY DEF IInv, ChannelsInv
  <1> QED BY <1>1, Invariance, PTL

(* The constructor shares a device between the sockets of one address and  *)
(* between no others.                                                      *)
THEOREM OneDevicePerAddress == Spec => []DevicePerAddress
  <1>1. IInv => DevicePerAddress
    <2> SUFFICES ASSUME IInv, NEW o \in Socks, NEW p \in Socks, Constructed(o), Constructed(p)
                 PROVE  /\ jsock[o].deviceId < devices_num
                        /\ devices[jsock[o].deviceId].host = jsock[o].addr
                        /\ jsock[o].deviceId = jsock[p].deviceId <=> jsock[o].addr = jsock[p].addr
      BY DEF DevicePerAddress
    <2>1. \A q \in {o, p} : /\ jsock[q].addr \in Hosts
                            /\ jsock[q].deviceId = ipInUse[jsock[q].addr]
                            /\ jsock[q].deviceId \in Nat
      BY DEF IInv, AddressInv, OwnerInv, TypeOK, JavaSocket
    <2>2. \A q \in {o, p} : /\ jsock[q].deviceId < devices_num
                            /\ devices[jsock[q].deviceId].host = jsock[q].addr
      BY <2>1 DEF IInv, AddressInv, CacheInv, Unset
    <2> QED BY <2>1, <2>2
  <1> QED BY <1>1, Invariance, PTL

(* Only the socket that opened a device remembers the flag it was opened   *)
(* with.                                                                   *)
THEOREM OpenFlagOfOpener == Spec => []OpenFlagIsTheOpeners
  <1>1. IInv => OpenFlagIsTheOpeners
    BY DEF IInv, AddressInv
  <1> QED BY <1>1, Invariance, PTL

=============================================================================
