-------------------------- MODULE DBLProtocolProofs -------------------------
(***************************************************************************)
(* The rules of DBLProtocol are enough: callers that follow all of them    *)
(* never make the library act on an entry it cannot act on.                *)
(***************************************************************************)
EXTENDS DBLProtocol, DBLSocketsProofs

(* Every rule is followed. *)
Disciplined == AllRules \subseteq Rules

HistoryTypeOK ==
  /\ bindCall \in [Socks -> {"none", "bind", "bindAddr"}]
  /\ linked \in [Socks -> BOOLEAN]
  /\ listened \in [Socks -> BOOLEAN]
  /\ binder \in Socks \cup {NoSock}

(* The device cached for an address can be used until a close() on it. *)
DeviceUsable ==
  \A h \in Hosts : ipInUse[h] # Unset /\ ~Ended(h)
    => devices[ipInUse[h]].state \in {"disabled", "enabled"}

BoundIsConstructed == \A o \in Socks : jsock[o].bound => Constructed(o)

(* The entry that bindAddr() filled stays usable until unbind(). *)
ChannelUsable ==
  \A o \in Socks : jsock[o].bound /\ bindCall[o] = "bindAddr"
    => channels[jsock[o].channelId].slot = "handle" /\ channels[jsock[o].channelId].state = "open"

LinkedInv ==
  \A o \in Socks : proc = "up" /\ linked[o] =>
    /\ jsock[o].bound /\ bindCall[o] = "bindAddr" /\ jsock[o].connected
    /\ send_handles[jsock[o].sendHandleId].state = "connected"
    /\ send_handles[jsock[o].sendHandleId].chan = jsock[o].channelId

(* ch is the channel of the socket whose bind() was the latest. *)
BinderInv ==
  \A o \in Socks : proc = "up" /\ binder = o =>
    /\ jsock[o].bound /\ bindCall[o] = "bind"
    /\ ch = jsock[o].channelId /\ channels[jsock[o].channelId].state = "open"

ListenInv ==
  \A o \in Socks : listened[o] =>
    jsock[o].bound /\ bindCall[o] = "bind" /\ channels[jsock[o].channelId].listening

PInv ==
  /\ IInv /\ HistoryTypeOK
  /\ DeviceUsable /\ BoundIsConstructed /\ ChannelUsable
  /\ LinkedInv /\ BinderInv /\ ListenInv
  /\ NoCrash

LEMMA InitPInv == PInit => PInv
  <1> SUFFICES ASSUME PInit PROVE PInv
    OBVIOUS
  <1>1. IInv
    BY InitIInv DEF PInit
  <1>2. \A o \in Socks : jsock[o] = NewObject
    BY DEF PInit, Init
  <1>3. binder \notin Socks
    BY ProtocolAssumption DEF PInit
  <1> QED BY <1>1, <1>2, <1>3 DEF PInit, Init, PInv, HistoryTypeOK, DeviceUsable,
                BoundIsConstructed, ChannelUsable, LinkedInv, BinderInv, ListenInv, NoCrash,
                NewObject, Unset

(* Adding the rules and the history takes no step that DBLSockets has not. *)
LEMMA StepIsStep == [PNext]_pvars => [Next]_vars
  <1> SUFFICES ASSUME [PNext]_pvars PROVE [Next]_vars
    OBVIOUS
  <1>1. CASE UNCHANGED pvars
    BY <1>1 DEF pvars
  <1>2. ASSUME NEW o \in Socks,
               \/ Construct(o) \/ ConstructEmpty(o) \/ Bind(o) \/ BindAddr(o) \/ Connect(o)
               \/ Disconnect(o) \/ Send(o) \/ Unbind(o) \/ Close(o) \/ UseDevice(o)
               \/ UseChannel(o) \/ Listen(o) \/ Accept(o)
        PROVE  Next
    <2>1. CASE Construct(o) \/ ConstructEmpty(o) \/ Bind(o) \/ BindAddr(o)
      BY <2>1 DEF Construct, ConstructEmpty, Bind, BindAddr, Next
    <2>2. CASE Connect(o) \/ Disconnect(o) \/ Send(o) \/ Unbind(o) \/ Close(o)
      BY <2>2 DEF Connect, Disconnect, Send, Unbind, Close, Next
    <2>3. CASE UseDevice(o) \/ Listen(o) \/ Accept(o)
      BY <2>3 DEF UseDevice, Listen, Accept, Next
    <2>4. CASE UseChannel(o)
      BY <2>4, Zenon DEF UseChannel, Next
    <2> QED BY <1>2, <2>1, <2>2, <2>3, <2>4
  <1> QED BY <1>1, <1>2 DEF PNext

-----------------------------------------------------------------------------
(* What the rules guarantee of the entry that a call is about to use. *)
LEMMA DeviceIsValid ==
  ASSUME Disciplined, PInv, NEW o \in Socks, MayCall(o)
  PROVE  /\ Constructed(o) /\ ~Ended(jsock[o].addr)
         /\ jsock[o].addr \in Hosts /\ jsock[o].deviceId = ipInUse[jsock[o].addr]
         /\ jsock[o].deviceId \in DeviceIds
         /\ jsock[o].deviceId < devices_num /\ DeviceValid(jsock[o].deviceId)
  <1>1. Constructed(o) /\ ~Ended(jsock[o].addr)
    BY DEF Disciplined, AllRules, MayCall, Obey
  <1>2. jsock[o].addr \in Hosts /\ jsock[o].deviceId = ipInUse[jsock[o].addr]
    BY <1>1 DEF PInv, IInv, AddressInv, OwnerInv
  <1>3. jsock[o].deviceId \in Nat
    BY DEF PInv, IInv, TypeOK, JavaSocket
  <1>4. jsock[o].deviceId < devices_num
    BY <1>2, <1>3 DEF PInv, IInv, AddressInv, CacheInv, Unset
  <1>5. jsock[o].deviceId \in DeviceIds
    BY <1>3, <1>4, ConstantsAssumption DEF PInv, IInv, TypeOK, DeviceIds
  <1>6. devices[jsock[o].deviceId].state \in {"disabled", "enabled"}
    BY <1>1, <1>2, <1>3 DEF PInv, DeviceUsable, Unset
  <1> QED BY <1>1, <1>2, <1>4, <1>5, <1>6 DEF DeviceValid

LEMMA BoundChannel ==
  ASSUME PInv, NEW o \in Socks, jsock[o].bound
  PROVE  /\ jsock[o].channelId \in ChannelIds /\ jsock[o].channelId < channels_num
         /\ channels[jsock[o].channelId].dev = jsock[o].deviceId
  BY ConstantsAssumption
     DEF PInv, IInv, ChannelsInv, BoundMatchesChannel, TypeOK, JavaSocket, ChannelIds

LEMMA ChannelIsValid ==
  ASSUME Disciplined, PInv, NEW o \in Socks, MayUseChannel(o)
  PROVE  /\ jsock[o].bound /\ bindCall[o] = "bindAddr"
         /\ jsock[o].channelId < channels_num /\ ChannelValid(jsock[o].channelId)
  <1>1. jsock[o].bound /\ bindCall[o] = "bindAddr" /\ MayCall(o)
    BY DEF Disciplined, AllRules, MayUseChannel, Obey
  <1>2. channels[jsock[o].channelId].slot = "handle" /\ channels[jsock[o].channelId].state = "open"
    BY <1>1 DEF PInv, ChannelUsable
  <1> QED BY <1>1, <1>2, BoundChannel, DeviceIsValid DEF ChannelValid, LibChannelValid

LEMMA HandleIsValid ==
  ASSUME Disciplined, PInv, proc = "up", NEW o \in Socks, MayCall(o), linked[o]
  PROVE  /\ jsock[o].sendHandleId < send_handles_num
         /\ HandleValid(jsock[o].sendHandleId)
         /\ jsock[o].connected
  <1>1. /\ jsock[o].bound /\ bindCall[o] = "bindAddr" /\ jsock[o].connected
        /\ send_handles[jsock[o].sendHandleId].state = "connected"
        /\ send_handles[jsock[o].sendHandleId].chan = jsock[o].channelId
    BY DEF PInv, LinkedInv
  <1>2. jsock[o].sendHandleId < send_handles_num
    BY <1>1 DEF PInv, IInv, HandlesInv, HandleInv
  <1>3. MayUseChannel(o)
    BY <1>1 DEF MayUseChannel, Obey
  <1> QED BY <1>1, <1>2, <1>3, ChannelIsValid DEF HandleValid, ChannelValid

LEMMA ListenerIsValid ==
  ASSUME Disciplined, PInv, proc = "up", NEW o \in Socks, MayListen(o)
  PROVE  /\ binder = o /\ ch = jsock[o].channelId
         /\ jsock[o].bound /\ bindCall[o] = "bind" /\ LibChannelValid(ch)
  <1>1. binder = o /\ MayCall(o)
    BY DEF Disciplined, AllRules, MayListen, Obey
  <1>2. /\ jsock[o].bound /\ bindCall[o] = "bind"
        /\ ch = jsock[o].channelId /\ channels[jsock[o].channelId].state = "open"
    BY <1>1 DEF PInv, BinderInv
  <1> QED BY <1>1, <1>2, BoundChannel, DeviceIsValid DEF LibChannelValid

(* So no call crashes. *)
LEMMA NoCrashStep ==
  ASSUME Disciplined, PInv, [PNext]_pvars
  PROVE  NoCrash'
  <1>1. CASE UNCHANGED pvars
    BY <1>1 DEF pvars, vars, PInv, NoCrash
  <1>2. ASSUME NEW o \in Socks, Construct(o) \/ ConstructEmpty(o) PROVE NoCrash'
    BY <1>2 DEF Construct, ConstructEmpty, DBLUDPSocket, DBLUDPSocketEmpty, OpenDevice,
                ReuseDevice, createDeviceC, DBL_Safe, NoCrash
  <1>3. ASSUME NEW o \in Socks, Bind(o) \/ BindAddr(o) PROVE NoCrash'
    BY <1>3, DeviceIsValid DEF Bind, BindAddr, bind, bindAddr, bindC, bindAddrC, DBL_Safe, NoCrash
  <1>4. ASSUME NEW o \in Socks, Connect(o) PROVE NoCrash'
    BY <1>4, ChannelIsValid DEF Connect, connect, sendConnectC, DBL_Safe, NoCrash
  <1>5. ASSUME NEW o \in Socks, Disconnect(o) PROVE NoCrash'
    <2>1. MayCall(o) /\ linked[o]
      BY <1>5 DEF Disconnect, MayUseHandle, Obey, Disciplined, AllRules
    <2> QED BY <1>5, <2>1, HandleIsValid DEF Disconnect, disconnect, Created, sendDisconnectC, Unchecked, NoCrash
  <1>6. ASSUME NEW o \in Socks, Send(o) PROVE NoCrash'
    <2>1. CASE jsock[o].connected
      <3>1. MayCall(o) /\ linked[o]
        BY <1>6, <2>1 DEF Send, MayUseHandle, Obey, Disciplined, AllRules
      <3> QED BY <1>6, <2>1, <3>1, HandleIsValid DEF Send, send, Created, Unchecked, NoCrash
    <2>2. CASE ~jsock[o].connected
      <3>1. ChannelValid(jsock[o].channelId)
        BY <1>6, <2>2, ChannelIsValid DEF Send
      <3>2. PICK len \in 1 .. 2 : len > 1 /\ send(o, len)
        BY <1>6 DEF Send, Obey, Disciplined, AllRules
      <3> QED BY <2>2, <3>1, <3>2 DEF send, ChannelCall, Unchecked, NoCrash
    <2> QED BY <2>1, <2>2
  <1>7. ASSUME NEW o \in Socks, Unbind(o) PROVE NoCrash'
    BY <1>7, ChannelIsValid DEF Unbind, unbind, unbindC, Unchecked, NoCrash
  <1>8. ASSUME NEW o \in Socks, Close(o) PROVE NoCrash'
    BY <1>8, DeviceIsValid DEF Close, close, closeC, Unchecked, NoCrash
  <1>9. ASSUME NEW o \in Socks, UseDevice(o) PROVE NoCrash'
    BY <1>9, DeviceIsValid
       DEF UseDevice, receive, tcpReceiveMsg, deviceEnable, deviceGetAttributes,
           deviceSetAttributes, deviceEnableC, DeviceCall, SafeDeviceCall, Unchecked, DBL_Safe,
           NoCrash
  <1>10. ASSUME NEW o \in Socks, UseChannel(o) PROVE NoCrash'
    <2>1. ChannelValid(jsock[o].channelId)
      BY <1>10, ChannelIsValid DEF UseChannel
    <2>2. CASE \/ joinGroup(o) \/ leaveGroup(o) \/ tcpGetChannelOptions(o)
               \/ tcpSetChannelOptions(o) \/ tcpGetChannelType(o)
      BY <2>1, <2>2 DEF joinGroup, leaveGroup, tcpGetChannelOptions, tcpSetChannelOptions,
                        tcpGetChannelType, ChannelCall, SafeChannelCall, Unchecked, DBL_Safe, NoCrash
    <2>3. ASSUME NEW via \in Socks, MayUseChannel(via), tcpSend(o, via) \/ tcpReceive(o, via)
          PROVE  NoCrash'
      BY <2>3, ChannelIsValid DEF tcpSend, tcpReceive, ChannelCall, SafeChannelCall, Unchecked,
                                  DBL_Safe, NoCrash
    <2>4. ASSUME NEW sockets \in SUBSET Socks, \A s \in sockets : MayUseChannel(s),
                 tcpPoll(o, sockets)
          PROVE  NoCrash'
      BY <2>4, ChannelIsValid DEF tcpPoll, Unchecked, NoCrash
    <2> QED BY <1>10, <2>2, <2>3, <2>4 DEF UseChannel
  <1>11. ASSUME NEW o \in Socks, Listen(o) \/ Accept(o) PROVE NoCrash'
    BY <1>11, ListenerIsValid DEF Listen, Accept, tcpListen, tcpAccept, tcpListenC, tcpAcceptC,
                                  Created, Unchecked, DBL_Safe, NoCrash
  <1> QED BY <1>1, <1>2, <1>3, <1>4, <1>5, <1>6, <1>7, <1>8, <1>9, <1>10, <1>11 DEF PNext

-----------------------------------------------------------------------------
LEMMA HistoryStep ==
  ASSUME HistoryTypeOK, [PNext]_pvars
  PROVE  HistoryTypeOK'
  <1>1. CASE UNCHANGED pvars
    BY <1>1 DEF pvars, history, HistoryTypeOK
  <1>2. ASSUME NEW o \in Socks, Bind(o) \/ BindAddr(o) PROVE HistoryTypeOK'
    BY <1>2 DEF Bind, BindAddr, Binds, HistoryTypeOK
  <1>3. ASSUME NEW o \in Socks, Connect(o) \/ Disconnect(o) \/ Listen(o) PROVE HistoryTypeOK'
    BY <1>3 DEF Connect, Disconnect, Listen, HistoryTypeOK
  <1>4. ASSUME NEW o \in Socks,
               \/ Construct(o) \/ ConstructEmpty(o) \/ Send(o) \/ Unbind(o) \/ Close(o)
               \/ UseDevice(o) \/ UseChannel(o) \/ Accept(o)
        PROVE  UNCHANGED history
    BY <1>4 DEF Construct, ConstructEmpty, Send, Unbind, Close, UseDevice, UseChannel, Accept
  <1>5. ASSUME UNCHANGED history PROVE HistoryTypeOK'
    BY <1>5 DEF history, HistoryTypeOK
  <1> QED BY <1>1, <1>2, <1>3, <1>4, <1>5 DEF PNext

(* The calls that change a device, a channel or a handle that exists. *)
Quiet(o) == LookUp(o) /\ UNCHANGED history

LEMMA PNextSplits ==
  ASSUME PNext
  PROVE  \E o \in Socks :
           \/ Construct(o) \/ ConstructEmpty(o) \/ Bind(o) \/ BindAddr(o)
           \/ Connect(o) \/ Disconnect(o) \/ Unbind(o) \/ Close(o)
           \/ MayCall(o) /\ deviceEnable(o) /\ UNCHANGED history
           \/ Listen(o) \/ Accept(o) \/ Quiet(o)
  <1>1. ASSUME NEW o \in Socks, Send(o) PROVE Quiet(o)
    BY <1>1, Zenon DEF Send, Quiet, LookUp
  <1>2. ASSUME NEW o \in Socks, UseDevice(o)
        PROVE  Quiet(o) \/ (MayCall(o) /\ deviceEnable(o) /\ UNCHANGED history)
    BY <1>2, Zenon DEF UseDevice, Quiet, LookUp
  <1>3. ASSUME NEW o \in Socks, UseChannel(o) PROVE Quiet(o)
    BY <1>3, Zenon DEF UseChannel, Quiet, LookUp
  <1> QED BY <1>1, <1>2, <1>3 DEF PNext

(* A socket's fields after a step, as far as the invariant needs them. *)
SameSocket(q) ==
  /\ Constructed(q)' <=> Constructed(q)
  /\ jsock'[q].addr = jsock[q].addr
  /\ jsock'[q].deviceId = jsock[q].deviceId
  /\ jsock'[q].channelId = jsock[q].channelId
  /\ jsock'[q].bound = jsock[q].bound

LEMMA CallSockets ==
  ASSUME TypeOK, NEW o \in Socks, NEW q \in Socks,
         \/ connect(o) \/ disconnect(o) \/ close(o) \/ deviceEnable(o) \/ tcpListen(o)
         \/ LookUp(o)
  PROVE  /\ SameSocket(q)
         /\ jsock[q].closed => jsock'[q].closed
         /\ jsock[q].connected => jsock'[q].connected
         /\ ~connect(o) \/ q # o => jsock'[q].sendHandleId = jsock[q].sendHandleId
  <1>1. jsock[q] \in JavaSocket
    BY DEF TypeOK
  <1>2. \/ jsock'[q] = jsock[q]
        \/ connect(o) /\ q = o
           /\ jsock'[q] = [jsock[q] EXCEPT !.sendHandleId = send_handles_num' - 1,
                                      !.connected = TRUE]
        \/ jsock'[q] = [jsock[q] EXCEPT !.closed = TRUE]
    BY SetsOne, LookUpChangesNothing DEF connect, disconnect, close, deviceEnable, tcpListen
  <1> QED BY <1>1, <1>2 DEF JavaSocket, SameSocket, Constructed

LEMMA UnbindSockets ==
  ASSUME TypeOK, NEW o \in Socks, NEW q \in Socks, unbind(o)
  PROVE  /\ Constructed(q)' <=> Constructed(q)
         /\ jsock'[q].addr = jsock[q].addr /\ jsock'[q].deviceId = jsock[q].deviceId
         /\ jsock'[q].channelId = jsock[q].channelId
         /\ jsock'[q].closed = jsock[q].closed
         /\ jsock'[q].connected = jsock[q].connected
         /\ jsock'[q].sendHandleId = jsock[q].sendHandleId
         /\ q # o \/ ~Up => jsock'[q] = jsock[q]
         /\ q = o /\ Up => ~jsock'[q].bound
  <1>1. jsock[q] \in JavaSocket
    BY DEF TypeOK
  <1>2. jsock'[q] = IF Up /\ q = o THEN [jsock[q] EXCEPT !.bound = FALSE] ELSE jsock[q]
    BY SetsOne DEF unbind
  <1> QED BY <1>1, <1>2 DEF JavaSocket, Constructed

LEMMA BindSockets ==
  ASSUME TypeOK, TypeOK', NEW o \in Socks, NEW q \in Socks, NEW p \in Ports,
         bind(o, p) \/ bindAddr(o, p)
  PROVE  /\ Constructed(q)' <=> Constructed(q)
         /\ jsock'[q].addr = jsock[q].addr /\ jsock'[q].deviceId = jsock[q].deviceId
         /\ jsock'[q].closed = jsock[q].closed
         /\ jsock'[q].connected = jsock[q].connected
         /\ jsock'[q].sendHandleId = jsock[q].sendHandleId
         /\ ~Up \/ q # o => jsock'[q] = jsock[q]
         /\ Up /\ q = o => jsock'[q].bound /\ jsock'[q].channelId = channels_num
  <1>1. jsock[q] \in JavaSocket
    BY DEF TypeOK
  <1>2. jsock'[q] = IF Up /\ q = o
                    THEN [jsock[q] EXCEPT !.channelId = channels_num' - 1, !.port = p, !.bound = TRUE]
                    ELSE jsock[q]
    BY SetsOne DEF bind, bindAddr
  <1>3. Up => channels_num' - 1 = channels_num
    <2>1. Up => channels_num' = channels_num + 1
      BY DEF bind, bindAddr, bindC, bindAddrC, NewChannel
    <2> QED BY <2>1 DEF TypeOK
  <1> QED BY <1>1, <1>2, <1>3 DEF JavaSocket, Constructed

LEMMA NewSockets ==
  ASSUME TypeOK, NEW o \in Socks, NEW q \in Socks,
         \/ Construct(o) \/ ConstructEmpty(o)
  PROVE  /\ jsock'[q] # jsock[q] => ~Constructed(q) /\ ~jsock'[q].bound
         /\ Up /\ Constructed(o)' => ~jsock'[o].closed
  <1>1. CASE ConstructEmpty(o)
    BY <1>1 DEF ConstructEmpty, DBLUDPSocketEmpty, Constructed, NewObject, TypeOK
  <1>2. ASSUME NEW h \in Hosts, NEW f \in OpenFlags, DBLUDPSocket(o, h, f)
        PROVE  /\ jsock'[q] # jsock[q] => ~Constructed(q) /\ ~jsock'[q].bound
               /\ Up /\ Constructed(o)' => ~jsock'[o].closed
    <2>1. \E d \in {devices_num' - 1, ipInUse[h]} :
            \/ Sets(o, [NewSocket(h) EXCEPT !.deviceId = d, !.openFlag = f])
            \/ Sets(o, [NewSocket(h) EXCEPT !.deviceId = d])
      BY <1>2 DEF DBLUDPSocket, OpenDevice, ReuseDevice
    <2>2. \A r \in Socks : \E d \in {devices_num' - 1, ipInUse[h]} :
            \/ jsock'[r] = IF Up /\ r = o THEN [NewSocket(h) EXCEPT !.deviceId = d, !.openFlag = f]
                                         ELSE jsock[r]
            \/ jsock'[r] = IF Up /\ r = o THEN [NewSocket(h) EXCEPT !.deviceId = d] ELSE jsock[r]
      BY <2>1, SetsOne
    <2>3. jsock[o].origin = "none"
      BY <1>2 DEF DBLUDPSocket
    <2> QED BY <2>2, <2>3 DEF NewSocket, NewObject, Constructed
  <1> QED BY <1>1, <1>2 DEF Construct

LEMMA AcceptSockets ==
  ASSUME TypeOK, NEW o \in Socks, NEW q \in Socks, Accept(o)
  PROVE  jsock'[q] # jsock[q] =>
           /\ ~Constructed(q) /\ ~Constructed(q)' /\ ~jsock'[q].bound
  <1>1. ASSUME NEW new \in Socks, NEW ok \in BOOLEAN, NEW p \in Ports, tcpAccept(o, new, ok, p)
        PROVE  jsock'[q] # jsock[q] =>
                 /\ ~Constructed(q) /\ ~Constructed(q)' /\ ~jsock'[q].bound
    <2>1. jsock'[q] = IF Up /\ q = new
                      THEN [NewObject EXCEPT !.origin = "accept", !.port = p,
                                             !.channelId = channels_num' - 1]
                      ELSE jsock[q]
      BY <1>1, SetsOne DEF tcpAccept
    <2> QED BY <1>1, <2>1 DEF tcpAccept, NewObject, Constructed
  <1> QED BY <1>1 DEF Accept

(* An address whose device was closed stays ended. *)
LEMMA EndedStays ==
  ASSUME TypeOK, TypeOK', [PNext]_pvars
  PROVE  \A h \in Hosts : Ended(h) => Ended(h)'
  <1>1. SUFFICES ASSUME NEW q \in Socks, Constructed(q), jsock[q].closed
                 PROVE  Constructed(q)' /\ jsock'[q].addr = jsock[q].addr /\ jsock'[q].closed
    BY DEF Ended
  <1>2. CASE UNCHANGED pvars
    BY <1>1, <1>2 DEF pvars, vars, Constructed
  <1>3. ASSUME NEW o \in Socks, Construct(o) \/ ConstructEmpty(o)
        PROVE  Constructed(q)' /\ jsock'[q].addr = jsock[q].addr /\ jsock'[q].closed
    BY <1>1, <1>3, NewSockets DEF Constructed
  <1>4. ASSUME NEW o \in Socks, Bind(o) \/ BindAddr(o)
        PROVE  Constructed(q)' /\ jsock'[q].addr = jsock[q].addr /\ jsock'[q].closed
    BY <1>1, <1>4, BindSockets DEF Bind, BindAddr
  <1>5. ASSUME NEW o \in Socks, unbind(o)
        PROVE  Constructed(q)' /\ jsock'[q].addr = jsock[q].addr /\ jsock'[q].closed
    BY <1>1, <1>5, UnbindSockets
  <1>6. ASSUME NEW o \in Socks, Accept(o)
        PROVE  Constructed(q)' /\ jsock'[q].addr = jsock[q].addr /\ jsock'[q].closed
    BY <1>1, <1>6, AcceptSockets DEF Constructed
  <1>7. ASSUME NEW o \in Socks,
               \/ connect(o) \/ disconnect(o) \/ close(o) \/ deviceEnable(o) \/ tcpListen(o)
               \/ LookUp(o)
        PROVE  Constructed(q)' /\ jsock'[q].addr = jsock[q].addr /\ jsock'[q].closed
    BY <1>1, <1>7, CallSockets DEF SameSocket
  <1> QED BY <1>2, <1>3, <1>4, <1>5, <1>6, <1>7, PNextSplits
          DEF Connect, Disconnect, Unbind, Close, Listen, Quiet

LEMMA DeviceStep ==
  ASSUME Disciplined, PInv, TypeOK', [PNext]_pvars
  PROVE  DeviceUsable'
  <1> USE ConstantsAssumption
  <1>0. TypeOK /\ DeviceUsable
    BY DEF PInv, IInv
  <1>1. ASSUME UNCHANGED ipInUse,
               \A d \in DeviceIds : devices[d].state \in {"disabled", "enabled"}
                 => devices'[d].state \in {"disabled", "enabled"}
        PROVE  DeviceUsable'
    BY <1>0, <1>1, EndedStays DEF DeviceUsable, TypeOK
  <1>2. CASE UNCHANGED pvars
    BY <1>1, <1>2 DEF pvars, vars, cvars
  <1>3. ASSUME NEW o \in Socks, Construct(o) \/ ConstructEmpty(o) PROVE DeviceUsable'
    <2>1. CASE UNCHANGED <<devices, ipInUse>>
      BY <1>1, <2>1
    <2>2. ASSUME NEW h \in Hosts, NEW f \in OpenFlags, Up, OpenDevice(o, h, f)
          PROVE  DeviceUsable'
      <3>1. /\ devices_num < MaxDevices
            /\ devices' = [devices EXCEPT ![devices_num] =
                             [state |-> OpenState(f), host |-> h, flag |-> f]]
            /\ devices_num' = devices_num + 1
            /\ ipInUse' = [ipInUse EXCEPT ![h] = devices_num' - 1]
        BY <2>2 DEF OpenDevice, createDeviceC
      <3>2. devices_num \in DeviceIds /\ devices_num' - 1 = devices_num
        BY <1>0, <3>1 DEF TypeOK, DeviceIds
      <3>3. devices'[devices_num].state \in {"disabled", "enabled"}
        BY <1>0, <3>1, <3>2 DEF OpenState, TypeOK
      <3>4. \A g \in Hosts : g # h /\ ipInUse[g] # Unset =>
              /\ ipInUse'[g] = ipInUse[g] /\ devices'[ipInUse[g]] = devices[ipInUse[g]]
        BY <1>0, <3>1 DEF PInv, IInv, AddressInv, CacheInv, TypeOK
      <3>5. \A g \in Hosts : g # h => ipInUse'[g] = ipInUse[g]
        BY <1>0, <3>1 DEF TypeOK
      <3>6. ipInUse'[h] = devices_num
        BY <1>0, <3>1, <3>2 DEF TypeOK
      <3> QED BY <1>0, <3>3, <3>4, <3>5, <3>6, EndedStays DEF DeviceUsable
    <2>3. ConstructEmpty(o) => UNCHANGED <<devices, ipInUse>>
      BY DEF ConstructEmpty, DBLUDPSocketEmpty, cvars
    <2>4. ASSUME NEW h \in Hosts, NEW f \in OpenFlags, DBLUDPSocket(o, h, f)
          PROVE  UNCHANGED <<devices, ipInUse>> \/ (Up /\ OpenDevice(o, h, f))
      BY <2>4 DEF DBLUDPSocket, OpenDevice, ReuseDevice, createDeviceC, cvars
    <2> QED BY <1>3, <2>1, <2>2, <2>3, <2>4 DEF Construct
  <1>4. ASSUME NEW o \in Socks, Close(o) PROVE DeviceUsable'
    <2>1. CASE UNCHANGED devices
      BY <1>1, <1>4, <2>1 DEF Close, close
    <2>2. CASE Up /\ CloseDevice(jsock[o].deviceId)
      <3>1. /\ Constructed(o) /\ jsock[o].addr \in Hosts
            /\ jsock[o].deviceId = ipInUse[jsock[o].addr] /\ jsock[o].deviceId \in DeviceIds
        BY <1>4, DeviceIsValid DEF Close
      <3>2. \A h \in Hosts : h = jsock[o].addr => Ended(h)'
        <4>1. jsock' = [jsock EXCEPT ![o] = [jsock[o] EXCEPT !.closed = TRUE]]
          BY <1>4, <2>2 DEF Close, close, Sets
        <4>2. jsock[o] \in JavaSocket
          BY <1>0 DEF TypeOK
        <4>3. jsock'[o] = [jsock[o] EXCEPT !.closed = TRUE]
          BY <1>0, <4>1 DEF TypeOK
        <4>4. jsock'[o].closed /\ jsock'[o].origin = "constructor" /\ jsock'[o].addr = jsock[o].addr
          BY <3>1, <4>2, <4>3 DEF JavaSocket, Constructed
        <4> QED BY <4>4 DEF Ended, Constructed
      <3>3. UNCHANGED ipInUse
        BY <1>4 DEF Close, close
      <3>4. \A d \in DeviceIds : d # jsock[o].deviceId => devices'[d] = devices[d]
        BY <1>0, <2>2 DEF CloseDevice, TypeOK
      <3>5. \A h \in Hosts : ipInUse[h] # Unset /\ h # jsock[o].addr
              => ipInUse[h] \in DeviceIds /\ ipInUse[h] # jsock[o].deviceId
        BY <1>0, <3>1 DEF PInv, IInv, AddressInv, CacheInv, TypeOK, DeviceIds, Unset
      <3>6. SUFFICES ASSUME NEW h \in Hosts, ipInUse[h] # Unset, ~Ended(h)'
                     PROVE  devices'[ipInUse[h]].state \in {"disabled", "enabled"}
        BY <3>3 DEF DeviceUsable
      <3>7. h # jsock[o].addr /\ ~Ended(h)
        <4>1. h # jsock[o].addr
          BY <3>2, <3>6 DEF Ended
        <4> QED BY <1>0, <3>6, <4>1, EndedStays
      <3> QED BY <1>0, <3>4, <3>5, <3>6, <3>7 DEF DeviceUsable
    <2> QED BY <1>4, <2>1, <2>2 DEF Close, close, closeC
  <1>5. ASSUME NEW o \in Socks, deviceEnable(o) PROVE DeviceUsable'
    BY <1>0, <1>1, <1>5 DEF deviceEnable, deviceEnableC, TypeOK, Device
  <1>6. ASSUME NEW o \in Socks,
               \/ Bind(o) \/ BindAddr(o) \/ Connect(o) \/ Disconnect(o) \/ Unbind(o)
               \/ Listen(o) \/ Accept(o) \/ Quiet(o)
        PROVE  DeviceUsable'
    BY <1>1, <1>6, LookUpChangesNothing
       DEF Bind, BindAddr, Connect, Disconnect, Unbind, Listen, Accept, Quiet, bind, bindAddr,
           connect, disconnect, unbind, tcpListen, tcpAccept, bindC, bindAddrC, sendConnectC,
           sendDisconnectC, unbindC, tcpListenC, tcpAcceptC, cvars
  <1> QED BY <1>2, <1>3, <1>4, <1>5, <1>6, PNextSplits

LEMMA BoundStep ==
  ASSUME Disciplined, PInv, TypeOK', [PNext]_pvars
  PROVE  BoundIsConstructed'
  <1>0. TypeOK /\ BoundIsConstructed
    BY DEF PInv, IInv
  <1>1. SUFFICES ASSUME NEW q \in Socks, jsock'[q].bound PROVE Constructed(q)'
    BY DEF BoundIsConstructed
  <1>2. CASE UNCHANGED pvars
    BY <1>0, <1>1, <1>2 DEF pvars, vars, Constructed, BoundIsConstructed
  <1>3. ASSUME NEW o \in Socks, Construct(o) \/ ConstructEmpty(o) \/ Accept(o)
        PROVE  Constructed(q)'
    BY <1>0, <1>1, <1>3, NewSockets, AcceptSockets DEF BoundIsConstructed, Constructed
  <1>4. ASSUME NEW o \in Socks, Bind(o) \/ BindAddr(o) PROVE Constructed(q)'
    <2>1. Constructed(o)
      BY <1>4, DeviceIsValid DEF Bind, BindAddr
    <2>2. Constructed(q)
      BY <1>0, <1>1, <1>4, <2>1, BindSockets DEF Bind, BindAddr, BoundIsConstructed
    <2> QED BY <1>0, <1>4, <2>2, BindSockets DEF Bind, BindAddr
  <1>5. ASSUME NEW o \in Socks, unbind(o) PROVE Constructed(q)'
    <2>1. jsock'[q] = jsock[q] \/ jsock'[q] = [jsock[q] EXCEPT !.bound = FALSE]
      BY <1>0, <1>5, SetsOne DEF unbind
    <2>2. jsock[q] \in JavaSocket
      BY <1>0 DEF TypeOK
    <2> QED BY <1>0, <1>1, <2>1, <2>2 DEF JavaSocket, BoundIsConstructed, Constructed
  <1>6. ASSUME NEW o \in Socks,
               \/ connect(o) \/ disconnect(o) \/ close(o) \/ deviceEnable(o) \/ tcpListen(o)
               \/ LookUp(o)
        PROVE  Constructed(q)'
    BY <1>0, <1>1, <1>6, CallSockets DEF SameSocket, BoundIsConstructed
  <1> QED BY <1>2, <1>3, <1>4, <1>5, <1>6, PNextSplits
          DEF Connect, Disconnect, Unbind, Close, Listen, Quiet

-----------------------------------------------------------------------------
(* What a step does to the entries that exist already. *)
LEMMA OldChannels ==
  ASSUME TypeOK, NEW o \in Socks, NEW c \in ChannelIds, c < channels_num,
         \/ Construct(o) \/ ConstructEmpty(o) \/ Bind(o) \/ BindAddr(o) \/ Connect(o)
         \/ Disconnect(o) \/ Close(o) \/ deviceEnable(o) \/ Accept(o) \/ Quiet(o)
  PROVE  channels'[c] = channels[c]
  <1>1. CASE Bind(o) \/ BindAddr(o) \/ Accept(o)
    <2>1. \/ UNCHANGED channels
          \/ \E entry : channels' = [channels EXCEPT ![channels_num] = entry]
      BY <1>1 DEF Bind, BindAddr, Accept, bind, bindAddr, tcpAccept, bindC, bindAddrC, tcpAcceptC,
                  NewChannel
    <2> QED BY <2>1, ConstantsAssumption DEF TypeOK, ChannelIds
  <1>2. CASE Construct(o) \/ ConstructEmpty(o) \/ Connect(o) \/ Disconnect(o)
    BY <1>2 DEF Construct, ConstructEmpty, Connect, Disconnect, DBLUDPSocket, DBLUDPSocketEmpty,
                OpenDevice, ReuseDevice, createDeviceC, connect, sendConnectC, disconnect,
                sendDisconnectC, cvars
  <1>3. CASE Close(o) \/ deviceEnable(o) \/ Quiet(o)
    BY <1>3, LookUpChangesNothing
       DEF Close, close, closeC, deviceEnable, deviceEnableC, Quiet, cvars
  <1> QED BY <1>1, <1>2, <1>3

LEMMA ListenedChannels ==
  ASSUME TypeOK, NEW o \in Socks, NEW c \in ChannelIds, Listen(o)
  PROVE  /\ channels'[c].slot = channels[c].slot /\ channels'[c].state = channels[c].state
         /\ channels[c].listening => channels'[c].listening
         /\ Up => channels'[c].listening \/ c # ch
  <1>1. channels[c] \in Channel
    BY DEF TypeOK
  <1>2. channels'[c] = IF Up /\ c = ch THEN [channels[c] EXCEPT !.listening = TRUE] ELSE channels[c]
    BY DEF Listen, tcpListen, tcpListenC, TypeOK
  <1> QED BY <1>1, <1>2 DEF Channel

LEMMA UnboundChannels ==
  ASSUME TypeOK, NEW o \in Socks, NEW c \in ChannelIds, Unbind(o)
  PROVE  c # jsock[o].channelId \/ ~Up => channels'[c] = channels[c]
  BY DEF Unbind, unbind, unbindC, TypeOK

LEMMA OldHandles ==
  ASSUME TypeOK, NEW o \in Socks, NEW s \in HandleIds, s < send_handles_num,
         \/ Construct(o) \/ ConstructEmpty(o) \/ Bind(o) \/ BindAddr(o) \/ Connect(o)
         \/ Unbind(o) \/ Close(o) \/ deviceEnable(o) \/ Listen(o) \/ Accept(o) \/ Quiet(o)
  PROVE  send_handles'[s] = send_handles[s]
  <1>1. CASE Connect(o)
    <2>1. \/ UNCHANGED send_handles
          \/ \E entry : send_handles' = [send_handles EXCEPT ![send_handles_num] = entry]
      BY <1>1 DEF Connect, connect, sendConnectC, NewHandle
    <2> QED BY <2>1, ConstantsAssumption DEF TypeOK, HandleIds
  <1>2. CASE Construct(o) \/ ConstructEmpty(o) \/ Bind(o) \/ BindAddr(o)
    BY <1>2 DEF Construct, ConstructEmpty, Bind, BindAddr, DBLUDPSocket, DBLUDPSocketEmpty,
                OpenDevice, ReuseDevice, createDeviceC, bind, bindAddr, bindC, bindAddrC, cvars
  <1>3. CASE Unbind(o) \/ Close(o) \/ deviceEnable(o) \/ Listen(o) \/ Accept(o) \/ Quiet(o)
    BY <1>3, LookUpChangesNothing
       DEF Unbind, Close, Listen, Accept, Quiet, unbind, unbindC, close, closeC, deviceEnable,
           deviceEnableC, tcpListen, tcpListenC, tcpAccept, tcpAcceptC, cvars
  <1> QED BY <1>1, <1>2, <1>3

LEMMA DisconnectedHandles ==
  ASSUME TypeOK, NEW o \in Socks, NEW s \in HandleIds, Disconnect(o), s # jsock[o].sendHandleId
  PROVE  send_handles'[s] = send_handles[s]
  BY DEF Disconnect, disconnect, sendDisconnectC, TypeOK

LEMMA ChannelStep ==
  ASSUME Disciplined, PInv, TypeOK', [PNext]_pvars
  PROVE  ChannelUsable'
  <1>0. TypeOK /\ ChannelUsable /\ HistoryTypeOK
    BY DEF PInv, IInv
  <1>1. SUFFICES ASSUME NEW q \in Socks, jsock'[q].bound, bindCall'[q] = "bindAddr"
                 PROVE  /\ channels'[jsock'[q].channelId].slot = "handle"
                        /\ channels'[jsock'[q].channelId].state = "open"
    BY DEF ChannelUsable
  <1> DEFINE Kept ==
        /\ jsock[q].bound /\ bindCall[q] = "bindAddr" /\ jsock'[q].channelId = jsock[q].channelId
        /\ channels'[jsock[q].channelId].slot = channels[jsock[q].channelId].slot
        /\ channels'[jsock[q].channelId].state = channels[jsock[q].channelId].state
      Good ==
        /\ channels'[jsock'[q].channelId].slot = "handle"
        /\ channels'[jsock'[q].channelId].state = "open"
  <1>2. Kept => Good
    BY <1>0 DEF ChannelUsable
  <1>3. CASE UNCHANGED pvars
    BY <1>1, <1>2, <1>3 DEF pvars, vars, cvars, history
  <1>4. ASSUME NEW o \in Socks, Construct(o) \/ ConstructEmpty(o) \/ Accept(o) PROVE Good
    <2>1. jsock'[q] = jsock[q]
      BY <1>0, <1>1, <1>4, NewSockets, AcceptSockets
    <2>2. bindCall' = bindCall
      BY <1>4 DEF Construct, ConstructEmpty, Accept, history
    <2> QED BY <1>0, <1>1, <1>2, <1>4, <2>1, <2>2, BoundChannel, OldChannels
  <1>5. ASSUME NEW o \in Socks, Bind(o) \/ BindAddr(o) PROVE Good
    <2>1. PICK p \in Ports : bind(o, p) \/ bindAddr(o, p)
      BY <1>5 DEF Bind, BindAddr
    <2>2. CASE q # o
      <3>1. jsock'[q] = jsock[q] /\ bindCall'[q] = bindCall[q]
        BY <1>0, <1>5, <2>1, <2>2, BindSockets DEF Bind, BindAddr, Binds, HistoryTypeOK
      <3> QED BY <1>0, <1>1, <1>2, <1>5, <3>1, BoundChannel, OldChannels
    <2>3. CASE q = o
      <3>1. Up
        BY <1>0, <1>1, <2>1, <2>3, BindSockets DEF bind, bindAddr
      <3>2. BindAddr(o)
        BY <1>0, <1>1, <1>5, <2>3 DEF Bind, Binds, HistoryTypeOK
      <3>3. PICK r \in Ports : bindAddr(o, r)
        BY <3>2 DEF BindAddr
      <3>4. jsock'[q].channelId = channels_num
        BY <1>0, <2>3, <3>1, <3>3, BindSockets
      <3>5. NewChannel("handle", "open", jsock[o].deviceId, r) /\ channels_num < MaxChannels
        BY <3>1, <3>3 DEF bindAddr, bindAddrC
      <3> QED BY <1>0, <3>4, <3>5, ConstantsAssumption DEF NewChannel, TypeOK, ChannelIds
    <2> QED BY <2>2, <2>3
  <1>6. ASSUME NEW o \in Socks, Unbind(o) PROVE Good
    <2>1. bindCall' = bindCall
      BY <1>6 DEF Unbind, history
    <2>2. unbind(o) /\ jsock[o].bound
      BY <1>6, ChannelIsValid DEF Unbind
    <2>3. jsock[q].bound /\ jsock'[q].channelId = jsock[q].channelId
      BY <1>0, <1>1, <2>2, UnbindSockets
    <2>4. jsock[q].channelId # jsock[o].channelId \/ ~Up
      BY <1>0, <1>1, <2>2, UnbindSockets
         DEF PInv, IInv, ChannelsInv, ChannelsAreNotShared, HasChannel
    <2> QED BY <1>0, <1>1, <1>2, <1>6, <2>1, <2>3, <2>4, BoundChannel, UnboundChannels
  <1>7. ASSUME NEW o \in Socks,
               \/ Connect(o) \/ Disconnect(o) \/ Close(o)
               \/ deviceEnable(o) /\ UNCHANGED history
               \/ Listen(o) \/ Quiet(o)
        PROVE  Good
    <2>1. SameSocket(q)
      BY <1>0, <1>7, CallSockets DEF Connect, Disconnect, Close, Listen, Quiet
    <2>2. bindCall' = bindCall
      BY <1>7 DEF Connect, Disconnect, Close, Listen, Quiet, history
    <2>3. jsock[q].bound /\ jsock'[q].channelId = jsock[q].channelId
      BY <1>1, <2>1 DEF SameSocket
    <2> QED BY <1>0, <1>1, <1>2, <1>7, <2>2, <2>3, BoundChannel, OldChannels, ListenedChannels
  <1> QED BY <1>3, <1>4, <1>5, <1>6, <1>7, PNextSplits

(* A dead process takes no step. *)
LEMMA UpBefore ==
  ASSUME [PNext]_pvars, Up
  PROVE  proc = "up"
  <1>1. CASE UNCHANGED pvars
    BY <1>1 DEF pvars, vars, Up
  <1>2. ASSUME NEW o \in Socks,
               \/ Construct(o) \/ ConstructEmpty(o) \/ Bind(o) \/ BindAddr(o)
               \/ Connect(o) \/ Disconnect(o) \/ Unbind(o) \/ Close(o)
               \/ deviceEnable(o) \/ Listen(o) \/ Accept(o)
        PROVE  proc = "up"
    BY <1>2 DEF Construct, ConstructEmpty, Bind, BindAddr, Connect, Disconnect, Unbind, Close,
                Listen, Accept, DBLUDPSocket, DBLUDPSocketEmpty, bind, bindAddr, connect,
                disconnect, unbind, close, deviceEnable, tcpListen, tcpAccept, Created
  <1>3. ASSUME NEW o \in Socks, Quiet(o) PROVE proc = "up"
    BY <1>3 DEF Quiet, LookUp, send, receive, joinGroup, leaveGroup, deviceGetAttributes,
                deviceSetAttributes, tcpSend, tcpReceive, tcpReceiveMsg, tcpPoll,
                tcpGetChannelOptions, tcpSetChannelOptions, tcpGetChannelType, Created
  <1> QED BY <1>1, <1>2, <1>3, PNextSplits

LEMMA LinkedStep ==
  ASSUME Disciplined, PInv, TypeOK', [PNext]_pvars
  PROVE  LinkedInv'
  <1>0. TypeOK /\ LinkedInv /\ HistoryTypeOK
    BY DEF PInv, IInv
  <1>1. SUFFICES ASSUME Up, proc = "up", NEW q \in Socks, linked'[q]
                 PROVE  /\ jsock'[q].bound /\ bindCall'[q] = "bindAddr" /\ jsock'[q].connected
                        /\ send_handles'[jsock'[q].sendHandleId].state = "connected"
                        /\ send_handles'[jsock'[q].sendHandleId].chan = jsock'[q].channelId
    BY UpBefore DEF LinkedInv, Up
  <1> DEFINE Good ==
        /\ jsock'[q].bound /\ bindCall'[q] = "bindAddr" /\ jsock'[q].connected
        /\ send_handles'[jsock'[q].sendHandleId].state = "connected"
        /\ send_handles'[jsock'[q].sendHandleId].chan = jsock'[q].channelId
      Same ==
        /\ linked[q] /\ bindCall'[q] = bindCall[q]
        /\ jsock[q].bound => jsock'[q].bound
        /\ jsock[q].connected => jsock'[q].connected
        /\ jsock'[q].channelId = jsock[q].channelId
        /\ jsock'[q].sendHandleId = jsock[q].sendHandleId
        /\ send_handles'[jsock[q].sendHandleId] = send_handles[jsock[q].sendHandleId]
  <1>2. Same => Good
    BY <1>0, <1>1 DEF LinkedInv
  <1>3. linked[q] => /\ jsock[q].bound /\ jsock[q].connected /\ Constructed(q)
                     /\ jsock[q].sendHandleId \in HandleIds
                     /\ jsock[q].sendHandleId < send_handles_num
    BY <1>0, <1>1, ConstantsAssumption
       DEF LinkedInv, PInv, IInv, BoundIsConstructed, HandlesInv, HandleInv, TypeOK, JavaSocket,
           HandleIds
  <1>4. CASE UNCHANGED pvars
    BY <1>1, <1>2, <1>4 DEF pvars, vars, cvars, history
  <1>5. ASSUME NEW o \in Socks, Construct(o) \/ ConstructEmpty(o) \/ Accept(o) PROVE Good
    <2>1. linked' = linked /\ bindCall' = bindCall
      BY <1>5 DEF Construct, ConstructEmpty, Accept, history
    <2>2. jsock'[q] = jsock[q]
      BY <1>0, <1>1, <1>3, <1>5, <2>1, NewSockets, AcceptSockets
    <2> QED BY <1>0, <1>1, <1>2, <1>3, <1>5, <2>1, <2>2, OldHandles
  <1>6. ASSUME NEW o \in Socks, Bind(o) \/ BindAddr(o) PROVE Good
    <2>1. PICK p \in Ports : bind(o, p) \/ bindAddr(o, p)
      BY <1>6 DEF Bind, BindAddr
    <2>2. linked' = linked
      BY <1>6 DEF Bind, BindAddr, Binds
    <2>3. q # o
      BY <1>1, <1>3, <2>1, <2>2 DEF bind, bindAddr
    <2>4. jsock'[q] = jsock[q] /\ bindCall'[q] = bindCall[q]
      BY <1>0, <1>6, <2>1, <2>3, BindSockets DEF Bind, BindAddr, Binds, HistoryTypeOK
    <2> QED BY <1>0, <1>1, <1>2, <1>3, <1>6, <2>2, <2>4, OldHandles
  <1>7. ASSUME NEW o \in Socks, Connect(o) PROVE Good
    <2>1. connect(o) /\ bindCall' = bindCall /\ jsock[o].bound /\ bindCall[o] = "bindAddr"
      BY <1>7, ChannelIsValid DEF Connect
    <2>2. CASE q = o
      <3>1. NewHandle(jsock[o].channelId) /\ send_handles_num < MaxHandles
        BY <1>1, <2>1 DEF connect, sendConnectC
      <3>2. jsock'[o] = [jsock[o] EXCEPT !.sendHandleId = send_handles_num' - 1, !.connected = TRUE]
        BY <1>0, <1>1, <2>1, SetsOne DEF connect
      <3>3. /\ jsock'[o].sendHandleId = send_handles_num
            /\ jsock'[o].bound = jsock[o].bound /\ jsock'[o].connected
            /\ jsock'[o].channelId = jsock[o].channelId
        BY <1>0, <3>1, <3>2 DEF NewHandle, TypeOK, JavaSocket
      <3>4. send_handles'[send_handles_num] = [state |-> "connected", chan |-> jsock[o].channelId]
        BY <1>0, <3>1, ConstantsAssumption DEF NewHandle, TypeOK, HandleIds
      <3> QED BY <2>1, <2>2, <3>3, <3>4
    <2>3. CASE q # o
      <3>1. linked[q]
        BY <1>0, <1>1, <1>7, <2>3 DEF Connect, HistoryTypeOK
      <3>2. /\ SameSocket(q)
            /\ jsock[q].connected => jsock'[q].connected
            /\ jsock'[q].sendHandleId = jsock[q].sendHandleId
        BY <1>0, <2>1, <2>3, CallSockets
      <3> QED BY <1>0, <1>2, <1>3, <1>7, <2>1, <3>1, <3>2, OldHandles DEF SameSocket
    <2> QED BY <2>2, <2>3
  <1>8. ASSUME NEW o \in Socks, Disconnect(o) PROVE Good
    <2>1. q # o /\ linked[q] /\ linked[o] /\ bindCall' = bindCall /\ disconnect(o)
      BY <1>0, <1>1, <1>8
         DEF Disconnect, HistoryTypeOK, MayUseHandle, Obey, Disciplined, AllRules
    <2>2. jsock[q].sendHandleId # jsock[o].sendHandleId
      BY <1>0, <1>1, <2>1 DEF LinkedInv, PInv, IInv, HandlesInv, HandlesAreNotShared
    <2>3. jsock' = jsock
      BY <2>1 DEF disconnect
    <2> QED BY <1>0, <1>2, <1>3, <1>8, <2>1, <2>2, <2>3, DisconnectedHandles
  <1>9. ASSUME NEW o \in Socks, Unbind(o) PROVE Good
    <2>1. linked' = linked /\ bindCall' = bindCall /\ unbind(o) /\ q # o
      BY <1>1, <1>9 DEF Unbind, history, Obey, Disciplined, AllRules
    <2>2. jsock'[q] = jsock[q]
      BY <1>0, <2>1, UnbindSockets
    <2> QED BY <1>0, <1>1, <1>2, <1>3, <1>9, <2>1, <2>2, OldHandles
  <1>10. ASSUME NEW o \in Socks,
                \/ Close(o) \/ (deviceEnable(o) /\ UNCHANGED history) \/ Listen(o) \/ Quiet(o)
         PROVE  Good
    <2>1. linked' = linked /\ bindCall' = bindCall
      BY <1>10 DEF Close, Listen, Quiet, history
    <2>2. /\ SameSocket(q)
          /\ jsock[q].connected => jsock'[q].connected
          /\ jsock'[q].sendHandleId = jsock[q].sendHandleId
      <3>1. jsock' = jsock \/ close(o)
        BY <1>10, LookUpChangesNothing DEF Close, deviceEnable, Listen, tcpListen, Quiet
      <3>2. jsock'[q] = jsock[q] \/ jsock'[q] = [jsock[q] EXCEPT !.closed = TRUE]
        BY <1>0, <3>1, SetsOne DEF close
      <3>3. jsock[q] \in JavaSocket
        BY <1>0 DEF TypeOK
      <3> QED BY <3>2, <3>3 DEF JavaSocket, SameSocket, Constructed
    <2> QED BY <1>0, <1>1, <1>2, <1>3, <1>10, <2>1, <2>2, OldHandles DEF SameSocket
  <1> QED BY <1>4, <1>5, <1>6, <1>7, <1>8, <1>9, <1>10, PNextSplits

LEMMA BinderStep ==
  ASSUME Disciplined, PInv, TypeOK', [PNext]_pvars
  PROVE  BinderInv'
  <1>0. TypeOK /\ BinderInv /\ HistoryTypeOK
    BY DEF PInv, IInv
  <1>1. SUFFICES ASSUME Up, proc = "up", NEW q \in Socks, binder' = q
                 PROVE  /\ jsock'[q].bound /\ bindCall'[q] = "bind"
                        /\ ch' = jsock'[q].channelId /\ channels'[jsock'[q].channelId].state = "open"
    BY UpBefore DEF BinderInv, Up
  <1> DEFINE Good ==
        /\ jsock'[q].bound /\ bindCall'[q] = "bind"
        /\ ch' = jsock'[q].channelId /\ channels'[jsock'[q].channelId].state = "open"
      Same ==
        /\ binder = q /\ bindCall'[q] = bindCall[q] /\ ch' = ch
        /\ jsock[q].bound => jsock'[q].bound
        /\ jsock'[q].channelId = jsock[q].channelId
        /\ channels'[jsock[q].channelId].state = channels[jsock[q].channelId].state
  <1>2. Same => Good
    BY <1>0, <1>1 DEF BinderInv
  <1>3. binder = q => /\ jsock[q].bound /\ bindCall[q] = "bind" /\ Constructed(q)
                      /\ jsock[q].channelId \in ChannelIds
                      /\ jsock[q].channelId < channels_num
    BY <1>0, <1>1, BoundChannel DEF BinderInv, PInv, BoundIsConstructed
  <1>4. CASE UNCHANGED pvars
    BY <1>1, <1>2, <1>4 DEF pvars, vars, cvars, history
  <1>5. ASSUME NEW o \in Socks, Construct(o) \/ ConstructEmpty(o) \/ Accept(o) PROVE Good
    <2>1. binder' = binder /\ bindCall' = bindCall
      BY <1>5 DEF Construct, ConstructEmpty, Accept, history
    <2>2. jsock'[q] = jsock[q]
      BY <1>0, <1>1, <1>3, <1>5, <2>1, NewSockets, AcceptSockets
    <2>3. ch' = ch
      BY <1>5 DEF Construct, ConstructEmpty, Accept, DBLUDPSocket, DBLUDPSocketEmpty, OpenDevice,
                  ReuseDevice, createDeviceC, tcpAccept, tcpAcceptC, cvars
    <2> QED BY <1>0, <1>1, <1>2, <1>3, <1>5, <2>1, <2>2, <2>3, OldChannels
  <1>6. ASSUME NEW o \in Socks, Bind(o) PROVE Good
    <2>1. PICK p \in Ports : bind(o, p)
      BY <1>6 DEF Bind
    <2>2. q = o /\ bindCall'[q] = "bind"
      BY <1>0, <1>1, <1>6 DEF Bind, Binds, HistoryTypeOK
    <2>3. /\ NewChannel("garbage", "open", jsock[o].deviceId, p)
          /\ channels_num < MaxChannels /\ ch' = channels_num
      BY <1>1, <2>1 DEF bind, bindC, BindGlobal
    <2>4. channels'[channels_num].state = "open"
      BY <1>0, <2>3, ConstantsAssumption DEF NewChannel, TypeOK, ChannelIds
    <2> QED BY <1>0, <1>1, <2>1, <2>2, <2>3, <2>4, BindSockets
  <1>7. ASSUME NEW o \in Socks, BindAddr(o) PROVE Good
    <2>1. PICK p \in Ports : bindAddr(o, p)
      BY <1>7 DEF BindAddr
    <2>2. binder' = binder /\ ch' = ch
      BY <1>7, <2>1 DEF BindAddr, bindAddr, bindAddrC
    <2>3. q # o
      BY <1>1, <1>3, <2>1, <2>2 DEF bindAddr
    <2>4. jsock'[q] = jsock[q] /\ bindCall'[q] = bindCall[q]
      BY <1>0, <1>7, <2>1, <2>3, BindSockets DEF BindAddr, Binds, HistoryTypeOK
    <2> QED BY <1>0, <1>1, <1>2, <1>3, <1>7, <2>2, <2>4, OldChannels
  <1>8. ASSUME NEW o \in Socks, Unbind(o) PROVE Good
    <2>1. /\ binder' = binder /\ bindCall' = bindCall /\ unbind(o) /\ ch' = ch
          /\ jsock[o].bound /\ bindCall[o] = "bindAddr"
      BY <1>8, ChannelIsValid DEF Unbind, history, unbind, unbindC
    <2>2. q # o
      BY <1>1, <1>3, <2>1
    <2>3. jsock'[q] = jsock[q]
      BY <1>0, <2>1, <2>2, UnbindSockets
    <2>4. jsock[q].channelId # jsock[o].channelId
      BY <1>1, <1>3, <2>1, <2>2 DEF PInv, IInv, ChannelsInv, ChannelsAreNotShared, HasChannel
    <2> QED BY <1>0, <1>1, <1>2, <1>3, <1>8, <2>1, <2>3, <2>4, UnboundChannels
  <1>9. ASSUME NEW o \in Socks,
               \/ Connect(o) \/ Disconnect(o) \/ Close(o)
               \/ (deviceEnable(o) /\ UNCHANGED history) \/ Listen(o) \/ Quiet(o)
        PROVE  Good
    <2>1. binder' = binder /\ bindCall' = bindCall
      BY <1>9 DEF Connect, Disconnect, Close, Listen, Quiet, history
    <2>2. SameSocket(q)
      BY <1>0, <1>9, CallSockets DEF Connect, Disconnect, Close, Listen, Quiet
    <2>3. ch' = ch
      BY <1>9, LookUpChangesNothing
         DEF Connect, Disconnect, Close, Listen, Quiet, connect, sendConnectC, disconnect,
             sendDisconnectC, close, closeC, deviceEnable, deviceEnableC, tcpListen, tcpListenC,
             cvars
    <2> QED BY <1>0, <1>1, <1>2, <1>3, <1>9, <2>1, <2>2, <2>3, OldChannels, ListenedChannels
            DEF SameSocket
  <1> QED BY <1>4, <1>5, <1>6, <1>7, <1>8, <1>9, PNextSplits

LEMMA ListenStep ==
  ASSUME Disciplined, PInv, TypeOK', [PNext]_pvars
  PROVE  ListenInv'
  <1>0. TypeOK /\ ListenInv /\ HistoryTypeOK
    BY DEF PInv, IInv
  <1>1. SUFFICES ASSUME NEW q \in Socks, listened'[q]
                 PROVE  /\ jsock'[q].bound /\ bindCall'[q] = "bind"
                        /\ channels'[jsock'[q].channelId].listening
    BY DEF ListenInv
  <1> DEFINE Good ==
        /\ jsock'[q].bound /\ bindCall'[q] = "bind"
        /\ channels'[jsock'[q].channelId].listening
      Same ==
        /\ listened[q] /\ bindCall'[q] = bindCall[q]
        /\ jsock[q].bound => jsock'[q].bound
        /\ jsock'[q].channelId = jsock[q].channelId
        /\ channels[jsock[q].channelId].listening => channels'[jsock[q].channelId].listening
  <1>2. Same => Good
    BY <1>0, <1>1 DEF ListenInv
  <1>3. listened[q] => /\ jsock[q].bound /\ bindCall[q] = "bind" /\ Constructed(q)
                       /\ jsock[q].channelId \in ChannelIds
                       /\ jsock[q].channelId < channels_num
    BY <1>0, <1>1, BoundChannel DEF ListenInv, PInv, BoundIsConstructed
  <1>4. CASE UNCHANGED pvars
    BY <1>1, <1>2, <1>4 DEF pvars, vars, cvars, history
  <1>5. ASSUME NEW o \in Socks, Construct(o) \/ ConstructEmpty(o) \/ Accept(o) PROVE Good
    <2>1. listened' = listened /\ bindCall' = bindCall
      BY <1>5 DEF Construct, ConstructEmpty, Accept, history
    <2>2. jsock'[q] = jsock[q]
      BY <1>0, <1>1, <1>3, <1>5, <2>1, NewSockets, AcceptSockets
    <2> QED BY <1>0, <1>1, <1>2, <1>3, <1>5, <2>1, <2>2, OldChannels
  <1>6. ASSUME NEW o \in Socks, Bind(o) \/ BindAddr(o) PROVE Good
    <2>1. PICK p \in Ports : bind(o, p) \/ bindAddr(o, p)
      BY <1>6 DEF Bind, BindAddr
    <2>2. q # o /\ listened[q]
      BY <1>0, <1>1, <1>6 DEF Bind, BindAddr, Binds, HistoryTypeOK
    <2>3. jsock'[q] = jsock[q] /\ bindCall'[q] = bindCall[q]
      BY <1>0, <1>6, <2>1, <2>2, BindSockets DEF Bind, BindAddr, Binds, HistoryTypeOK
    <2> QED BY <1>0, <1>1, <1>2, <1>3, <1>6, <2>2, <2>3, OldChannels
  <1>7. ASSUME NEW o \in Socks, Unbind(o) PROVE Good
    <2>1. /\ listened' = listened /\ bindCall' = bindCall /\ unbind(o)
          /\ jsock[o].bound /\ bindCall[o] = "bindAddr"
      BY <1>7, ChannelIsValid DEF Unbind, history
    <2>2. q # o
      BY <1>1, <1>3, <2>1
    <2>3. jsock'[q] = jsock[q]
      BY <1>0, <2>1, <2>2, UnbindSockets
    <2>4. jsock[q].channelId # jsock[o].channelId
      BY <1>1, <1>3, <2>1, <2>2 DEF PInv, IInv, ChannelsInv, ChannelsAreNotShared, HasChannel
    <2> QED BY <1>0, <1>1, <1>2, <1>3, <1>7, <2>1, <2>3, <2>4, UnboundChannels
  <1>8. ASSUME NEW o \in Socks, Listen(o) PROVE Good
    <2>1. tcpListen(o) /\ bindCall' = bindCall /\ SameSocket(q)
      BY <1>0, <1>8, CallSockets DEF Listen
    <2>2. CASE q = o
      <3>1. Up /\ proc = "up"
        BY <1>0, <1>1, <1>8, <2>1, <2>2 DEF Listen, HistoryTypeOK, tcpListen, Created, Up
      <3>2. jsock[o].bound /\ bindCall[o] = "bind" /\ ch = jsock[o].channelId
        BY <1>8, <3>1, ListenerIsValid DEF Listen
      <3> QED BY <1>0, <1>8, <2>1, <2>2, <3>1, <3>2, BoundChannel, ListenedChannels DEF SameSocket
    <2>3. CASE q # o
      <3>1. listened[q]
        BY <1>0, <1>1, <1>8, <2>3 DEF Listen, HistoryTypeOK
      <3> QED BY <1>0, <1>1, <1>2, <1>3, <1>8, <2>1, <3>1, ListenedChannels DEF SameSocket
    <2> QED BY <2>2, <2>3
  <1>9. ASSUME NEW o \in Socks,
               \/ Connect(o) \/ Disconnect(o) \/ Close(o)
               \/ (deviceEnable(o) /\ UNCHANGED history) \/ Quiet(o)
        PROVE  Good
    <2>1. listened' = listened /\ bindCall' = bindCall
      BY <1>9 DEF Connect, Disconnect, Close, Quiet, history
    <2>2. SameSocket(q)
      BY <1>0, <1>9, CallSockets DEF Connect, Disconnect, Close, Quiet
    <2> QED BY <1>0, <1>1, <1>2, <1>3, <1>9, <2>1, <2>2, OldChannels DEF SameSocket
  <1> QED BY <1>4, <1>5, <1>6, <1>7, <1>8, <1>9, PNextSplits

-----------------------------------------------------------------------------
LEMMA PInvStep ==
  ASSUME Disciplined, PInv, [PNext]_pvars
  PROVE  PInv'
  <1>1. IInv'
    BY StepIsStep, NextIInv DEF PInv
  <1>2. HistoryTypeOK'
    BY HistoryStep DEF PInv
  <1> QED BY <1>1, <1>2, NoCrashStep, DeviceStep, BoundStep, ChannelStep, LinkedStep, BinderStep,
             ListenStep DEF PInv, IInv

LEMMA PInvariance ==
  ASSUME Disciplined
  PROVE  PSpec => []PInv
  <1>1. PInit => PInv
    BY InitPInv
  <1>2. PInv /\ [PNext]_pvars => PInv'
    BY PInvStep
  <1> QED BY <1>1, <1>2, PTL DEF PSpec

(* The tables, the fields and what is remembered of the calls have their   *)
(* types, whichever rules the callers follow.                              *)
THEOREM PTypeCorrect == PSpec => []PTypeOK
  <1>1. PInit => IInv /\ HistoryTypeOK
    BY InitPInv DEF PInv
  <1>2. IInv /\ HistoryTypeOK /\ [PNext]_pvars => IInv' /\ HistoryTypeOK'
    BY StepIsStep, NextIInv, HistoryStep
  <1>3. IInv /\ HistoryTypeOK => PTypeOK
    BY DEF IInv, HistoryTypeOK, PTypeOK
  <1> QED BY <1>1, <1>2, <1>3, PTL DEF PSpec

(* The rules are enough: whatever the number of sockets, addresses, ports  *)
(* and table entries, callers that follow them never end the JVM by an     *)
(* abort or by handing the library an entry it cannot act on.              *)
THEOREM DisciplineIsEnough == Disciplined => (PSpec => []NoCrash)
  <1> SUFFICES ASSUME Disciplined PROVE PSpec => []NoCrash
    OBVIOUS
  <1>1. PInv => NoCrash
    BY DEF PInv
  <1>2. PSpec => []PInv
    BY PInvariance
  <1> QED BY <1>1, <1>2, PTL

(* Under the rules a linked socket sends through the channel of its own    *)
(* latest bindAddr().                                                      *)
THEOREM LinksAreOwn == Disciplined => (PSpec => []LinkedThroughOwnChannel)
  <1> SUFFICES ASSUME Disciplined PROVE PSpec => []LinkedThroughOwnChannel
    OBVIOUS
  <1>1. PInv => LinkedThroughOwnChannel
    <2> SUFFICES ASSUME PInv, NEW o \in Socks, Running(o), linked[o]
                 PROVE  /\ jsock[o].bound
                        /\ HandleValid(jsock[o].sendHandleId)
                        /\ send_handles[jsock[o].sendHandleId].chan = jsock[o].channelId
      BY DEF LinkedThroughOwnChannel
    <2>1. proc = "up" /\ MayCall(o)
      BY DEF Running, MayCall, Obey
    <2>2. jsock[o].bound /\ send_handles[jsock[o].sendHandleId].chan = jsock[o].channelId
      BY <2>1 DEF PInv, LinkedInv
    <2> QED BY <2>1, <2>2, HandleIsValid
  <1>2. PSpec => []PInv
    BY PInvariance
  <1> QED BY <1>1, <1>2, PTL

(* Under the rules tcpListen() puts the caller's own channel into listening *)
(* although the C code ignores the channel it is given.                    *)
THEOREM ListenersAreOwn == Disciplined => (PSpec => []ListensOnOwnChannel)
  <1> SUFFICES ASSUME Disciplined PROVE PSpec => []ListensOnOwnChannel
    OBVIOUS
  <1>1. PInv => ListensOnOwnChannel
    BY DEF PInv, ListenInv, ListensOnOwnChannel
  <1>2. PSpec => []PInv
    BY PInvariance
  <1> QED BY <1>1, <1>2, PTL

(* A step that closes a device is a close() of a socket of its address. *)
LEMMA DeviceLeftAlone ==
  ASSUME Disciplined, PInv, [PNext]_pvars, NEW d \in DeviceIds,
         devices[d].state # "closed", devices'[d].state = "closed"
  PROVE  \E o \in Socks : /\ Constructed(o) /\ jsock[o].addr = devices[d].host
                          /\ ~jsock[o].closed /\ jsock'[o].closed
  <1>0. TypeOK
    BY DEF PInv, IInv
  <1>1. ~UNCHANGED devices
    OBVIOUS
  <1>2. ASSUME NEW o \in Socks, Close(o)
        PROVE  /\ Constructed(o) /\ jsock[o].addr = devices[d].host
               /\ ~jsock[o].closed /\ jsock'[o].closed
    <2>1. Up /\ CloseDevice(jsock[o].deviceId) /\ d = jsock[o].deviceId
      BY <1>0, <1>1, <1>2 DEF Close, close, closeC, CloseDevice, TypeOK
    <2>2. jsock'[o].closed
      <3>1. jsock'[o] = [jsock[o] EXCEPT !.closed = TRUE] /\ jsock[o] \in JavaSocket
        BY <1>0, <1>2, <2>1, SetsOne DEF Close, close, TypeOK
      <3> QED BY <3>1 DEF JavaSocket
    <2>3. Constructed(o) /\ ~Ended(jsock[o].addr) /\ devices[jsock[o].deviceId].host = jsock[o].addr
      BY <1>2, DeviceIsValid DEF Close, PInv, IInv, AddressInv, CacheInv, Unset, DeviceIds
    <2> QED BY <2>1, <2>2, <2>3 DEF Ended
  <1>3. ASSUME NEW o \in Socks, Construct(o) \/ ConstructEmpty(o) PROVE FALSE
    <2>1. \E h, f : devices' = [devices EXCEPT ![devices_num] =
                                 [state |-> OpenState(f), host |-> h, flag |-> f]]
      BY <1>1, <1>3 DEF Construct, ConstructEmpty, DBLUDPSocket, DBLUDPSocketEmpty, OpenDevice,
                        ReuseDevice, createDeviceC, cvars
    <2> QED BY <1>0, <2>1 DEF OpenState, TypeOK
  <1>4. ASSUME NEW o \in Socks, deviceEnable(o) PROVE FALSE
    <2>1. devices' = [devices EXCEPT ![jsock[o].deviceId].state = "enabled"]
      BY <1>1, <1>4 DEF deviceEnable, deviceEnableC
    <2> QED BY <1>0, <2>1 DEF TypeOK, Device
  <1>5. ASSUME NEW o \in Socks,
               \/ Bind(o) \/ BindAddr(o) \/ Connect(o) \/ Disconnect(o) \/ Unbind(o)
               \/ Listen(o) \/ Accept(o) \/ Quiet(o)
        PROVE  FALSE
    BY <1>1, <1>5, LookUpChangesNothing
       DEF Bind, BindAddr, Connect, Disconnect, Unbind, Listen, Accept, Quiet, bind, bindAddr,
           connect, disconnect, unbind, tcpListen, tcpAccept, bindC, bindAddrC, sendConnectC,
           sendDisconnectC, unbindC, tcpListenC, tcpAcceptC, cvars
  <1> QED BY <1>1, <1>2, <1>3, <1>4, <1>5, PNextSplits DEF pvars, vars, cvars

(* A step that unbinds a channel is an unbind() of the socket bound to it. *)
LEMMA ChannelLeftAlone ==
  ASSUME Disciplined, PInv, [PNext]_pvars, NEW c \in ChannelIds,
         channels[c].state = "open", channels'[c].state = "unbound"
  PROVE  \E o \in Socks : jsock[o].channelId = c /\ jsock[o].bound /\ ~jsock'[o].bound
  <1>0. TypeOK
    BY DEF PInv, IInv
  <1>1. ~UNCHANGED channels
    OBVIOUS
  <1>2. ASSUME NEW o \in Socks, Unbind(o)
        PROVE  jsock[o].channelId = c /\ jsock[o].bound /\ ~jsock'[o].bound
    <2>1. Up /\ jsock[o].channelId = c
      BY <1>0, <1>2, UnboundChannels
    <2> QED BY <1>0, <1>2, <2>1, UnbindSockets, ChannelIsValid DEF Unbind
  <1>3. ASSUME NEW o \in Socks, Bind(o) \/ BindAddr(o) \/ Accept(o) PROVE FALSE
    <2>1. \E s, t, v, p : t # "unbound" /\ NewChannel(s, t, v, p)
      BY <1>1, <1>3 DEF Bind, BindAddr, Accept, bind, bindAddr, tcpAccept, bindC, bindAddrC,
                        tcpAcceptC
    <2> QED BY <1>0, <2>1 DEF NewChannel, TypeOK
  <1>4. ASSUME NEW o \in Socks, Listen(o) PROVE FALSE
    BY <1>0, <1>4, ListenedChannels
  <1>5. ASSUME NEW o \in Socks,
               \/ Construct(o) \/ ConstructEmpty(o) \/ Connect(o) \/ Disconnect(o)
               \/ Close(o) \/ deviceEnable(o) \/ Quiet(o)
        PROVE  FALSE
    BY <1>1, <1>5, LookUpChangesNothing
       DEF Construct, ConstructEmpty, Connect, Disconnect, Close, Quiet, DBLUDPSocket,
           DBLUDPSocketEmpty, OpenDevice, ReuseDevice, createDeviceC, connect, sendConnectC,
           disconnect, sendDisconnectC, close, closeC, deviceEnable, deviceEnableC, cvars
  <1> QED BY <1>1, <1>2, <1>3, <1>4, <1>5, PNextSplits DEF pvars, vars, cvars

(* Under the rules no call closes the device of another address or unbinds *)
(* the channel of another socket: see OthersAreLeftAlone.                  *)
THEOREM CallsHurtOnlyTheirOwn == Disciplined => (PSpec => OthersAreLeftAlone)
  <1> SUFFICES ASSUME Disciplined PROVE PSpec => OthersAreLeftAlone
    OBVIOUS
  <1>1. PInv /\ [PNext]_pvars =>
          [/\ \A d \in DeviceIds :
                devices[d].state # "closed" /\ devices'[d].state = "closed" =>
                  \E o \in Socks : /\ Constructed(o) /\ jsock[o].addr = devices[d].host
                                   /\ ~jsock[o].closed /\ jsock'[o].closed
           /\ \A c \in ChannelIds :
                channels[c].state = "open" /\ channels'[c].state = "unbound" =>
                  \E o \in Socks : jsock[o].channelId = c /\ jsock[o].bound /\ ~jsock'[o].bound
          ]_pvars
    BY DeviceLeftAlone, ChannelLeftAlone
  <1>2. PSpec => []PInv
    BY PInvariance
  <1> QED BY <1>1, <1>2, PTL DEF PSpec, OthersAreLeftAlone

=============================================================================
