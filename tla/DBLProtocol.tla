----------------------------- MODULE DBLProtocol -----------------------------
(***************************************************************************)
(* What a caller of DBLSockets has to do for the C tables to be used       *)
(* safely.  Neither the Java classes nor the C code checks any of it: a    *)
(* rule is a restriction on the caller, and the module says which rules    *)
(* are enough.  Every step is a step of DBLSockets; the variables added    *)
(* here record what the callers did and restrict nothing by themselves.    *)
(***************************************************************************)
EXTENDS DBLSockets

CONSTANTS
  Rules,        (* the rules that the callers follow                       *)
  NoSock

AllRules ==
  {"no_call_after_close",      \* the first close() ends all sockets of the address
   "constructed_only",         \* no call on a socket made by the empty
                               \* constructor or returned by tcpAccept()
   "bindAddr_before_channel",  \* channel calls only after bindAddr()
   "connect_before_handle",    \* disconnect() and connected send() only while linked
   "disconnect_before_unbind",
   "latest_binder_listens",    \* listen/accept only by whoever called bind() last
   "two_byte_datagrams"}

ASSUME ProtocolAssumption ==
  /\ Rules \subseteq AllRules
  /\ NoSock \notin Socks

VARIABLES
  bindCall,     (* per socket: the call that gave it its channel           *)
  linked,       (* per socket: connect() not followed by disconnect()      *)
  listened,     (* per socket: tcpListen() since its last bind             *)
  binder        (* the socket whose bind() was the latest, or NoSock       *)

history == <<bindCall, linked, listened, binder>>
pvars == <<vars, history>>

PInit ==
  /\ Init
  /\ bindCall = [o \in Socks |-> "none"]
  /\ linked = [o \in Socks |-> FALSE]
  /\ listened = [o \in Socks |-> FALSE]
  /\ binder = NoSock

-----------------------------------------------------------------------------
Obey(rule, guard) == rule \in Rules => guard

(* close() was called on some socket constructed for this address. *)
Ended(host) == \E p \in Socks : Constructed(p) /\ jsock[p].addr = host /\ jsock[p].closed

MayCall(o) ==
  /\ Obey("constructed_only", Constructed(o))
  /\ Obey("no_call_after_close", ~Ended(jsock[o].addr))

MayUseChannel(o) ==
  /\ MayCall(o)
  /\ Obey("bindAddr_before_channel", jsock[o].bound /\ bindCall[o] = "bindAddr")

MayUseHandle(o) ==
  /\ MayCall(o)
  /\ Obey("connect_before_handle", linked[o])

MayListen(o) ==
  /\ MayCall(o)
  /\ jsock[o].bound
  /\ Obey("latest_binder_listens", binder = o)

-----------------------------------------------------------------------------
(* The calls, with the rules in front. *)
Binds(o, call) ==
  /\ bindCall' = [bindCall EXCEPT ![o] = call]
  /\ listened' = [listened EXCEPT ![o] = FALSE]
  /\ UNCHANGED linked

Construct(o) ==
  /\ \E h \in Hosts, f \in OpenFlags :
       Obey("no_call_after_close", ~Ended(h)) /\ DBLUDPSocket(o, h, f)
  /\ UNCHANGED history

ConstructEmpty(o) ==
  /\ DBLUDPSocketEmpty(o)
  /\ UNCHANGED history

Bind(o) ==
  /\ MayCall(o)
  /\ \E p \in Ports : bind(o, p)
  /\ Binds(o, "bind") /\ binder' = o

BindAddr(o) ==
  /\ MayCall(o)
  /\ \E p \in Ports : bindAddr(o, p)
  /\ Binds(o, "bindAddr") /\ UNCHANGED binder

Connect(o) ==
  /\ MayUseChannel(o) /\ connect(o)
  /\ linked' = [linked EXCEPT ![o] = TRUE]
  /\ UNCHANGED <<bindCall, listened, binder>>

Disconnect(o) ==
  /\ MayUseHandle(o) /\ disconnect(o)
  /\ linked' = [linked EXCEPT ![o] = FALSE]
  /\ UNCHANGED <<bindCall, listened, binder>>

Send(o) ==
  /\ IF jsock[o].connected THEN MayUseHandle(o) ELSE MayUseChannel(o)
  /\ \E len \in 1 .. 2 : Obey("two_byte_datagrams", len > 1) /\ send(o, len)
  /\ UNCHANGED history

Unbind(o) ==
  /\ MayUseChannel(o) /\ Obey("disconnect_before_unbind", ~linked[o])
  /\ unbind(o)
  /\ UNCHANGED history

Close(o) ==
  /\ MayCall(o) /\ close(o)
  /\ UNCHANGED history

(* The calls that only look their device up. *)
UseDevice(o) ==
  /\ MayCall(o)
  /\ \/ receive(o) \/ tcpReceiveMsg(o)
     \/ deviceEnable(o) \/ deviceGetAttributes(o) \/ deviceSetAttributes(o)
  /\ UNCHANGED history

(* The calls that only look their channel up. *)
UseChannel(o) ==
  /\ MayUseChannel(o)
  /\ \/ joinGroup(o) \/ leaveGroup(o)
     \/ \E via \in Socks : MayUseChannel(via) /\ (tcpSend(o, via) \/ tcpReceive(o, via))
     \/ \E sockets \in SUBSET Socks :
          (\A s \in sockets : MayUseChannel(s)) /\ tcpPoll(o, sockets)
     \/ tcpGetChannelOptions(o) \/ tcpSetChannelOptions(o) \/ tcpGetChannelType(o)
  /\ UNCHANGED history

Listen(o) ==
  /\ MayListen(o) /\ tcpListen(o)
  /\ listened' = [listened EXCEPT ![o] = (proc' = "up")]
  /\ UNCHANGED <<bindCall, linked, binder>>

Accept(o) ==
  /\ MayListen(o)
  /\ \E new \in Socks, ok \in BOOLEAN, p \in Ports : tcpAccept(o, new, ok, p)
  /\ UNCHANGED history

PNext ==
  \E o \in Socks :
    \/ Construct(o) \/ ConstructEmpty(o) \/ Bind(o) \/ BindAddr(o) \/ Connect(o) \/ Disconnect(o)
    \/ Send(o) \/ Unbind(o) \/ Close(o) \/ UseDevice(o) \/ UseChannel(o)
    \/ Listen(o) \/ Accept(o)

PSpec == PInit /\ [][PNext]_pvars

-----------------------------------------------------------------------------
PTypeOK ==
  /\ TypeOK
  /\ bindCall \in [Socks -> {"none", "bind", "bindAddr"}]
  /\ linked \in [Socks -> BOOLEAN]
  /\ listened \in [Socks -> BOOLEAN]
  /\ binder \in Socks \cup {NoSock}

Running(o) == proc = "up" /\ Constructed(o) /\ ~Ended(jsock[o].addr)

(* Under all rules no call ends the process by an abort or by handing the  *)
(* library a device, a channel or a send handle it cannot act on: only a   *)
(* failure the library itself reports (DBL_Safe) can end it.               *)
NoCrash == proc \notin {"crash", "abort"}

(* The datagrams of a linked socket leave through the channel of its       *)
(* latest bindAddr(), through every order of binds, connects and unbinds.  *)
LinkedThroughOwnChannel ==
  \A o \in Socks :
    Running(o) /\ linked[o] =>
      /\ jsock[o].bound
      /\ HandleValid(jsock[o].sendHandleId)
      /\ send_handles[jsock[o].sendHandleId].chan = jsock[o].channelId

(* A socket that listens does so on the channel that its own bind made. *)
ListensOnOwnChannel ==
  \A o \in Socks : listened[o] => channels[jsock[o].channelId].listening

(* A device is closed, and a channel unbound, only by a call on a socket   *)
(* that was constructed for that address, or bound to that channel.        *)
OthersAreLeftAlone ==
  [][/\ \A d \in DeviceIds :
          devices[d].state # "closed" /\ devices'[d].state = "closed" =>
            \E o \in Socks : /\ Constructed(o) /\ jsock[o].addr = devices[d].host
                             /\ ~jsock[o].closed /\ jsock'[o].closed
     /\ \A c \in ChannelIds :
          channels[c].state = "open" /\ channels'[c].state = "unbound" =>
            \E o \in Socks : jsock[o].channelId = c /\ jsock[o].bound /\ ~jsock'[o].bound
    ]_pvars

=============================================================================
