------------------------------- MODULE KernelUDP -------------------------------
(***************************************************************************)
(* Traffic of KernelUDPSocket: kernel_udp_socket.c over a network that     *)
(* loses, duplicates and reorders datagrams.                               *)
(*                                                                         *)
(* KernelSockets shows that a socket which is not closed keeps its own     *)
(* descriptor, so a socket stands for its descriptor here.  A receive() is *)
(* two actions: what it reads before it waits in the kernel, and what it   *)
(* does when the kernel lets it go; every other method is one.  Methods of *)
(* one socket may be called by several threads.                            *)
(*                                                                         *)
(* An address is an IP address with its port.  A socket that was not bound *)
(* is given an address of its own by the kernel, named like the socket.    *)
(***************************************************************************)
EXTENDS Integers, Sequences, FiniteSets

CONSTANTS
  Socks,
  Names,        (* the addresses that callers bind, connect and send to    *)
  NoAddr,
  Garbage,      (* an address read from memory that nothing has written    *)
  Windows,      (* built with _WIN32                                       *)
  ConnectFirst, (* callers connect a socket at most once, before it is     *)
                (* bound or sends, and receive on none whose connect() has *)
                (* thrown                                                  *)
  Receivers,    (* bound: the sockets that callers receive on              *)
  Amounts,      (* what callers give to setTimeout()                       *)
  MaxSent,      (* bound: datagrams sent by one socket                     *)
  MaxDups,      (* bound: datagrams that the network duplicates            *)
  MaxQueue      (* datagrams that a receive buffer holds                   *)

ASSUME UdpAssumption ==
  /\ Names \cap Socks = {}
  /\ NoAddr \notin Names \cup Socks /\ Garbage \notin Names \cup Socks \cup {NoAddr}
  /\ Receivers \subseteq Socks
  /\ Windows \in BOOLEAN /\ ConnectFirst \in BOOLEAN
  /\ Amounts \subseteq Nat /\ MaxSent \in Nat /\ MaxDups \in Nat /\ MaxQueue \in Nat \ {0}

VARIABLES
  sock,         (* Java fields                                             *)
  kern,         (* the kernel's side of each socket                        *)
  queue,        (* its receive buffer                                      *)
  net, dups,    (* datagrams under way, and how many were duplicated       *)
  sent,         (* datagrams each socket has sent                          *)
  recv,         (* the receive() in progress on each socket                *)
  packet        (* the UDPPacket that the last receive() filled, and who   *)
                (* sent the datagram (history)                             *)

uvars == <<sock, kern, queue, net, dups, sent, recv, packet>>

Addrs == Names \cup Socks
Units == {"SECONDS", "MICROSECONDS"}

JavaSocket == [bound : BOOLEAN, connected : BOOLEAN, closed : BOOLEAN, remote : Addrs \cup {NoAddr}]

(* promised, history: the last setTimeout() that did not throw asked for a *)
(* timeout.                                                                *)
KernelSocket ==
  [local : Addrs \cup {NoAddr}, peer : Addrs \cup {NoAddr}, shut : BOOLEAN,
   reuse : BOOLEAN, timed : BOOLEAN, promised : BOOLEAN]

Datagram == [from : Addrs, to : Addrs]

(* native: receiveC() of a connected socket or receiveFromC(). *)
Waiting == [native : {"none", "receiveC", "receiveFromC"}, timed : BOOLEAN, promised : BOOLEAN]
Idle == [native |-> "none", timed |-> FALSE, promised |-> FALSE]

NothingYet == [address |-> NoAddr, sender |-> NoAddr]

UInit ==
  /\ sock = [s \in Socks |-> [bound |-> FALSE, connected |-> FALSE, closed |-> FALSE, remote |-> NoAddr]]
  /\ kern = [s \in Socks |-> [local |-> NoAddr, peer |-> NoAddr, shut |-> FALSE,
                              reuse |-> FALSE, timed |-> FALSE, promised |-> FALSE]]
  /\ queue = [s \in Socks |-> <<>>]
  /\ net = {} /\ dups = 0
  /\ sent = [s \in Socks |-> 0]
  /\ recv = [s \in Socks |-> Idle]
  /\ packet = [s \in Socks |-> NothingYet]

-----------------------------------------------------------------------------
(* The kernel and the network (external).                                  *)
Receiving(s) == recv[s].native # "none"

(* On Linux close() of a socket that a receive() waits on takes effect     *)
(* when that receive() is over.                                            *)
Alive(s) == ~sock[s].closed \/ (Receiving(s) /\ ~Windows)

CanBind(s, a) ==
  /\ kern[s].local = NoAddr
  /\ \A u \in Socks \ {s} :
       Alive(u) /\ kern[u].local = a => kern[s].reuse /\ kern[u].reuse

LocalOf(s) == IF kern[s].local = NoAddr THEN s ELSE kern[s].local

(* A connected socket is given the datagrams of its peer only, a socket    *)
(* that was connected late keeps what it was given before.                 *)
Accepts(s, d) ==
  /\ Alive(s) /\ kern[s].local = d.to
  /\ kern[s].peer \in {NoAddr, d.from}
  /\ Len(queue[s]) < MaxQueue

Deliver(d, s) ==
  /\ d \in net /\ Accepts(s, d)
  /\ queue' = [queue EXCEPT ![s] = Append(@, d)]
  /\ \/ net' = net \ {d} /\ UNCHANGED dups
     \/ dups < MaxDups /\ dups' = dups + 1 /\ UNCHANGED net
  /\ UNCHANGED <<sock, kern, sent, recv, packet>>

Lose(d) ==
  /\ d \in net
  /\ net' = net \ {d}
  /\ UNCHANGED <<sock, kern, queue, dups, sent, recv, packet>>

(* What a timeout of tv_sec and tv_usec means to SO_RCVTIMEO: Windows      *)
(* takes the first word of the structure for milliseconds.                 *)
Refused(tv) == ~Windows /\ tv.usec >= 1000000
TimesOut(tv) == IF Windows THEN tv.sec # 0 ELSE tv.sec # 0 \/ tv.usec # 0

-----------------------------------------------------------------------------
(* KernelUDPSocket.  A call that throws before anything is assigned is a   *)
(* step that changes nothing.  No method looks at closed: that a socket is *)
(* not called after its close() is a rule for callers, whose breach        *)
(* KernelSockets is about.                                                 *)
MayCall(s) == ~sock[s].closed

bind(s, a) ==
  /\ MayCall(s) /\ CanBind(s, a)
  /\ kern' = [kern EXCEPT ![s].local = a]
  /\ sock' = [sock EXCEPT ![s].bound = TRUE]
  /\ UNCHANGED <<queue, net, dups, sent, recv, packet>>

(* The fields are assigned before connectC(), which may throw. *)
connect(s, a) ==
  /\ MayCall(s)
  /\ ConnectFirst => ~sock[s].connected /\ kern[s].local = NoAddr
  /\ sock' = [sock EXCEPT ![s].remote = a, ![s].connected = TRUE]
  /\ \/ kern' = [kern EXCEPT ![s].peer = a, ![s].local = LocalOf(s)]
     \/ UNCHANGED kern
  /\ UNCHANGED <<queue, net, dups, sent, recv, packet>>

(* shutdown(); the Java fields stay.  Windows shuts one direction only. *)
disconnect(s) ==
  /\ MayCall(s)
  /\ kern' = [kern EXCEPT ![s].shut = TRUE]
  /\ UNCHANGED <<sock, queue, net, dups, sent, recv, packet>>

setReuseAddress(s, on) ==
  /\ MayCall(s)
  /\ kern' = [kern EXCEPT ![s].reuse = on]
  /\ UNCHANGED <<sock, queue, net, dups, sent, recv, packet>>

\* Mutant: microseconds are counted in whole seconds.
TimevalRounded(n, unit) ==
  IF unit = "SECONDS" THEN [sec |-> n, usec |-> 0] ELSE [sec |-> n \div 1000000, usec |-> 0]
Timeval(n, unit) ==
  IF unit = "SECONDS" THEN [sec |-> n, usec |-> 0] ELSE [sec |-> 0, usec |-> n]

setTimeout(s, n, unit) ==
  /\ s \in Receivers /\ MayCall(s) /\ ~Refused(Timeval(n, unit))
  /\ kern' = [kern EXCEPT ![s].timed = TimesOut(Timeval(n, unit)), ![s].promised = n # 0]
  /\ UNCHANGED <<sock, queue, net, dups, sent, recv, packet>>

close(s) ==
  /\ MayCall(s)
  /\ sock' = [sock EXCEPT ![s].closed = TRUE]
  /\ UNCHANGED <<kern, queue, net, dups, sent, recv, packet>>

-----------------------------------------------------------------------------
(* send() *)
Emit(s, a) ==
  /\ sent[s] < MaxSent /\ ~kern[s].shut
  /\ kern' = [kern EXCEPT ![s].local = LocalOf(s)]
  /\ net' = net \cup {[from |-> LocalOf(s), to |-> a]}
  /\ sent' = [sent EXCEPT ![s] = @ + 1]
  /\ UNCHANGED <<sock, queue, dups, recv, packet>>

(* On a connected socket the packet's address is not looked at. *)
sendC(s) == kern[s].peer # NoAddr /\ Emit(s, kern[s].peer)
sendToC(s, a) == Emit(s, a)

\* Mutant: a socket that is not connected sends to its remote address, too.
sendToRemote(s, a) ==
  /\ MayCall(s)
  /\ \/ sock[s].connected /\ sendC(s)
     \/ ~sock[s].connected /\ sendToC(s, sock[s].remote)
send(s, a) ==
  /\ MayCall(s)
  /\ \/ sock[s].connected /\ sendC(s)
     \/ ~sock[s].connected /\ sendToC(s, a)

-----------------------------------------------------------------------------
(* receive(packet) *)
receiveBegins(s) ==
  /\ s \in Receivers /\ MayCall(s) /\ ~Receiving(s)
  /\ ConnectFirst /\ sock[s].connected => kern[s].peer # NoAddr
  /\ recv' = [recv EXCEPT ![s] =
       [native |-> IF sock[s].connected THEN "receiveC" ELSE "receiveFromC",
        timed |-> kern[s].timed, promised |-> kern[s].promised]]
  /\ UNCHANGED <<sock, kern, queue, net, dups, sent, packet>>

Leaves(s) == recv' = [recv EXCEPT ![s] = Idle]

\* Mutant: receive() of a connected socket leaves the packet's address.
AddressKept(s, native, from) == IF native = "receiveC" THEN packet[s].address ELSE from
(* receiveFromC() stores the address that the kernel gave.  receiveC() is  *)
(* given none, and receive() sets the remote address of that moment.       *)
AddressSet(s, native, from) == IF native = "receiveC" THEN sock[s].remote ELSE from

receiveReturns(s) ==
  /\ Receiving(s) /\ queue[s] # <<>> /\ Alive(s)
  /\ LET d == Head(queue[s]) IN
       packet' = [packet EXCEPT ![s] =
         [address |-> AddressSet(s, recv[s].native, d.from), sender |-> d.from]]
  /\ queue' = [queue EXCEPT ![s] = Tail(@)]
  /\ Leaves(s)
  /\ UNCHANGED <<sock, kern, net, dups, sent>>

(* After shutdown() Linux returns 0 from an empty buffer, which neither    *)
(* native takes for a failure, and gives no address.                       *)
receiveReturnsNothing(s) ==
  /\ Receiving(s) /\ queue[s] = <<>> /\ kern[s].shut /\ ~Windows
  /\ packet' = [packet EXCEPT ![s] =
       [address |-> AddressSet(s, recv[s].native, Garbage), sender |-> NoAddr]]
  /\ Leaves(s)
  /\ UNCHANGED <<sock, kern, queue, net, dups, sent>>

(* -1: the natives throw and go on to fill the packet; receiveFromC() has  *)
(* no address to store.                                                    *)
Throw(s) ==
  /\ packet' = [packet EXCEPT ![s] =
       [address |-> IF recv[s].native = "receiveC" THEN @.address ELSE Garbage, sender |-> NoAddr]]
  /\ Leaves(s)
  /\ UNCHANGED <<sock, kern, queue, net, dups, sent>>

receiveTimesOut(s) == Receiving(s) /\ recv[s].timed /\ queue[s] = <<>> /\ Throw(s)

(* An error that the network has reported: Linux tells connected sockets,  *)
(* Windows every sender.  On Windows closing ends a receive(), too.        *)
receiveFails(s) ==
  /\ Receiving(s)
  /\ kern[s].peer # NoAddr \/ (Windows /\ (sock[s].closed \/ sent[s] > 0))
  /\ Throw(s)

-----------------------------------------------------------------------------
UNext ==
  \/ \E s \in Socks :
       \/ \E a \in Names : bind(s, a) \/ connect(s, a) \/ send(s, a)
       \/ \E u \in Socks \ {s} : kern[u].local = u /\ (connect(s, u) \/ send(s, u))
       \/ disconnect(s)
       \/ \E on \in BOOLEAN : setReuseAddress(s, on)
       \/ \E n \in Amounts, unit \in Units : setTimeout(s, n, unit)
       \/ receiveBegins(s) \/ receiveReturns(s) \/ receiveReturnsNothing(s)
       \/ receiveTimesOut(s) \/ receiveFails(s)
       \/ close(s)
  \/ \E d \in net : Lose(d) \/ \E s \in Socks : Deliver(d, s)

(* The kernel's timer and its scheduler: a receive() that can go on does.  *)
UFairness ==
  \A s \in Socks :
    WF_uvars(receiveReturns(s) \/ receiveReturnsNothing(s) \/ receiveTimesOut(s))

USpec == UInit /\ [][UNext]_uvars /\ UFairness

-----------------------------------------------------------------------------
UTypeOK ==
  /\ sock \in [Socks -> JavaSocket]
  /\ kern \in [Socks -> KernelSocket]
  /\ \A s \in Socks : queue[s] \in Seq(Datagram) /\ Len(queue[s]) <= MaxQueue
  /\ net \subseteq Datagram /\ dups \in 0 .. MaxDups
  /\ sent \in [Socks -> 0 .. MaxSent]
  /\ recv \in [Socks -> Waiting]
  /\ packet \in [Socks -> [address : Addrs \cup {NoAddr, Garbage}, sender : Addrs \cup {NoAddr}]]

(* receive() names the sender of what it returns, although on a connected  *)
(* socket it asks nobody and sets the address that connect() was given:    *)
(* whatever was in the buffer or under way before.  Callers that connect   *)
(* late, twice or in vain are told a wrong sender.                         *)
AttributedToSender ==
  \A s \in Socks : packet[s].sender # NoAddr => packet[s].address = packet[s].sender

(* A receive() begun after a setTimeout() that was not refused ends.       *)
TimeoutKept ==
  \A s \in Socks : (Receiving(s) /\ recv[s].promised) ~> ~Receiving(s)

=============================================================================
