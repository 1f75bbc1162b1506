--------------------------- MODULE KernelUDPProofs ---------------------------
(***************************************************************************)
(* Proofs about KernelUDP: types on either system, and who sent what a     *)
(* receive() returns, for any number of sockets, datagrams, losses and     *)
(* duplicates.                                                             *)
(***************************************************************************)
EXTENDS KernelUDP, SequenceTheorems, TLAPS

TypeInv == UTypeOK /\ queue \in [Socks -> Seq(Datagram)]

(* With ConnectFirst the peer is set before a datagram can arrive, and is  *)
(* the address that receive() of a connected socket names.                 *)
PeerOf(s) ==
  /\ kern[s].peer # NoAddr => sock[s].connected /\ sock[s].remote = kern[s].peer
  /\ \A i \in 1 .. Len(queue[s]) :
       kern[s].local # NoAddr /\ kern[s].peer \in {NoAddr, queue[s][i].from}
  /\ recv[s].native = "receiveC" => kern[s].peer # NoAddr

UInv == TypeInv /\ (\A s \in Socks : PeerOf(s)) /\ AttributedToSender

-----------------------------------------------------------------------------
(* One field of a record at a time. *)
LEMMA KernFields ==
  ASSUME NEW k \in KernelSocket
  PROVE  /\ \A a \in Addrs \cup {NoAddr} : [k EXCEPT !.local = a] \in KernelSocket
         /\ \A a, b \in Addrs \cup {NoAddr} :
              [k EXCEPT !.peer = a, !.local = b] \in KernelSocket
         /\ [k EXCEPT !.shut = TRUE] \in KernelSocket
         /\ \A b \in BOOLEAN : [k EXCEPT !.reuse = b] \in KernelSocket
         /\ \A b, c \in BOOLEAN : [k EXCEPT !.timed = b, !.promised = c] \in KernelSocket
  BY DEF KernelSocket

LEMMA SockFields ==
  ASSUME NEW j \in JavaSocket
  PROVE  /\ [j EXCEPT !.bound = TRUE] \in JavaSocket
         /\ [j EXCEPT !.closed = TRUE] \in JavaSocket
         /\ \A a \in Addrs : [j EXCEPT !.remote = a, !.connected = TRUE] \in JavaSocket
  BY DEF JavaSocket

LEMMA LocalType ==
  ASSUME TypeInv, NEW s \in Socks
  PROVE  LocalOf(s) \in Addrs
  BY DEF TypeInv, UTypeOK, LocalOf, KernelSocket, Addrs

LEMMA ConnectType ==
  ASSUME UdpAssumption, TypeInv, NEW s \in Socks, NEW a \in Addrs, connect(s, a)
  PROVE  TypeInv'
<1>1. sock' \in [Socks -> JavaSocket]
  <2>1. sock' = [sock EXCEPT ![s] = [sock[s] EXCEPT !.remote = a, !.connected = TRUE]]
    BY DEF connect, TypeInv, UTypeOK
  <2> QED BY <2>1, SockFields DEF TypeInv, UTypeOK
<1>2. kern' \in [Socks -> KernelSocket]
  <2>1. CASE kern' = [kern EXCEPT ![s].peer = a, ![s].local = LocalOf(s)]
    <3>1. kern' = [kern EXCEPT ![s] = [kern[s] EXCEPT !.peer = a, !.local = LocalOf(s)]]
      BY <2>1 DEF TypeInv, UTypeOK
    <3> QED BY <3>1, KernFields, LocalType DEF TypeInv, UTypeOK
  <2>2. CASE UNCHANGED kern
    BY <2>2 DEF TypeInv, UTypeOK
  <2> QED BY <2>1, <2>2 DEF connect
<1> QED BY <1>1, <1>2 DEF connect, TypeInv, UTypeOK

LEMMA EmitType ==
  ASSUME UdpAssumption, TypeInv, NEW s \in Socks, NEW a \in Addrs, Emit(s, a)
  PROVE  TypeInv'
<1>1. kern' \in [Socks -> KernelSocket]
  <2>1. kern' = [kern EXCEPT ![s] = [kern[s] EXCEPT !.local = LocalOf(s)]]
    BY DEF Emit, TypeInv, UTypeOK
  <2> QED BY <2>1, KernFields, LocalType DEF TypeInv, UTypeOK
<1>2. net' \subseteq Datagram
  <2>1. [from |-> LocalOf(s), to |-> a] \in Datagram
    BY LocalType DEF Datagram
  <2> QED BY <2>1 DEF Emit, TypeInv, UTypeOK
<1>3. sent' \in [Socks -> 0 .. MaxSent]
  BY DEF Emit, TypeInv, UTypeOK, UdpAssumption
<1> QED BY <1>1, <1>2, <1>3 DEF Emit, TypeInv, UTypeOK

LEMMA SendType ==
  ASSUME UdpAssumption, TypeInv, NEW s \in Socks, NEW a \in Addrs, send(s, a)
  PROVE  TypeInv'
<1>1. kern[s].peer # NoAddr => kern[s].peer \in Addrs
  BY DEF TypeInv, UTypeOK, KernelSocket
<1> QED BY <1>1, EmitType DEF send, sendC, sendToC

(* Methods that change one field of one record. *)
LEMMA FieldType ==
  ASSUME UdpAssumption, TypeInv, NEW s \in Socks,
         \/ \E a \in Addrs : bind(s, a)
         \/ disconnect(s) \/ close(s)
         \/ \E on \in BOOLEAN : setReuseAddress(s, on)
         \/ \E n \in Amounts, unit \in Units : setTimeout(s, n, unit)
  PROVE  TypeInv'
<1>1. CASE \E a \in Addrs : bind(s, a)
  <2>1. PICK a \in Addrs : bind(s, a)
    BY <1>1
  <2>2. /\ kern' = [kern EXCEPT ![s] = [kern[s] EXCEPT !.local = a]]
        /\ sock' = [sock EXCEPT ![s] = [sock[s] EXCEPT !.bound = TRUE]]
    BY <2>1 DEF bind, TypeInv, UTypeOK
  <2>3. kern' \in [Socks -> KernelSocket] /\ sock' \in [Socks -> JavaSocket]
    BY <2>2, KernFields, SockFields DEF TypeInv, UTypeOK
  <2> QED BY <2>1, <2>3 DEF bind, TypeInv, UTypeOK
<1>2. CASE disconnect(s)
  <2>1. kern' = [kern EXCEPT ![s] = [kern[s] EXCEPT !.shut = TRUE]]
    BY <1>2 DEF disconnect, TypeInv, UTypeOK
  <2>2. kern' \in [Socks -> KernelSocket]
    BY <2>1, KernFields DEF TypeInv, UTypeOK
  <2> QED BY <1>2, <2>2 DEF disconnect, TypeInv, UTypeOK
<1>3. CASE close(s)
  <2>1. sock' = [sock EXCEPT ![s] = [sock[s] EXCEPT !.closed = TRUE]]
    BY <1>3 DEF close, TypeInv, UTypeOK
  <2>2. sock' \in [Socks -> JavaSocket]
    BY <2>1, SockFields DEF TypeInv, UTypeOK
  <2> QED BY <1>3, <2>2 DEF close, TypeInv, UTypeOK
<1>4. CASE \E on \in BOOLEAN : setReuseAddress(s, on)
  <2>1. PICK on \in BOOLEAN : setReuseAddress(s, on)
    BY <1>4
  <2>2. kern' = [kern EXCEPT ![s] = [kern[s] EXCEPT !.reuse = on]]
    BY <2>1 DEF setReuseAddress, TypeInv, UTypeOK
  <2>3. kern' \in [Socks -> KernelSocket]
    BY <2>2, KernFields DEF TypeInv, UTypeOK
  <2> QED BY <2>1, <2>3 DEF setReuseAddress, TypeInv, UTypeOK
<1>5. CASE \E n \in Amounts, unit \in Units : setTimeout(s, n, unit)
  <2>1. PICK n \in Amounts, unit \in Units : setTimeout(s, n, unit)
    BY <1>5
  <2>2. PICK b \in BOOLEAN, c \in BOOLEAN :
          kern' = [kern EXCEPT ![s] = [kern[s] EXCEPT !.timed = b, !.promised = c]]
    <3>1. TimesOut(Timeval(n, unit)) \in BOOLEAN /\ (n # 0) \in BOOLEAN
      BY DEF TimesOut
    <3>2. kern' = [kern EXCEPT ![s] = [kern[s] EXCEPT !.timed = TimesOut(Timeval(n, unit)),
                                                      !.promised = n # 0]]
      BY <2>1 DEF setTimeout, TypeInv, UTypeOK
    <3> QED BY <3>1, <3>2
  <2>3. kern' \in [Socks -> KernelSocket]
    BY <2>2, KernFields DEF TypeInv, UTypeOK
  <2> QED BY <2>1, <2>3 DEF setTimeout, TypeInv, UTypeOK
<1> QED BY <1>1, <1>2, <1>3, <1>4, <1>5

LEMMA DeliverType ==
  ASSUME UdpAssumption, TypeInv, NEW d, NEW s \in Socks, Deliver(d, s)
  PROVE  TypeInv'
<1>1. d \in Datagram /\ queue[s] \in Seq(Datagram) /\ Len(queue[s]) < MaxQueue
  BY DEF Deliver, Accepts, TypeInv, UTypeOK
<1>2. queue' = [queue EXCEPT ![s] = Append(queue[s], d)]
  BY DEF Deliver
<1>3. Append(queue[s], d) \in Seq(Datagram) /\ Len(Append(queue[s], d)) = Len(queue[s]) + 1
  BY <1>1
<1>4. Len(Append(queue[s], d)) <= MaxQueue
  <2>1. Len(queue[s]) \in Nat /\ MaxQueue \in Nat
    BY <1>1 DEF UdpAssumption
  <2> QED BY <1>1, <1>3, <2>1
<1>5. /\ queue' \in [Socks -> Seq(Datagram)]
      /\ \A u \in Socks : queue'[u] \in Seq(Datagram) /\ Len(queue'[u]) <= MaxQueue
  BY <1>2, <1>3, <1>4 DEF TypeInv, UTypeOK
<1>6. net' \subseteq Datagram /\ dups' \in 0 .. MaxDups
  BY DEF Deliver, TypeInv, UTypeOK, UdpAssumption
<1> QED BY <1>5, <1>6 DEF Deliver, TypeInv, UTypeOK

LEMMA LoseType ==
  ASSUME TypeInv, NEW d, Lose(d)
  PROVE  TypeInv'
  BY DEF Lose, TypeInv, UTypeOK

LEMMA BeginsType ==
  ASSUME TypeInv, NEW s \in Socks, receiveBegins(s)
  PROVE  TypeInv'
<1> DEFINE w == [native |-> IF sock[s].connected THEN "receiveC" ELSE "receiveFromC",
                 timed |-> kern[s].timed, promised |-> kern[s].promised]
<1>1. kern[s].timed \in BOOLEAN /\ kern[s].promised \in BOOLEAN
  BY DEF TypeInv, UTypeOK, KernelSocket
<1>2. w \in Waiting
  BY <1>1 DEF Waiting
<1>3. recv' = [recv EXCEPT ![s] = w]
  BY DEF receiveBegins
<1> HIDE DEF w
<1>4. recv' \in [Socks -> Waiting]
  BY <1>2, <1>3 DEF TypeInv, UTypeOK
<1> QED BY <1>4 DEF receiveBegins, TypeInv, UTypeOK

(* A receive() that ends, whatever it stores into its packet. *)
LEMMA PacketType ==
  ASSUME UdpAssumption, TypeInv, NEW s \in Socks, Leaves(s),
         NEW a \in Addrs \cup {NoAddr, Garbage}, NEW b \in Addrs \cup {NoAddr},
         packet' = [packet EXCEPT ![s] = [address |-> a, sender |-> b]],
         UNCHANGED <<sock, kern, net, dups, sent>>,
         \/ queue' = queue
         \/ queue[s] # <<>> /\ queue' = [queue EXCEPT ![s] = Tail(@)]
  PROVE  TypeInv'
<1>1. recv' \in [Socks -> Waiting]
  BY DEF Leaves, Idle, Waiting, TypeInv, UTypeOK
<1>2. packet' \in [Socks -> [address : Addrs \cup {NoAddr, Garbage}, sender : Addrs \cup {NoAddr}]]
  BY DEF TypeInv, UTypeOK
<1>3. /\ queue' \in [Socks -> Seq(Datagram)]
      /\ \A u \in Socks : queue'[u] \in Seq(Datagram) /\ Len(queue'[u]) <= MaxQueue
  <2>1. CASE queue' = queue
    BY <2>1 DEF TypeInv, UTypeOK
  <2>2. CASE queue' = [queue EXCEPT ![s] = Tail(queue[s])] /\ queue[s] # <<>>
    <3>1. queue[s] \in Seq(Datagram) /\ Len(queue[s]) <= MaxQueue
      BY DEF TypeInv, UTypeOK
    <3>2. /\ Tail(queue[s]) \in Seq(Datagram) /\ Len(Tail(queue[s])) = Len(queue[s]) - 1
          /\ Len(queue[s]) \in Nat
      BY <2>2, <3>1, HeadTailProperties
    <3>3. Len(Tail(queue[s])) <= MaxQueue
      BY <3>1, <3>2, UdpAssumption DEF UdpAssumption
    <3>4. \A u \in Socks : queue'[u] = IF u = s THEN Tail(queue[s]) ELSE queue[u]
      BY <2>2 DEF TypeInv
    <3> QED BY <2>2, <3>2, <3>3, <3>4 DEF TypeInv, UTypeOK
  <2> QED BY <2>1, <2>2
<1> QED BY <1>1, <1>2, <1>3 DEF TypeInv, UTypeOK

LEMMA AddressType ==
  ASSUME TypeInv, NEW s \in Socks, NEW from \in Addrs \cup {NoAddr, Garbage}
  PROVE  /\ AddressSet(s, recv[s].native, from) \in Addrs \cup {NoAddr, Garbage}
         /\ packet[s].address \in Addrs \cup {NoAddr, Garbage}
  BY DEF AddressSet, TypeInv, UTypeOK, JavaSocket

LEMMA HeadType ==
  ASSUME TypeInv, NEW s \in Socks, queue[s] # <<>>
  PROVE  /\ Head(queue[s]) \in Datagram /\ Head(queue[s]).from \in Addrs
         /\ Len(queue[s]) \in Nat \ {0} /\ Head(queue[s]) = queue[s][1]
<1>1. queue[s] \in Seq(Datagram)
  BY DEF TypeInv, UTypeOK
<1>2. Head(queue[s]) \in Datagram
  BY <1>1, HeadTailProperties
<1>3. Len(queue[s]) \in Nat \ {0} /\ Head(queue[s]) = queue[s][1]
  BY <1>1
<1> QED BY <1>2, <1>3 DEF Datagram

LEMMA EndsType ==
  ASSUME UdpAssumption, TypeInv, NEW s \in Socks,
         receiveReturns(s) \/ receiveReturnsNothing(s) \/ receiveTimesOut(s) \/ receiveFails(s)
  PROVE  TypeInv'
<1>1. CASE receiveReturns(s)
  <2>1. Head(queue[s]).from \in Addrs
    BY <1>1, HeadType DEF receiveReturns
  <2> QED BY <1>1, <2>1, AddressType, PacketType DEF receiveReturns
<1>2. CASE receiveReturnsNothing(s)
  <2>1. AddressSet(s, recv[s].native, Garbage) \in Addrs \cup {NoAddr, Garbage}
    BY AddressType
  <2> QED BY <1>2, <2>1, PacketType DEF receiveReturnsNothing
<1>3. CASE receiveTimesOut(s) \/ receiveFails(s)
  <2>1. /\ Leaves(s) /\ UNCHANGED <<sock, kern, queue, net, dups, sent>>
        /\ packet' = [packet EXCEPT ![s] =
             [address |-> IF recv[s].native = "receiveC" THEN packet[s].address ELSE Garbage,
              sender |-> NoAddr]]
    BY <1>3 DEF receiveTimesOut, receiveFails, Throw, TypeInv, UTypeOK
  <2>2. (IF recv[s].native = "receiveC" THEN packet[s].address ELSE Garbage)
           \in Addrs \cup {NoAddr, Garbage}
    BY AddressType
  <2> QED BY <2>1, <2>2, PacketType
<1> QED BY <1>1, <1>2, <1>3

LEMMA InitType ==
  ASSUME UdpAssumption, UInit
  PROVE  TypeInv
<1>1. /\ sock \in [Socks -> JavaSocket] /\ kern \in [Socks -> KernelSocket]
      /\ recv \in [Socks -> Waiting]
  BY DEF UInit, JavaSocket, KernelSocket, Waiting, Idle
<1>2. /\ packet \in [Socks -> [address : Addrs \cup {NoAddr, Garbage}, sender : Addrs \cup {NoAddr}]]
  BY DEF UInit, NothingYet
<1>3. <<>> \in Seq(Datagram) /\ Len(<<>>) = 0
  BY EmptySeq
<1>4. queue \in [Socks -> Seq(Datagram)] /\ \A s \in Socks : Len(queue[s]) <= MaxQueue
  BY <1>3 DEF UInit, UdpAssumption
<1>5. net \subseteq Datagram /\ dups \in 0 .. MaxDups /\ sent \in [Socks -> 0 .. MaxSent]
  BY DEF UInit, UdpAssumption
<1> QED BY <1>1, <1>2, <1>4, <1>5 DEF TypeInv, UTypeOK

(* The steps of UNext, with every address that is given one of Addrs. *)
LEMMA StepsAre ==
  ASSUME UNext
  PROVE  \/ \E s \in Socks, a \in Addrs : bind(s, a)
         \/ \E s \in Socks, a \in Addrs : connect(s, a)
         \/ \E s \in Socks, a \in Addrs : send(s, a)
         \/ \E s \in Socks :
              \/ disconnect(s) \/ close(s)
              \/ \E on \in BOOLEAN : setReuseAddress(s, on)
              \/ \E n \in Amounts, unit \in Units : setTimeout(s, n, unit)
         \/ \E s \in Socks : receiveBegins(s)
         \/ \E s \in Socks :
              receiveReturns(s) \/ receiveReturnsNothing(s) \/ receiveTimesOut(s) \/ receiveFails(s)
         \/ \E d \in net : Lose(d) \/ \E s \in Socks : Deliver(d, s)
  BY DEF UNext, Addrs

LEMMA StepType ==
  ASSUME UdpAssumption, TypeInv, [UNext]_uvars
  PROVE  TypeInv'
<1>1. CASE UNCHANGED uvars
  BY <1>1 DEF uvars, TypeInv, UTypeOK
<1>2. CASE UNext
  BY <1>2, StepsAre, ConnectType, SendType, FieldType, BeginsType, EndsType, LoseType, DeliverType
<1> QED BY <1>1, <1>2

LEMMA TypeInvariance == USpec => []TypeInv
<1>1. UInit => TypeInv
  BY UdpAssumption, InitType
<1>2. TypeInv /\ [UNext]_uvars => TypeInv'
  BY UdpAssumption, StepType
<1> QED BY <1>1, <1>2, PTL DEF USpec

(* Every field, buffer and datagram stays of its kind on either system: a  *)
(* buffer holds no more than MaxQueue, and a packet names an address.      *)
THEOREM UdpTypes == USpec => []UTypeOK
<1>1. TypeInv => UTypeOK
  BY DEF TypeInv
<1> QED BY <1>1, TypeInvariance, PTL

-----------------------------------------------------------------------------
LEMMA InitInv ==
  ASSUME UdpAssumption, UInit
  PROVE  UInv
<1>1. \A s \in Socks : PeerOf(s)
  BY DEF UInit, PeerOf, Idle
<1>2. AttributedToSender
  BY DEF UInit, AttributedToSender, NothingYet
<1> QED BY <1>1, <1>2, InitType DEF UInv

(* What becomes of the other sockets, and of a socket whose receive() and  *)
(* packet a step leaves alone.                                             *)
LEMMA OneSocket ==
  ASSUME UInv, TypeInv', NEW s \in Socks, PeerOf(s)',
         \A u \in Socks \ {s} : /\ kern'[u] = kern[u] /\ sock'[u] = sock[u]
                                /\ queue'[u] = queue[u] /\ recv'[u] = recv[u],
         AttributedToSender'
  PROVE  UInv'
  BY DEF UInv, PeerOf

LEMMA BindKeeps ==
  ASSUME UInv, TypeInv', NEW s \in Socks, NEW a \in Addrs, UdpAssumption, bind(s, a)
  PROVE  UInv'
<1>1. a # NoAddr
  BY DEF UdpAssumption, Addrs
<1>2. /\ kern'[s].local = a /\ kern'[s].peer = kern[s].peer
      /\ sock'[s].connected = sock[s].connected /\ sock'[s].remote = sock[s].remote
      /\ \A u \in Socks \ {s} : kern'[u] = kern[u] /\ sock'[u] = sock[u]
      /\ queue' = queue /\ recv' = recv /\ packet' = packet
  BY DEF bind, UInv, TypeInv, UTypeOK, KernelSocket, JavaSocket
<1>3. PeerOf(s)'
  BY <1>1, <1>2 DEF UInv, PeerOf
<1>4. AttributedToSender'
  BY <1>2 DEF UInv, AttributedToSender
<1> QED BY <1>2, <1>3, <1>4, OneSocket

(* An unbound socket's buffer is empty: what comes later is from the peer. *)
LEMMA ConnectKeeps ==
  ASSUME UInv, TypeInv', NEW s \in Socks, NEW a \in Addrs, UdpAssumption, ConnectFirst, connect(s, a)
  PROVE  UInv'
<1>1. kern[s].local = NoAddr /\ ~sock[s].connected
  BY DEF connect
<1>2. kern[s].peer = NoAddr /\ recv[s].native # "receiveC" /\ ~(1 \in 1 .. Len(queue[s]))
  BY <1>1 DEF UInv, PeerOf
<1>3. 1 .. Len(queue[s]) = {}
  <2>1. Len(queue[s]) \in Nat
    BY DEF UInv, TypeInv
  <2> QED BY <1>2, <2>1
<1>4. sock'[s].remote = a /\ sock'[s].connected /\ kern'[s].peer \in {a, NoAddr}
  BY <1>2 DEF connect, UInv, TypeInv, UTypeOK, KernelSocket, JavaSocket
<1>5. /\ \A u \in Socks \ {s} : kern'[u] = kern[u] /\ sock'[u] = sock[u]
      /\ queue' = queue /\ recv' = recv /\ packet' = packet
  BY DEF connect, UInv, TypeInv, UTypeOK
<1>6. PeerOf(s)'
  BY <1>2, <1>3, <1>4, <1>5 DEF PeerOf
<1>7. AttributedToSender'
  BY <1>5 DEF UInv, AttributedToSender
<1> QED BY <1>5, <1>6, <1>7, OneSocket

(* Methods that leave addresses, buffers and receive() alone. *)
LEMMA OtherMethodsKeep ==
  ASSUME UInv, TypeInv', NEW s \in Socks,
         \/ disconnect(s) \/ close(s)
         \/ \E on \in BOOLEAN : setReuseAddress(s, on)
         \/ \E n \in Amounts, unit \in Units : setTimeout(s, n, unit)
  PROVE  UInv'
<1>1. queue' = queue /\ recv' = recv /\ packet' = packet
  BY DEF disconnect, close, setReuseAddress, setTimeout
<1>2. \A u \in Socks : kern'[u].local = kern[u].local /\ kern'[u].peer = kern[u].peer
  <2>1. /\ close(s) => kern' = kern
        /\ disconnect(s) => kern' = [kern EXCEPT ![s].shut = TRUE]
        /\ \A on \in BOOLEAN : setReuseAddress(s, on) => kern' = [kern EXCEPT ![s].reuse = on]
        /\ \A n \in Amounts, unit \in Units : setTimeout(s, n, unit) =>
             \E b, c : kern' = [kern EXCEPT ![s].timed = b, ![s].promised = c]
    BY DEF disconnect, close, setReuseAddress, setTimeout
  <2>2. kern \in [Socks -> KernelSocket]
    BY DEF UInv, TypeInv, UTypeOK
  <2>3. CASE kern' = kern
    BY <2>3
  <2>4. CASE kern' = [kern EXCEPT ![s].shut = TRUE]
    BY <2>2, <2>4 DEF KernelSocket
  <2>5. CASE \E on \in BOOLEAN : kern' = [kern EXCEPT ![s].reuse = on]
    BY <2>2, <2>5 DEF KernelSocket
  <2>6. CASE \E b, c : kern' = [kern EXCEPT ![s].timed = b, ![s].promised = c]
    BY <2>2, <2>6 DEF KernelSocket
  <2> QED BY <2>1, <2>3, <2>4, <2>5, <2>6
<1>3. \A u \in Socks : /\ sock'[u].connected = sock[u].connected
                       /\ sock'[u].remote = sock[u].remote
  <2>1. sock' = sock \/ sock' = [sock EXCEPT ![s].closed = TRUE]
    BY DEF disconnect, close, setReuseAddress, setTimeout
  <2>2. sock \in [Socks -> JavaSocket]
    BY DEF UInv, TypeInv, UTypeOK
  <2> QED BY <2>1, <2>2 DEF JavaSocket
<1> QED BY <1>1, <1>2, <1>3 DEF UInv, PeerOf, AttributedToSender

LEMMA SendKeeps ==
  ASSUME UInv, TypeInv', NEW s \in Socks, NEW a, UdpAssumption, send(s, a)
  PROVE  UInv'
<1>1. /\ kern' = [kern EXCEPT ![s].local = LocalOf(s)]
      /\ sock' = sock /\ queue' = queue /\ recv' = recv /\ packet' = packet
  BY DEF send, sendC, sendToC, Emit
<1>2. LocalOf(s) # NoAddr
  BY LocalType DEF UInv, UdpAssumption, Addrs
<1>3. /\ kern'[s].local # NoAddr /\ kern'[s].peer = kern[s].peer
      /\ \A u \in Socks \ {s} : kern'[u] = kern[u]
  BY <1>1, <1>2 DEF UInv, TypeInv, UTypeOK, KernelSocket
<1>4. PeerOf(s)'
  BY <1>1, <1>3 DEF UInv, PeerOf
<1>5. AttributedToSender'
  BY <1>1 DEF UInv, AttributedToSender
<1> QED BY <1>1, <1>3, <1>4, <1>5, OneSocket

LEMMA BeginsKeeps ==
  ASSUME UInv, TypeInv', NEW s \in Socks, ConnectFirst, receiveBegins(s)
  PROVE  UInv'
<1>1. /\ sock[s].connected => kern[s].peer # NoAddr
      /\ kern' = kern /\ sock' = sock /\ queue' = queue /\ packet' = packet
  BY DEF receiveBegins
<1>2. /\ recv'[s].native = "receiveC" => sock[s].connected
      /\ \A u \in Socks \ {s} : recv'[u] = recv[u]
  BY DEF receiveBegins, UInv, TypeInv, UTypeOK
<1>3. PeerOf(s)'
  BY <1>1, <1>2 DEF UInv, PeerOf
<1>4. AttributedToSender'
  BY <1>1 DEF UInv, AttributedToSender
<1> QED BY <1>1, <1>2, <1>3, <1>4, OneSocket

LEMMA DeliverKeeps ==
  ASSUME UInv, TypeInv', UdpAssumption, NEW d, NEW s \in Socks, Deliver(d, s)
  PROVE  UInv'
<1>1. /\ d \in Datagram /\ queue[s] \in Seq(Datagram) /\ Len(queue[s]) \in Nat
      /\ kern[s].local = d.to /\ kern[s].peer \in {NoAddr, d.from}
  BY DEF Deliver, Accepts, UInv, TypeInv, UTypeOK
<1>2. d.to # NoAddr
  BY <1>1 DEF Datagram, Addrs, UdpAssumption
<1>3. /\ kern' = kern /\ sock' = sock /\ recv' = recv /\ packet' = packet
      /\ queue'[s] = Append(queue[s], d)
      /\ \A u \in Socks \ {s} : queue'[u] = queue[u]
  BY DEF Deliver, UInv, TypeInv
<1>4. \A i \in 1 .. Len(queue'[s]) :
        \/ i \in 1 .. Len(queue[s]) /\ queue'[s][i] = queue[s][i]
        \/ queue'[s][i] = d
  BY <1>1, <1>3, AppendProperties
<1>5. PeerOf(s)'
  BY <1>1, <1>2, <1>3, <1>4 DEF UInv, PeerOf
<1>6. AttributedToSender'
  BY <1>3 DEF UInv, AttributedToSender
<1> QED BY <1>3, <1>5, <1>6, OneSocket

(* receiveFromC() is given the sender; to receiveC() the peer is the only  *)
(* sender there can be, and the remote address is the peer.                *)
LEMMA ReturnsKeeps ==
  ASSUME UInv, TypeInv', NEW s \in Socks, receiveReturns(s)
  PROVE  UInv'
<1> DEFINE d == Head(queue[s])
<1>1. queue[s] \in Seq(Datagram) /\ queue[s] # <<>> /\ TypeInv
  BY DEF receiveReturns, UInv, TypeInv
<1>2. d = queue[s][1] /\ Len(queue[s]) \in Nat \ {0}
  BY <1>1, HeadType
<1>3. \A i \in 1 .. Len(Tail(queue[s])) :
        i + 1 \in 1 .. Len(queue[s]) /\ Tail(queue[s])[i] = queue[s][i + 1]
  BY <1>1, <1>2, HeadTailProperties
<1>4. /\ packet' = [packet EXCEPT ![s] =
           [address |-> AddressSet(s, recv[s].native, d.from), sender |-> d.from]]
      /\ kern' = kern /\ sock' = sock /\ Leaves(s)
      /\ queue' = [queue EXCEPT ![s] = Tail(queue[s])]
  BY DEF receiveReturns
<1> HIDE DEF d
<1>5. AddressSet(s, recv[s].native, d.from) = d.from
  <2>1. 1 \in 1 .. Len(queue[s])
    BY <1>2
  <2>2. kern[s].peer \in {NoAddr, d.from}
    BY <1>2, <2>1 DEF UInv, PeerOf
  <2>3. CASE recv[s].native = "receiveC"
    <3>1. kern[s].peer = d.from /\ sock[s].remote = d.from
      BY <2>2, <2>3 DEF UInv, PeerOf
    <3> QED BY <2>3, <3>1 DEF AddressSet
  <2>4. CASE recv[s].native # "receiveC"
    BY <2>4 DEF AddressSet
  <2> QED BY <2>3, <2>4
<1>6. AttributedToSender'
  <2>1. \A u \in Socks : packet'[u] = IF u = s THEN [address |-> d.from, sender |-> d.from]
                                      ELSE packet[u]
    BY <1>4, <1>5 DEF UInv, TypeInv, UTypeOK
  <2> QED BY <2>1 DEF UInv, AttributedToSender
<1>7. /\ queue'[s] = Tail(queue[s]) /\ recv'[s].native = "none"
      /\ \A u \in Socks \ {s} : queue'[u] = queue[u] /\ recv'[u] = recv[u]
  BY <1>4 DEF Leaves, Idle, UInv, TypeInv, UTypeOK
<1>8. PeerOf(s)'
  BY <1>3, <1>4, <1>7 DEF UInv, PeerOf
<1> QED BY <1>4, <1>6, <1>7, <1>8, OneSocket

(* A receive() that ends without a datagram names no sender. *)
LEMMA NothingKeeps ==
  ASSUME UInv, TypeInv', NEW s \in Socks,
         receiveReturnsNothing(s) \/ receiveTimesOut(s) \/ receiveFails(s)
  PROVE  UInv'
<1>1. kern' = kern /\ sock' = sock /\ queue' = queue /\ Leaves(s)
  BY DEF receiveReturnsNothing, receiveTimesOut, receiveFails, Throw
<1>2. /\ recv'[s].native = "none"
      /\ \A u \in Socks \ {s} : recv'[u] = recv[u]
  BY <1>1 DEF Leaves, Idle, UInv, TypeInv, UTypeOK
<1>3. PeerOf(s)'
  BY <1>1, <1>2 DEF UInv, PeerOf
<1>4. packet'[s].sender = NoAddr /\ \A u \in Socks \ {s} : packet'[u] = packet[u]
  BY DEF receiveReturnsNothing, receiveTimesOut, receiveFails, Throw, UInv, TypeInv, UTypeOK
<1>5. AttributedToSender'
  BY <1>4 DEF UInv, AttributedToSender
<1> QED BY <1>1, <1>2, <1>3, <1>5, OneSocket

LEMMA StepInv ==
  ASSUME UdpAssumption, ConnectFirst, UInv, [UNext]_uvars
  PROVE  UInv'
<1>1. TypeInv'
  BY StepType DEF UInv
<1>2. CASE UNCHANGED uvars
  BY <1>1, <1>2 DEF uvars, UInv, PeerOf, AttributedToSender
<1>3. ASSUME NEW d, Lose(d) PROVE UInv'
  BY <1>1, <1>3 DEF Lose, UInv, PeerOf, AttributedToSender
<1>4. CASE UNext
  BY <1>1, <1>3, <1>4, StepsAre, BindKeeps, ConnectKeeps, SendKeeps, OtherMethodsKeep,
     BeginsKeeps, ReturnsKeeps, NothingKeeps, DeliverKeeps
<1> QED BY <1>2, <1>4

LEMMA Invariance == ConnectFirst => (USpec => []UInv)
<1> SUFFICES ASSUME ConnectFirst PROVE USpec => []UInv
  OBVIOUS
<1>1. UInit => UInv
  BY UdpAssumption, InitInv
<1>2. UInv /\ [UNext]_uvars => UInv'
  BY UdpAssumption, StepInv
<1> QED BY <1>1, <1>2, PTL DEF USpec

(* For callers that connect first and once, receive() names the sender of  *)
(* what it returns, whatever the network loses, duplicates and reorders    *)
(* and whichever socket is closed, shut down or connected meanwhile.       *)
THEOREM SendersAreNamed == ConnectFirst => (USpec => []AttributedToSender)
<1> SUFFICES ASSUME ConnectFirst PROVE USpec => []AttributedToSender
  OBVIOUS
<1>1. UInv => AttributedToSender
  BY DEF UInv
<1> QED BY <1>1, Invariance, PTL

-----------------------------------------------------------------------------
(* The safety half of TimeoutKept: what remains is the kernel's timer.     *)
PromiseIsTimed ==
  \A s \in Socks : /\ kern[s].promised => kern[s].timed
                   /\ recv[s].promised => recv[s].timed

LEMMA StepTimed ==
  ASSUME UdpAssumption, ~Windows, TypeInv, PromiseIsTimed, [UNext]_uvars
  PROVE  PromiseIsTimed'
<1> USE DEF PromiseIsTimed
<1>1. kern \in [Socks -> KernelSocket] /\ recv \in [Socks -> Waiting]
  BY DEF TypeInv, UTypeOK
<1>2. CASE kern' = kern /\ recv' = recv
  BY <1>2
<1>3. ASSUME NEW s \in Socks, Leaves(s), kern' = kern PROVE PromiseIsTimed'
  BY <1>1, <1>3 DEF Leaves, Idle
<1>4. ASSUME NEW s \in Socks, recv' = recv,
             \/ \E a : kern' = [kern EXCEPT ![s].local = a]
             \/ \E a, b : kern' = [kern EXCEPT ![s].peer = a, ![s].local = b]
             \/ kern' = [kern EXCEPT ![s].shut = TRUE]
             \/ \E on : kern' = [kern EXCEPT ![s].reuse = on]
      PROVE  PromiseIsTimed'
  <2>1. \A u \in Socks : kern'[u].promised = kern[u].promised /\ kern'[u].timed = kern[u].timed
    <3>1. CASE \E a : kern' = [kern EXCEPT ![s].local = a]
      BY <1>1, <3>1 DEF KernelSocket
    <3>2. CASE \E a, b : kern' = [kern EXCEPT ![s].peer = a, ![s].local = b]
      BY <1>1, <3>2 DEF KernelSocket
    <3>3. CASE kern' = [kern EXCEPT ![s].shut = TRUE]
      BY <1>1, <3>3 DEF KernelSocket
    <3>4. CASE \E on : kern' = [kern EXCEPT ![s].reuse = on]
      BY <1>1, <3>4 DEF KernelSocket
    <3> QED BY <1>4, <3>1, <3>2, <3>3, <3>4
  <2> QED BY <1>4, <2>1
<1>5. ASSUME NEW s \in Socks, NEW n \in Amounts, NEW unit \in Units, setTimeout(s, n, unit)
      PROVE  PromiseIsTimed'
  <2> DEFINE b == TimesOut(Timeval(n, unit))
  <2>1. n # 0 => b
    BY DEF TimesOut, Timeval
  <2>2. kern' = [kern EXCEPT ![s].timed = b, ![s].promised = n # 0] /\ recv' = recv
    BY <1>5 DEF setTimeout
  <2> HIDE DEF b
  <2>3. /\ kern'[s].timed = b /\ (kern'[s].promised <=> n # 0)
        /\ \A u \in Socks \ {s} : kern'[u] = kern[u]
    BY <1>1, <2>2 DEF KernelSocket
  <2> QED BY <2>1, <2>2, <2>3
<1>6. ASSUME NEW s \in Socks, receiveBegins(s) PROVE PromiseIsTimed'
  <2>1. kern' = kern /\ recv'[s].timed = kern[s].timed /\ recv'[s].promised = kern[s].promised
    BY <1>1, <1>6 DEF receiveBegins
  <2>2. \A u \in Socks \ {s} : recv'[u] = recv[u]
    BY <1>1, <1>6 DEF receiveBegins
  <2> QED BY <2>1, <2>2
<1>7. ASSUME NEW s \in Socks, NEW a, bind(s, a) \/ connect(s, a) \/ send(s, a)
      PROVE  PromiseIsTimed'
  <2>1. recv' = recv
    BY <1>7 DEF bind, connect, send, sendC, sendToC, Emit
  <2>2. \/ kern' = kern \/ \E b : kern' = [kern EXCEPT ![s].local = b]
        \/ \E b, c : kern' = [kern EXCEPT ![s].peer = b, ![s].local = c]
    BY <1>7 DEF bind, connect, send, sendC, sendToC, Emit
  <2> QED BY <1>2, <1>4, <2>1, <2>2
<1>8. ASSUME NEW s \in Socks, disconnect(s) \/ close(s) \/ \E on \in BOOLEAN : setReuseAddress(s, on)
      PROVE  PromiseIsTimed'
  <2>1. recv' = recv
    BY <1>8 DEF disconnect, close, setReuseAddress
  <2>2. \/ kern' = kern \/ kern' = [kern EXCEPT ![s].shut = TRUE]
        \/ \E on : kern' = [kern EXCEPT ![s].reuse = on]
    BY <1>8 DEF disconnect, close, setReuseAddress
  <2> QED BY <1>2, <1>4, <2>1, <2>2
<1>9. ASSUME NEW s \in Socks,
             receiveReturns(s) \/ receiveReturnsNothing(s) \/ receiveTimesOut(s) \/ receiveFails(s)
      PROVE  PromiseIsTimed'
  <2>1. kern' = kern /\ Leaves(s)
    BY <1>9 DEF receiveReturns, receiveReturnsNothing, receiveTimesOut, receiveFails, Throw
  <2> QED BY <1>3, <2>1
<1>10. ASSUME NEW d, Lose(d) \/ \E s \in Socks : Deliver(d, s) PROVE PromiseIsTimed'
  BY <1>2, <1>10 DEF Lose, Deliver
<1>11. CASE UNCHANGED uvars
  BY <1>2, <1>11 DEF uvars
<1> HIDE DEF PromiseIsTimed
<1> QED BY <1>5, <1>6, <1>7, <1>8, <1>9, <1>10, <1>11, StepsAre

(* On Linux a setTimeout() that was not refused has asked the kernel for a *)
(* timeout, and a receive() begun since waits with one: the structure that *)
(* setTimeout() fills rounds nothing away.  On Windows it is not so.       *)
THEOREM PromisesAreTimed == ~Windows => (USpec => []PromiseIsTimed)
<1> SUFFICES ASSUME ~Windows PROVE USpec => []PromiseIsTimed
  OBVIOUS
<1>1. UInit => PromiseIsTimed
  BY DEF UInit, PromiseIsTimed, Idle
<1>2. TypeInv /\ PromiseIsTimed /\ [UNext]_uvars => PromiseIsTimed'
  BY UdpAssumption, StepTimed
<1> QED BY <1>1, <1>2, TypeInvariance, PTL DEF USpec

=============================================================================
