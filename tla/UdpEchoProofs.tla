---------------------------- MODULE UdpEchoProofs ----------------------------
(***************************************************************************)
(* Proofs about UdpEcho: the echo test keeps the rules of KernelUDP, and   *)
(* every request is answered once to who asked, for any number of clients, *)
(* losses and duplicates and on either system.                             *)
(***************************************************************************)
EXTENDS UdpEcho, KernelUDPProofs, HostAddrProofs

EPcs == {"new", "send", "receive", "receiving", "close", "returned", "threw"}

OwnTypes ==
  /\ main \in {"bind", "submit", "get", "shutdown", "left"}
  /\ pc \in [Socks -> EPcs]
  /\ heard \in [Clients -> Nat] /\ answered \in [Clients -> Nat]
  /\ lost \subseteq Clients

(* Nobody connects; a client's address is the kernel's choice, the server  *)
(* is bound before anything is submitted.                                  *)
Unconnected(s) ==
  /\ ~sock[s].connected /\ kern[s].peer = NoAddr /\ recv[s].native # "receiveC"
  /\ kern[s].local \in {NoAddr, IF s = Server THEN ServerIp ELSE s}

Started ==
  IF main \in {"bind", "left"} THEN \A t \in Socks : pc[t] = "new"
                               ELSE kern[Server].local = ServerIp

(* A client that has sent: the kernel has named it like its socket. *)
Known(c) == c \in Clients /\ kern[c].local = c

Routed(d) ==
  \/ d.from = ServerIp /\ d.to \in Clients
  \/ Known(d.from) /\ d.to = ServerIp

RoutesInv ==
  /\ \A d \in net : Routed(d)
  /\ \A i \in 1 .. Len(queue[Server]) : Known(queue[Server][i].from)
  /\ pc[Server] = "send" =>
       Known(packet[Server].sender) /\ packet[Server].address = packet[Server].sender

EInv ==
  /\ TypeInv /\ OwnTypes /\ (\A s \in Socks : Unconnected(s)) /\ Started /\ RoutesInv
  /\ OneAnswerPerRequest

-----------------------------------------------------------------------------
LEMMA ServerAddress ==
  /\ Reached(hostToInt(ServerIp)) = ServerIp
  /\ ServerIp \in Names /\ ServerIp # NoAddr /\ ServerIp \notin Socks
  /\ Server \in Socks /\ NoAddr \notin Socks
  /\ Clients = Socks \ {Server}
<1>1. Reached(hostToInt(ServerIp)) = ServerIp
  BY RoundTrip, EchoAssumption DEF Reached, EchoAssumption
<1> QED BY <1>1, UdpAssumption, EchoAssumption DEF UdpAssumption, EchoAssumption, Clients

(* The local address of who sends. *)
LEMMA SenderAddress ==
  ASSUME EInv, NEW s \in Socks, s = Server => kern[Server].local = ServerIp
  PROVE  LocalOf(s) = IF s = Server THEN ServerIp ELSE s
  BY ServerAddress DEF EInv, Unconnected, LocalOf

(* A packet that the server has received is answered to one who has sent. *)
LEMMA AddresseeKnown ==
  ASSUME EInv, pc[Server] = "send"
  PROVE  /\ Known(Addressee) /\ Addressee = packet[Server].sender
         /\ Addressee \in Socks \ {Server}
         /\ kern[Server].local = ServerIp
  BY ServerAddress DEF EInv, RoutesInv, Addressee, Started, Known, Clients

-----------------------------------------------------------------------------
(* Refinement: what the tasks do with their sockets are steps of KernelUDP. *)
LEMMA TasksUseSockets ==
  ASSUME EInv, [ENext]_evars
  PROVE  [UNext]_uvars
<1>1. CASE UNCHANGED evars
  BY <1>1 DEF evars
<1>2. CASE MainNext
  BY <1>2, ServerAddress
     DEF MainNext, MainBinds, MainBindThrows, MainSubmits, MainGets, UNext
<1>3. CASE ServerNext
  <2>1. CASE ServerAnswers
    <3>1. send(Server, Addressee) /\ pc[Server] = "send"
      BY <2>1 DEF ServerAnswers, Step
    <3>2. Addressee \in Socks \ {Server} /\ kern[Addressee].local = Addressee
      BY <3>1, AddresseeKnown DEF Known
    <3> QED BY <3>1, <3>2, ServerAddress DEF UNext
  <2>2. CASE ServerNext /\ ~ServerAnswers
    BY <2>2, ServerAddress
       DEF ServerNext, ServerReceives, ServerGetsRequest, ServerReceiveThrows, ServerSendThrows,
           Threw, UNext
  <2> QED BY <1>3, <2>1, <2>2
<1>4. ASSUME NEW c \in Clients, ClientNext(c) PROVE [UNext]_uvars
  BY <1>4, ServerAddress
     DEF ClientNext, ClientSends, ClientSendThrows, ClientReceives, ClientGetsAnswer,
         ClientReceiveThrows, ClientCloses, Threw, UNext
<1>5. CASE \E d \in net : NetworkLoses(d) \/ \E s \in Socks : NetworkDelivers(d, s)
  BY <1>5 DEF NetworkLoses, NetworkDelivers, UNext
<1> QED BY <1>1, <1>2, <1>3, <1>4, <1>5 DEF ENext

-----------------------------------------------------------------------------
(* What every step that the tasks make with a socket keeps. *)
Kept ==
  /\ \A s \in Socks : Unconnected(s)'
  /\ \A c : Known(c) => Known(c)'
  /\ kern[Server].local = ServerIp => kern'[Server].local = ServerIp

LEMMA KernKept ==
  ASSUME EInv, sock' = sock \/ (\E s \in Socks : sock' = [sock EXCEPT ![s].closed = TRUE]),
         kern' = kern,
         \A s \in Socks : recv'[s].native \in {recv[s].native, "none", "receiveFromC"}
  PROVE  Kept
<1>1. \A s \in Socks : sock'[s].connected = sock[s].connected
  <2>1. sock \in [Socks -> JavaSocket]
    BY DEF EInv, TypeInv, UTypeOK
  <2>2. CASE sock' = sock
    BY <2>2
  <2>3. CASE \E s \in Socks : sock' = [sock EXCEPT ![s].closed = TRUE]
    BY <2>1, <2>3 DEF JavaSocket
  <2> QED BY <2>2, <2>3
<1> QED BY <1>1 DEF EInv, Unconnected, Known, Kept

LEMMA BindKept ==
  ASSUME EInv, bind(Server, ServerIp)
  PROVE  Kept /\ kern'[Server].local = ServerIp
<1>1. /\ \A s \in Socks : /\ sock'[s].connected = sock[s].connected
                          /\ kern'[s].peer = kern[s].peer
      /\ \A s \in Socks \ {Server} : kern'[s] = kern[s]
      /\ kern'[Server].local = ServerIp /\ recv' = recv
  BY ServerAddress DEF bind, EInv, TypeInv, UTypeOK, JavaSocket, KernelSocket
<1> QED BY <1>1, ServerAddress DEF EInv, Unconnected, Known, Kept

LEMMA SendKept ==
  ASSUME EInv, NEW s \in Socks, NEW a, send(s, a), s = Server => kern[Server].local = ServerIp
  PROVE  LET own == IF s = Server THEN ServerIp ELSE s IN
         /\ Kept /\ kern'[s].local = own
         /\ net' = net \cup {[from |-> own, to |-> a]}
         /\ UNCHANGED <<sock, queue, dups, recv, packet>>
<1> DEFINE own == IF s = Server THEN ServerIp ELSE s
<1>1. LocalOf(s) = own
  BY SenderAddress
<1>2. Emit(s, a)
  BY DEF send, sendToC, EInv, Unconnected
<1> HIDE DEF own
<1>3. /\ kern' = [kern EXCEPT ![s].local = own]
      /\ net' = net \cup {[from |-> own, to |-> a]}
      /\ UNCHANGED <<sock, queue, dups, recv, packet>>
  BY <1>1, <1>2 DEF Emit
<1>4. /\ kern'[s].local = own /\ kern'[s].peer = kern[s].peer
      /\ \A u \in Socks \ {s} : kern'[u] = kern[u]
  BY <1>3 DEF EInv, TypeInv, UTypeOK, KernelSocket
<1>5. Kept
  BY <1>3, <1>4, ServerAddress DEF own, EInv, Unconnected, Known, Kept
<1> QED BY <1>3, <1>4, <1>5 DEF own

(* receive() begins unconnected, so every receive() is receiveFromC(). *)
LEMMA BeginsKept ==
  ASSUME EInv, NEW s \in Socks, receiveBegins(s)
  PROVE  Kept
<1>1. \A u \in Socks : recv'[u].native \in {recv[u].native, "receiveFromC"}
  BY DEF receiveBegins, EInv, Unconnected, TypeInv, UTypeOK
<1> QED BY <1>1, KernKept DEF receiveBegins

LEMMA EndsKept ==
  ASSUME EInv, NEW s \in Socks, receiveReturns(s) \/ receiveFails(s)
  PROVE  Kept /\ \A u \in Socks \ {s} : packet'[u] = packet[u]
<1>1. sock' = sock /\ kern' = kern /\ Leaves(s)
  BY DEF receiveReturns, receiveFails, Throw
<1>2. \A u \in Socks : recv'[u].native \in {recv[u].native, "none"}
  BY <1>1 DEF Leaves, Idle, EInv, TypeInv, UTypeOK
<1>3. \A u \in Socks \ {s} : packet'[u] = packet[u]
  BY DEF receiveReturns, receiveFails, Throw, EInv, TypeInv, UTypeOK
<1> QED BY <1>1, <1>2, <1>3, KernKept

LEMMA NetworkKept ==
  ASSUME EInv, NEW d, Lose(d) \/ \E s \in Socks : Deliver(d, s)
  PROVE  Kept
  BY KernKept DEF Lose, Deliver

-----------------------------------------------------------------------------
(* A step keeps the invariant when it keeps its parts.                     *)
LEMMA Together ==
  ASSUME EInv, [ENext]_evars, OwnTypes', Kept, Started', RoutesInv', OneAnswerPerRequest'
  PROVE  EInv'
<1>1. TypeInv'
  BY TasksUseSockets, StepType, UdpAssumption DEF EInv
<1> QED BY <1>1 DEF EInv, Kept

(* A task's place changes and nothing else that the parts look at. *)
LEMMA TaskMoves ==
  ASSUME EInv, [ENext]_evars, Kept, NEW t \in Socks, NEW to \in EPcs,
         pc[t] # "new", pc' = [pc EXCEPT ![t] = to], main' = main,
         UNCHANGED <<heard, answered, lost>>,
         \A d \in net' : d \in net \/ Routed(d)', queue'[Server] = queue[Server],
         t = Server => /\ to # "send"
                       /\ \A c \in Clients : to = "threw" /\ packet'[Server].sender = c
                            <=> pc[t] \in {"send", "threw"} /\ packet[Server].sender = c,
         t # Server => packet'[Server] = packet[Server]
  PROVE  EInv'
<1>1. pc'[t] = to /\ \A u \in Socks \ {t} : pc'[u] = pc[u]
  BY DEF EInv, OwnTypes
<1>2. OwnTypes'
  BY DEF EInv, OwnTypes
<1>3. Started'
  BY DEF EInv, Started, Kept
<1>4. RoutesInv'
  <2>1. \A d \in net' : Routed(d)'
    BY DEF EInv, RoutesInv, Routed, Kept
  <2>2. (\A i \in 1 .. Len(queue[Server]) : Known(queue[Server][i].from))'
    BY DEF EInv, RoutesInv, Kept, Known
  <2>3. (pc[Server] = "send" =>
          Known(packet[Server].sender) /\ packet[Server].address = packet[Server].sender)'
    BY <1>1, ServerAddress DEF EInv, RoutesInv, Kept, Known
  <2> QED BY <2>1, <2>2, <2>3 DEF RoutesInv
<1>5. OneAnswerPerRequest'
  <2>1. ASSUME NEW c \in Clients
        PROVE  (pc'[Server] \in {"send", "threw"} /\ packet'[Server].sender = c)
                 <=> (pc[Server] \in {"send", "threw"} /\ packet[Server].sender = c)
    BY <1>1, ServerAddress
  <2> QED BY <2>1 DEF EInv, OneAnswerPerRequest
<1> QED BY <1>2, <1>3, <1>4, <1>5, Together

LEMMA MainKeeps ==
  ASSUME EInv, [ENext]_evars, MainNext
  PROVE  EInv'
<1>1. heard' = heard /\ answered' = answered /\ lost' = lost
  BY DEF MainNext, MainBinds, MainBindThrows, MainSubmits, MainGets, History
<1>2. CASE MainBinds
  <2>1. /\ main = "bind" /\ main' = "submit" /\ bind(Server, ServerIp) /\ pc' = pc
        /\ net' = net /\ queue' = queue /\ packet' = packet
    BY <1>2, ServerAddress DEF MainBinds, bind
  <2>2. Kept /\ kern'[Server].local = ServerIp
    BY <2>1, BindKept
  <2>3. OwnTypes' /\ Started'
    BY <1>1, <2>1, <2>2 DEF EInv, OwnTypes, Started
  <2>4. RoutesInv'
    BY <2>1, <2>2 DEF EInv, RoutesInv, Routed, Kept
  <2>5. OneAnswerPerRequest'
    BY <1>1, <2>1 DEF EInv, OneAnswerPerRequest
  <2> QED BY <2>2, <2>3, <2>4, <2>5, Together
<1>3. CASE ~MainBinds
  <2>1. UNCHANGED uvars
    BY <1>3 DEF MainNext, MainBindThrows, MainSubmits, MainGets
  <2>2. kern' = kern /\ sock' = sock /\ recv' = recv /\ net' = net /\ queue' = queue /\ packet' = packet
    BY <2>1 DEF uvars
  <2>3. Kept
    BY <2>2, KernKept
  <2>4. OwnTypes' /\ Started'
    BY <1>1, <1>3, <2>2
       DEF MainNext, MainBindThrows, MainSubmits, MainGets, Goto, Step, EInv, OwnTypes, EPcs, Started
  <2>5. pc'[Server] = pc[Server] \/ (pc[Server] = "new" /\ pc'[Server] = "receive")
    BY <1>3, ServerAddress
       DEF MainNext, MainBindThrows, MainSubmits, MainGets, Goto, Step, EInv, OwnTypes
  <2>6. RoutesInv'
    BY <2>2, <2>3, <2>5 DEF EInv, RoutesInv, Routed, Kept
  <2>7. OneAnswerPerRequest'
    BY <1>1, <2>2, <2>5 DEF EInv, OneAnswerPerRequest
  <2> QED BY <2>3, <2>4, <2>6, <2>7, Together
<1> QED BY <1>2, <1>3

LEMMA NetworkKeeps ==
  ASSUME EInv, [ENext]_evars, NEW d \in net,
         NetworkLoses(d) \/ \E s \in Socks : NetworkDelivers(d, s)
  PROVE  EInv'
<1>1. Lose(d) \/ \E s \in Socks : Deliver(d, s)
  BY DEF NetworkLoses, NetworkDelivers
<1>2. Kept
  BY <1>1, NetworkKept
<1>3. /\ UNCHANGED <<main, pc, heard, answered>> /\ lost' \subseteq Clients
      /\ packet' = packet /\ kern' = kern /\ net' \subseteq net
  BY DEF NetworkLoses, NetworkDelivers, History, Lose, Deliver, EInv, OwnTypes
<1>4. OwnTypes' /\ Started' /\ OneAnswerPerRequest'
  BY <1>3 DEF EInv, OwnTypes, Started, OneAnswerPerRequest
<1>5. \A i \in 1 .. Len(queue'[Server]) : Known(queue'[Server][i].from)
  <2>1. queue[Server] \in Seq(Datagram) /\ queue \in [Socks -> Seq(Datagram)]
    BY ServerAddress DEF EInv, TypeInv
  <2>2. CASE queue'[Server] = queue[Server]
    BY <2>2 DEF EInv, RoutesInv
  <2>3. CASE Deliver(d, Server)
    <3>1. d \in Datagram /\ queue'[Server] = Append(queue[Server], d)
      BY <2>1, <2>3, ServerAddress DEF Deliver, EInv, TypeInv, UTypeOK
    <3>2. \A i \in 1 .. Len(queue'[Server]) :
            \/ i \in 1 .. Len(queue[Server]) /\ queue'[Server][i] = queue[Server][i]
            \/ queue'[Server][i] = d
      BY <2>1, <3>1, AppendProperties
    <3>3. d.to \in Addrs /\ d.to = kern[Server].local
      BY <2>3, <3>1 DEF Deliver, Accepts, Datagram
    <3>4. d.to = ServerIp
      BY <3>3, ServerAddress, UdpAssumption DEF EInv, Unconnected, Addrs, UdpAssumption
    <3>5. Known(d.from)
      BY <3>4, ServerAddress DEF EInv, RoutesInv, Routed
    <3> QED BY <3>2, <3>5 DEF EInv, RoutesInv
  <2>4. CASE \E s \in Socks \ {Server} : Deliver(d, s)
    BY <2>1, <2>2, <2>4 DEF Deliver
  <2>5. CASE Lose(d)
    BY <2>2, <2>5 DEF Lose
  <2> QED BY <1>1, <2>3, <2>4, <2>5
<1>6. RoutesInv'
  BY <1>2, <1>3, <1>5 DEF EInv, RoutesInv, Routed, Kept
<1> QED BY <1>2, <1>4, <1>6, Together

-----------------------------------------------------------------------------
LEMMA ServerReceivesKeeps ==
  ASSUME EInv, [ENext]_evars, ServerReceives \/ ServerSendThrows
  PROVE  EInv'
<1>1. CASE ServerReceives
  <2>1. Kept /\ net' = net /\ queue' = queue /\ packet' = packet
    BY <1>1, BeginsKept, ServerAddress DEF ServerReceives, receiveBegins
  <2>2. /\ pc[Server] = "receive" /\ pc' = [pc EXCEPT ![Server] = "receiving"]
        /\ main' = main /\ UNCHANGED <<heard, answered, lost>>
    BY <1>1 DEF ServerReceives, Step, Goto, History
  <2> QED BY <2>1, <2>2, TaskMoves, ServerAddress DEF EPcs
<1>2. CASE ServerSendThrows
  <2>1. /\ pc[Server] = "send" /\ pc' = [pc EXCEPT ![Server] = "threw"]
        /\ main' = main /\ UNCHANGED <<heard, answered, lost>>
        /\ kern' = kern /\ sock' = sock /\ recv' = recv
        /\ net' = net /\ queue' = queue /\ packet' = packet
    BY <1>2 DEF ServerSendThrows, Threw, Step, Goto, History, uvars
  <2>2. Kept
    BY <2>1, KernKept
  <2> QED BY <2>1, <2>2, TaskMoves, ServerAddress DEF EPcs
<1> QED BY <1>1, <1>2

LEMMA ServerReceiveThrowsKeeps ==
  ASSUME EInv, [ENext]_evars, ServerReceiveThrows
  PROVE  EInv'
<1>1. Kept /\ net' = net /\ queue' = queue
  BY EndsKept, ServerAddress DEF ServerReceiveThrows, receiveFails, Throw
<1>2. /\ pc[Server] = "receiving" /\ pc' = [pc EXCEPT ![Server] = "threw"]
      /\ main' = main /\ UNCHANGED <<heard, answered, lost>>
  BY DEF ServerReceiveThrows, Step, Goto, History
<1>3. packet'[Server].sender = NoAddr
  BY ServerAddress DEF ServerReceiveThrows, receiveFails, Throw, EInv, TypeInv, UTypeOK
<1>4. \A c \in Clients : packet'[Server].sender # c
  BY <1>3, ServerAddress
<1> QED BY <1>1, <1>2, <1>4, TaskMoves, ServerAddress DEF EPcs

(* A request comes from a client that has sent, and its packet says so. *)
LEMMA ServerGetsRequestKeeps ==
  ASSUME EInv, [ENext]_evars, ServerGetsRequest
  PROVE  EInv'
<1> DEFINE c == Head(queue[Server]).from
           p == packet'[Server]
<1>1. receiveReturns(Server) /\ queue[Server] # <<>> /\ TypeInv /\ queue[Server] \in Seq(Datagram)
  BY ServerAddress DEF ServerGetsRequest, receiveReturns, EInv, TypeInv
<1>2. c = queue[Server][1].from /\ Len(queue[Server]) \in Nat \ {0}
  BY <1>1, HeadType, ServerAddress
<1>3. Known(c) /\ c \in Clients
  <2>1. 1 \in 1 .. Len(queue[Server])
    BY <1>2
  <2> QED BY <1>2, <2>1 DEF EInv, RoutesInv, Known
<1>4. packet' = [packet EXCEPT ![Server] = [address |-> c, sender |-> c]]
  <2>1. AddressSet(Server, recv[Server].native, c) = c
    BY ServerAddress DEF EInv, Unconnected, AddressSet
  <2> QED BY <1>1, <2>1 DEF receiveReturns
<1> HIDE DEF c
<1>5. p.address = c /\ p.sender = c
  BY <1>4, ServerAddress DEF EInv, TypeInv, UTypeOK
<1>6. /\ pc[Server] = "receiving" /\ pc' = [pc EXCEPT ![Server] = "send"] /\ main' = main
      /\ heard' = [heard EXCEPT ![c] = @ + 1] /\ answered' = answered /\ lost' = lost
      /\ net' = net
  BY <1>5 DEF ServerGetsRequest, receiveReturns, Step, Goto
<1>7. /\ pc'[Server] = "send" /\ heard[c] \in Nat /\ answered[c] \in Nat
      /\ \A u \in Clients : heard'[u] = IF u = c THEN heard[c] + 1 ELSE heard[u]
  BY <1>3, <1>6, ServerAddress DEF EInv, OwnTypes
<1>8. Kept
  BY <1>1, EndsKept, ServerAddress
<1>9. OwnTypes' /\ Started'
  <2>1. OwnTypes'
    BY <1>3, <1>6, <1>7 DEF EInv, OwnTypes, EPcs
  <2>2. main \notin {"bind", "left"}
    BY <1>6, ServerAddress DEF EInv, Started
  <2> QED BY <1>6, <1>8, <2>1, <2>2 DEF EInv, Started, Kept
<1>10. RoutesInv'
  <2>1. (\A i \in 1 .. Len(queue[Server]) : Known(queue[Server][i].from))'
    <3>1. queue'[Server] = Tail(queue[Server])
      BY <1>1, ServerAddress DEF receiveReturns, EInv, TypeInv
    <3>2. \A i \in 1 .. Len(Tail(queue[Server])) :
            i + 1 \in 1 .. Len(queue[Server]) /\ Tail(queue[Server])[i] = queue[Server][i + 1]
      BY <1>1, <1>2, HeadTailProperties
    <3> QED BY <1>8, <3>1, <3>2 DEF EInv, RoutesInv, Kept, Known
  <2>2. \A d \in net' : Routed(d)'
    BY <1>6, <1>8 DEF EInv, RoutesInv, Routed, Kept
  <2>3. (pc[Server] = "send" =>
           Known(packet[Server].sender) /\ packet[Server].address = packet[Server].sender)'
    BY <1>3, <1>5, <1>8 DEF Kept, Known
  <2> QED BY <2>1, <2>2, <2>3 DEF RoutesInv
<1>11. OneAnswerPerRequest'
  <2> SUFFICES ASSUME NEW u \in Clients
               PROVE  heard'[u] = answered[u] + IF p.sender = u THEN 1 ELSE 0
    BY <1>6, <1>7 DEF OneAnswerPerRequest
  <2>1. heard[u] = answered[u] + 0 /\ answered[u] \in Nat
    BY <1>6 DEF EInv, OneAnswerPerRequest, OwnTypes
  <2> HIDE DEF p
  <2> QED BY <1>5, <1>7, <2>1
<1> QED BY <1>8, <1>9, <1>10, <1>11, Together

LEMMA ServerAnswersKeeps ==
  ASSUME EInv, [ENext]_evars, ServerAnswers
  PROVE  EInv'
<1> DEFINE a == Addressee
<1>1. pc[Server] = "send" /\ send(Server, a)
  BY DEF ServerAnswers, Step
<1>2. /\ Known(a) /\ a \in Clients /\ a = packet[Server].sender
      /\ kern[Server].local = ServerIp
  BY <1>1, AddresseeKnown, ServerAddress
<1>3. /\ pc' = [pc EXCEPT ![Server] = "receive"] /\ main' = main
      /\ answered' = [answered EXCEPT ![a] = @ + 1] /\ heard' = heard /\ lost' = lost
  BY DEF ServerAnswers, Step, Goto
<1> HIDE DEF a
<1>4. /\ Kept /\ net' = net \cup {[from |-> ServerIp, to |-> a]}
      /\ queue' = queue /\ packet' = packet
  BY <1>1, <1>2, SendKept, ServerAddress
<1>5. /\ pc'[Server] = "receive" /\ heard[a] \in Nat /\ answered[a] \in Nat
      /\ \A u \in Clients : answered'[u] = IF u = a THEN answered[a] + 1 ELSE answered[u]
  BY <1>2, <1>3, ServerAddress DEF EInv, OwnTypes
<1>6. OwnTypes' /\ Started'
  <2>1. OwnTypes'
    <3>1. answered' \in [Clients -> Nat]
      <4>1. answered[a] + 1 \in Nat /\ answered \in [Clients -> Nat]
        BY <1>5 DEF EInv, OwnTypes
      <4> QED BY <1>3, <4>1
    <3>2. pc' \in [Socks -> EPcs]
      BY <1>3 DEF EInv, OwnTypes, EPcs
    <3> QED BY <1>3, <3>1, <3>2 DEF EInv, OwnTypes
  <2>2. main \notin {"bind", "left"}
    BY <1>1, ServerAddress DEF EInv, Started
  <2> QED BY <1>3, <1>4, <2>1, <2>2 DEF EInv, Started, Kept
<1>7. RoutesInv'
  <2>1. (\A i \in 1 .. Len(queue[Server]) : Known(queue[Server][i].from))'
    BY <1>4 DEF EInv, RoutesInv, Kept, Known
  <2>2. \A d \in net' : Routed(d)'
    BY <1>2, <1>4 DEF EInv, RoutesInv, Routed, Kept
  <2> QED BY <1>5, <2>1, <2>2 DEF RoutesInv
<1>8. OneAnswerPerRequest'
  <2> SUFFICES ASSUME NEW u \in Clients PROVE heard[u] = answered'[u] + 0
    BY <1>3, <1>5 DEF OneAnswerPerRequest
  <2>1. heard[u] = answered[u] + (IF u = a THEN 1 ELSE 0) /\ answered[u] \in Nat
    BY <1>1, <1>2 DEF EInv, OneAnswerPerRequest, OwnTypes
  <2> QED BY <1>5, <2>1
<1> QED BY <1>4, <1>6, <1>7, <1>8, Together

LEMMA ClientKeeps ==
  ASSUME EInv, [ENext]_evars, NEW c \in Clients, ClientNext(c)
  PROVE  EInv'
<1>1. c \in Socks \ {Server} /\ c # Server
  BY ServerAddress
<1>2. main' = main /\ UNCHANGED <<heard, answered, lost>>
  BY DEF ClientNext, ClientSends, ClientSendThrows, ClientReceives, ClientGetsAnswer,
         ClientReceiveThrows, ClientCloses, Threw, History
<1>3. PICK to \in EPcs : pc[c] # "new" /\ pc' = [pc EXCEPT ![c] = to]
  BY DEF ClientNext, ClientSends, ClientSendThrows, ClientReceives, ClientGetsAnswer,
         ClientReceiveThrows, ClientCloses, Threw, Step, Goto, EPcs
<1>4. CASE ClientSends(c)
  <2>1. send(c, ServerIp)
    BY <1>4, ServerAddress DEF ClientSends
  <2>2. /\ Kept /\ kern'[c].local = c /\ net' = net \cup {[from |-> c, to |-> ServerIp]}
        /\ queue' = queue /\ packet' = packet
    BY <1>1, <2>1, SendKept
  <2>3. \A d \in net' : d \in net \/ Routed(d)'
    BY <2>2 DEF Routed, Known
  <2> QED BY <1>1, <1>2, <1>3, <2>2, <2>3, TaskMoves
<1>5. CASE ~ClientSends(c)
  <2>1. \/ UNCHANGED uvars \/ receiveBegins(c) \/ receiveReturns(c) \/ receiveFails(c) \/ close(c)
    BY <1>5 DEF ClientNext, ClientSendThrows, ClientReceives, ClientGetsAnswer,
                ClientReceiveThrows, ClientCloses, Threw
  <2>2. Kept
    <3>1. CASE UNCHANGED uvars
      BY <3>1, KernKept DEF uvars
    <3>2. CASE close(c)
      BY <1>1, <3>2, KernKept DEF close
    <3> QED BY <1>1, <2>1, <3>1, <3>2, BeginsKept, EndsKept
  <2>3. net' = net /\ packet'[Server] = packet[Server]
    BY <1>1, <2>1, EndsKept, ServerAddress
       DEF uvars, receiveBegins, receiveReturns, receiveFails, Throw, close
  <2>4. queue'[Server] = queue[Server]
    BY <1>1, <2>1, ServerAddress
       DEF uvars, receiveBegins, receiveReturns, receiveFails, Throw, close, EInv, TypeInv
  <2> QED BY <1>1, <1>2, <1>3, <2>2, <2>3, <2>4, TaskMoves
<1> QED BY <1>4, <1>5

LEMMA EchoInit ==
  ASSUME EInit
  PROVE  EInv
<1>1. TypeInv
  BY InitType, UdpAssumption DEF EInit
<1>2. OwnTypes /\ Started /\ \A s \in Socks : Unconnected(s)
  BY DEF EInit, UInit, OwnTypes, EPcs, Started, Unconnected, Idle
<1>3. RoutesInv /\ OneAnswerPerRequest
  BY ServerAddress DEF EInit, UInit, RoutesInv, OneAnswerPerRequest
<1> QED BY <1>1, <1>2, <1>3 DEF EInv

LEMMA EchoStep ==
  ASSUME EInv, [ENext]_evars
  PROVE  EInv'
<1>1. CASE UNCHANGED evars
  <2>1. /\ UNCHANGED <<main, pc, heard, answered, lost>>
        /\ kern' = kern /\ sock' = sock /\ recv' = recv /\ net' = net /\ queue' = queue
        /\ packet' = packet
    BY <1>1 DEF evars, uvars
  <2>2. Kept
    BY <2>1, KernKept
  <2>3. OwnTypes' /\ Started' /\ RoutesInv' /\ OneAnswerPerRequest'
    BY <2>1 DEF EInv, OwnTypes, Started, RoutesInv, Routed, Known, OneAnswerPerRequest
  <2> QED BY <2>2, <2>3, Together
<1>2. CASE ENext
  BY <1>2, MainKeeps, ServerReceivesKeeps, ServerReceiveThrowsKeeps, ServerGetsRequestKeeps,
     ServerAnswersKeeps, ClientKeeps, NetworkKeeps DEF ENext, ServerNext
<1> QED BY <1>1, <1>2

LEMMA EchoInvariance == ESpec => []EInv
<1>1. EInit => EInv
  BY EchoInit
<1>2. EInv /\ [ENext]_evars => EInv'
  BY EchoStep
<1> QED BY <1>1, <1>2, PTL DEF ESpec

-----------------------------------------------------------------------------
(* Sockets, tasks and the main thread stay in their places; the counts of  *)
(* requests and answers are of clients only.                               *)
THEOREM EchoTypes == ESpec => []ETypeOK
<1>1. EInv => ETypeOK
  BY DEF EInv, TypeInv, OwnTypes, EPcs, ETypeOK
<1> QED BY <1>1, EchoInvariance, PTL

(* ServerSocket.call() keeps one packet for all clients, and requests are  *)
(* lost and arrive twice: still it answers each one that it receives once, *)
(* and the client that asked.                                              *)
THEOREM EachRequestAnsweredOnce == ESpec => []OneAnswerPerRequest
<1>1. EInv => OneAnswerPerRequest
  BY DEF EInv
<1> QED BY <1>1, EchoInvariance, PTL

(* The test is a caller that KernelUDP allows: what its tasks do is steps  *)
(* of KernelUDP, and the server's address survives hostToInt().            *)
THEOREM EchoUsesKernelUDP == ESpec => UInit /\ [][UNext]_uvars
<1>1. EInit => UInit
  BY DEF EInit
<1>2. EInv /\ [ENext]_evars => [UNext]_uvars
  BY TasksUseSockets
<1> QED BY <1>1, <1>2, EchoInvariance, PTL DEF ESpec

-----------------------------------------------------------------------------
(* What is under way for c stays so when datagrams only come.              *)
LEMMA StaysUnderWay ==
  ASSUME NEW c, UnderWay(c), net \subseteq net',
         \A i \in 1 .. Len(queue[Server]) :
           i \in 1 .. Len(queue'[Server]) /\ queue'[Server][i] = queue[Server][i],
         queue[c] # <<>> => queue'[c] # <<>>,
         pc[Server] = "send" /\ packet[Server].sender = c =>
           pc'[Server] = "send" /\ packet'[Server].sender = c
  PROVE  UnderWay(c)'
  BY DEF UnderWay

(* A client waits when it has sent, and nothing was under way before. *)
Waits(c) == pc[c] \in {"receive", "receiving"} /\ c \notin lost /\ pc[Server] # "threw"

LEMMA ServerAttends ==
  ASSUME EInv, ServerNext, NEW c \in Clients, Waits(c) => UnderWay(c), Waits(c)'
  PROVE  UnderWay(c)'
<1>1. c \in Socks /\ c # Server /\ Server \in Socks
  BY ServerAddress
<1>2. pc[c] = pc'[c] /\ lost' = lost
  BY <1>1 DEF ServerNext, ServerReceives, ServerGetsRequest, ServerReceiveThrows, ServerAnswers,
              ServerSendThrows, Threw, Step, Goto, History, EInv, OwnTypes
<1>3. pc'[Server] # "threw"
  BY DEF Waits
<1>4. pc[Server] # "threw" /\ UnderWay(c)
  BY <1>2, <1>3 DEF ServerNext, ServerReceives, ServerGetsRequest, ServerReceiveThrows, ServerAnswers,
              ServerSendThrows, Threw, Step, Waits
<1>5. queue \in [Socks -> Seq(Datagram)] /\ pc \in [Socks -> EPcs]
  BY DEF EInv, TypeInv, OwnTypes
<1>6. CASE ServerReceives
  <2>1. net' = net /\ queue' = queue /\ packet' = packet /\ pc[Server] = "receive"
    BY <1>6 DEF ServerReceives, receiveBegins, Step
  <2> QED BY <1>4, <2>1, StaysUnderWay
<1>7. CASE ServerReceiveThrows \/ ServerSendThrows
  BY <1>1, <1>3, <1>5, <1>7 DEF ServerReceiveThrows, ServerSendThrows, Threw, Step, Goto
<1>8. CASE ServerAnswers
  <2> DEFINE a == Addressee
  <2>1. pc[Server] = "send" /\ send(Server, a)
    BY <1>8 DEF ServerAnswers, Step
  <2>2. a = packet[Server].sender /\ kern[Server].local = ServerIp
    BY <2>1, AddresseeKnown
  <2> HIDE DEF a
  <2>3. net' = net \cup {[from |-> ServerIp, to |-> a]} /\ queue' = queue
    BY <1>1, <2>1, <2>2, SendKept
  <2>4. CASE a = c
    BY <2>3, <2>4 DEF UnderWay
  <2>5. CASE a # c
    BY <1>4, <2>2, <2>3, <2>5 DEF UnderWay
  <2> QED BY <2>4, <2>5
<1>9. CASE ServerGetsRequest
  <2>1. /\ receiveReturns(Server) /\ queue[Server] # <<>> /\ queue[Server] \in Seq(Datagram)
        /\ pc[Server] = "receiving" /\ pc'[Server] = "send"
    BY <1>1, <1>5, <1>9 DEF ServerGetsRequest, receiveReturns, Step, Goto
  <2>2. net' = net /\ queue'[c] = queue[c] /\ queue'[Server] = Tail(queue[Server])
    BY <1>1, <1>5, <2>1 DEF receiveReturns
  <2>3. packet'[Server].sender = queue[Server][1].from
    BY <1>1, <2>1, HeadTailProperties DEF receiveReturns, EInv, TypeInv, UTypeOK
  <2>4. CASE \E i \in 1 .. Len(queue[Server]) : queue[Server][i].from = c
    <3>1. PICK i \in 1 .. Len(queue[Server]) : queue[Server][i].from = c
      BY <2>4
    <3>2. CASE i = 1
      BY <2>1, <2>3, <3>1, <3>2 DEF UnderWay
    <3>3. CASE i # 1
      <4>1. i - 1 \in 1 .. Len(Tail(queue[Server])) /\ Tail(queue[Server])[i - 1] = queue[Server][i]
        BY <2>1, <3>1, <3>3, HeadTailProperties
      <4> QED BY <2>2, <3>1, <4>1 DEF UnderWay
    <3> QED BY <3>2, <3>3
  <2>5. CASE ~ \E i \in 1 .. Len(queue[Server]) : queue[Server][i].from = c
    BY <1>4, <2>1, <2>2, <2>5 DEF UnderWay
  <2> QED BY <2>4, <2>5
<1> QED BY <1>6, <1>7, <1>8, <1>9 DEF ServerNext

LEMMA ClientAttends ==
  ASSUME EInv, NEW u \in Clients, ClientNext(u), NEW c \in Clients,
         Waits(c) => UnderWay(c), Waits(c)'
  PROVE  UnderWay(c)'
<1>1. /\ c \in Socks /\ c # Server /\ Server \in Socks /\ u \in Socks /\ u # Server
      /\ queue \in [Socks -> Seq(Datagram)] /\ pc \in [Socks -> EPcs]
  BY ServerAddress DEF EInv, TypeInv, OwnTypes
<1>2. pc[Server] = pc'[Server] /\ lost' = lost /\ (c # u => pc'[c] = pc[c])
  BY <1>1 DEF ClientNext, ClientSends, ClientSendThrows, ClientReceives, ClientGetsAnswer,
              ClientReceiveThrows, ClientCloses, Threw, Step, Goto, History
<1>3. CASE ClientSends(u)
  <2>1. send(u, ServerIp)
    BY <1>3, ServerAddress DEF ClientSends
  <2>2. net' = net \cup {[from |-> u, to |-> ServerIp]} /\ queue' = queue /\ packet' = packet
    BY <1>1, <2>1, SendKept
  <2>3. CASE u = c
    BY <2>2, <2>3 DEF UnderWay
  <2>4. CASE u # c
    BY <1>2, <2>2, <2>4, StaysUnderWay DEF Waits
  <2> QED BY <2>3, <2>4
<1>4. CASE ClientReceives(u)
  <2>1. /\ net' = net /\ queue' = queue /\ packet' = packet
        /\ pc[u] = "receive" /\ pc'[u] = "receiving"
    BY <1>1, <1>4 DEF ClientReceives, receiveBegins, Step, Goto
  <2>2. Waits(c)
    BY <1>2, <2>1 DEF Waits
  <2> QED BY <1>2, <2>1, <2>2, StaysUnderWay
<1>5. CASE ClientSendThrows(u) \/ ClientGetsAnswer(u) \/ ClientReceiveThrows(u) \/ ClientCloses(u)
  <2>1. pc'[u] \in {"threw", "close", "returned"}
    BY <1>1, <1>5 DEF ClientSendThrows, ClientGetsAnswer, ClientReceiveThrows, ClientCloses,
                      Threw, Step, Goto
  <2>2. c # u /\ Waits(c)
    BY <1>2, <2>1 DEF Waits
  <2>3. UNCHANGED uvars \/ receiveReturns(u) \/ receiveFails(u) \/ close(u)
    BY <1>5 DEF ClientSendThrows, ClientGetsAnswer, ClientReceiveThrows, ClientCloses, Threw
  <2>4. net' = net /\ packet'[Server] = packet[Server]
    BY <1>1, <2>3, EndsKept DEF uvars, receiveReturns, receiveFails, Throw, close
  <2>5. queue'[Server] = queue[Server] /\ queue'[c] = queue[c]
    BY <1>1, <2>2, <2>3 DEF uvars, receiveReturns, receiveFails, Throw, close
  <2> QED BY <1>2, <2>2, <2>4, <2>5, StaysUnderWay
<1> QED BY <1>3, <1>4, <1>5 DEF ClientNext

(* A datagram goes to the queue of who it is for. *)
LEMMA NetworkAttends ==
  ASSUME EInv, NEW d \in net, NetworkLoses(d) \/ \E s \in Socks : NetworkDelivers(d, s),
         NEW c \in Clients, Waits(c) => UnderWay(c), Waits(c)'
  PROVE  UnderWay(c)'
<1>1. /\ c \in Socks /\ c # Server /\ Server \in Socks
      /\ ServerIp \notin Socks /\ ServerIp # NoAddr /\ NoAddr \notin Socks
      /\ queue \in [Socks -> Seq(Datagram)] /\ d \in Datagram
  BY ServerAddress DEF EInv, TypeInv, UTypeOK
<1>2. pc' = pc /\ packet' = packet
  BY DEF NetworkLoses, NetworkDelivers, Lose, Deliver
<1>3. CASE NetworkLoses(d)
  <2>1. net' = net \ {d} /\ queue' = queue /\ lost' = lost \cup ({d.from, d.to} \cap Clients)
    BY <1>3 DEF NetworkLoses, Lose
  <2>2. d.from # c /\ d.to # c /\ Waits(c)
    BY <1>2, <2>1 DEF Waits
  <2> QED BY <1>2, <2>1, <2>2 DEF UnderWay
<1>4. ASSUME NEW s \in Socks, NetworkDelivers(d, s) PROVE UnderWay(c)'
  <2>1. /\ lost' = lost /\ net \ {d} \subseteq net' /\ kern[s].local = d.to
        /\ queue' = [queue EXCEPT ![s] = Append(queue[s], d)]
    BY <1>4 DEF NetworkDelivers, Deliver, Accepts, History
  <2>2. UnderWay(c)
    BY <1>2, <2>1 DEF Waits
  <2>3. /\ \A u \in Socks : Len(Append(queue[u], d)) = Len(queue[u]) + 1
        /\ \A u \in Socks : \A i \in 1 .. Len(queue[u]) : Append(queue[u], d)[i] = queue[u][i]
        /\ \A u \in Socks : Append(queue[u], d)[Len(queue[u]) + 1] = d
        /\ \A u \in Socks : Append(queue[u], d) # <<>> /\ Len(queue[u]) \in Nat
    BY <1>1, AppendProperties
  <2>4. \A u \in Socks : queue'[u] = IF u = s THEN Append(queue[u], d) ELSE queue[u]
    BY <1>1, <2>1
  <2>5. CASE d = [from |-> c, to |-> ServerIp]
    <3>1. s = Server
      BY <1>1, <2>1, <2>5 DEF EInv, Unconnected
    <3>a. queue'[Server] = Append(queue[Server], d) /\ d.from = c
      BY <1>1, <2>4, <2>5, <3>1
    <3>b. /\ Len(Append(queue[Server], d)) = Len(queue[Server]) + 1
          /\ Append(queue[Server], d)[Len(queue[Server]) + 1] = d
          /\ Len(queue[Server]) \in Nat
      BY <1>1, <2>3
    <3>2. Len(queue[Server]) + 1 \in 1 .. Len(queue'[Server])
      BY <3>a, <3>b
    <3>3. queue'[Server][Len(queue[Server]) + 1].from = c
      BY <3>a, <3>b
    <3> QED BY <3>2, <3>3 DEF UnderWay
  <2>6. CASE d = [from |-> ServerIp, to |-> c]
    <3>1. s = c
      BY <1>1, <2>1, <2>6, ServerAddress DEF EInv, Unconnected
    <3> QED BY <1>1, <2>3, <2>4, <3>1 DEF UnderWay
  <2>7. CASE d # [from |-> c, to |-> ServerIp] /\ d # [from |-> ServerIp, to |-> c]
    <3>1. \A i \in 1 .. Len(queue[Server]) :
            i \in 1 .. Len(queue'[Server]) /\ queue'[Server][i] = queue[Server][i]
      <4>1. queue'[Server] = queue[Server] \/ queue'[Server] = Append(queue[Server], d)
        BY <1>1, <2>4
      <4>2. /\ Len(Append(queue[Server], d)) = Len(queue[Server]) + 1 /\ Len(queue[Server]) \in Nat
            /\ \A i \in 1 .. Len(queue[Server]) : Append(queue[Server], d)[i] = queue[Server][i]
        BY <1>1, <2>3
      <4> QED BY <4>1, <4>2
    <3>2. queue[c] # <<>> => queue'[c] # <<>>
      BY <1>1, <2>3, <2>4
    <3> QED BY <1>2, <2>1, <2>2, <2>7, <3>1, <3>2 DEF UnderWay
  <2> QED BY <2>5, <2>6, <2>7
<1> QED BY <1>3, <1>4

LEMMA SomethingUnderWay ==
  ASSUME EInv, [ENext]_evars, NobodyWaitsForNothing
  PROVE  NobodyWaitsForNothing'
<1> SUFFICES ASSUME NEW c \in Clients, Waits(c)' PROVE UnderWay(c)'
  BY DEF NobodyWaitsForNothing, Waits
<1>1. Waits(c) => UnderWay(c)
  BY DEF NobodyWaitsForNothing, Waits
<1>2. CASE UNCHANGED evars
  BY <1>1, <1>2 DEF evars, uvars, Waits, UnderWay
<1>3. CASE MainNext
  <2>1. net' = net /\ queue' = queue /\ packet' = packet /\ lost' = lost
    BY <1>3 DEF MainNext, MainBinds, MainBindThrows, MainSubmits, MainGets, bind, uvars, History
  <2>2. \A t \in Socks : pc'[t] = pc[t] \/ (pc[t] = "new" /\ pc'[t] = "send")
                         \/ (t = Server /\ pc[t] = "new" /\ pc'[t] = "receive")
    BY <1>3, ServerAddress
       DEF MainNext, MainBinds, MainBindThrows, MainSubmits, MainGets, Step, Goto, EInv, OwnTypes
  <2>3. Waits(c) /\ (pc[Server] = "send" => pc'[Server] = "send")
    BY <2>1, <2>2, ServerAddress DEF Waits
  <2> QED BY <1>1, <2>1, <2>3, StaysUnderWay
<1> QED BY <1>1, <1>2, <1>3, ServerAttends, ClientAttends, NetworkAttends DEF ENext

(* Every client that waits without a loss has its request or its answer    *)
(* under way, whatever order tasks began in and whatever else the server   *)
(* heard: the server answers nobody in the place of somebody else.         *)
THEOREM NobodyIsForgotten == ESpec => []NobodyWaitsForNothing
<1>1. EInit => NobodyWaitsForNothing
  BY ServerAddress DEF EInit, NobodyWaitsForNothing
<1>2. EInv /\ NobodyWaitsForNothing /\ [ENext]_evars => NobodyWaitsForNothing'
  BY SomethingUnderWay
<1> QED BY <1>1, <1>2, EchoInvariance, PTL DEF ESpec

=============================================================================
