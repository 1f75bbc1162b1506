-------------------------------- MODULE UdpEcho --------------------------------
(***************************************************************************)
(* Application.concurrentTest(): a server and its clients, ServerSocket    *)
(* and ClientSocket, over KernelUDP.                                       *)
(*                                                                         *)
(* The main thread binds the server's socket, submits the server to a      *)
(* thread pool, sleeps, submits the clients, and waits for the server's    *)
(* result.  The sleep orders nothing: here the clients may run first.      *)
(* There is a thread for every task.  A task stands for its socket.        *)
(***************************************************************************)
EXTENDS KernelUDP, HostAddr

CONSTANTS Server, ServerIp

Clients == Socks \ {Server}

ASSUME EchoAssumption ==
  /\ Server \in Socks /\ Receivers = Socks
  /\ ServerIp \in Ip /\ ServerIp \in Names
  /\ MaxSent >= Cardinality(Clients) + MaxDups

VARIABLES
  main,         (* where the main thread is                                *)
  pc,           (* where each task is                                      *)
  heard,        (* history: requests of each client the server received    *)
  answered,     (* history: responses sent to each client                  *)
  lost          (* history: clients whose request or response was lost     *)

evars == <<uvars, main, pc, heard, answered, lost>>

EInit ==
  /\ UInit
  /\ main = "bind"
  /\ pc = [t \in Socks |-> "new"]
  /\ heard = [c \in Clients |-> 0]
  /\ answered = [c \in Clients |-> 0]
  /\ lost = {}

(* The address that the kernel finds in what Java gives it. *)
Reached(host) == hostToString(host)

Goto(t, step) == pc' = [pc EXCEPT ![t] = step]
Step(t, from, to) == pc[t] = from /\ Goto(t, to)
History == UNCHANGED <<heard, answered, lost>>

(* A native throws: the task is over, its exception is in the Future. *)
Threw(t, from) == Step(t, from, "threw") /\ UNCHANGED <<uvars, main>> /\ History

-----------------------------------------------------------------------------
(* concurrentTest() *)
MainBinds ==
  /\ main = "bind"
  /\ bind(Server, Reached(hostToInt(ServerIp)))
  /\ main' = "submit"
  /\ UNCHANGED pc /\ History

(* The exception leaves concurrentTest() before anything was submitted. *)
MainBindThrows == main = "bind" /\ main' = "left" /\ UNCHANGED <<uvars, pc>> /\ History

MainSubmits ==
  /\ main = "submit"
  /\ IF pc[Server] = "new"
     THEN Goto(Server, "receive") /\ UNCHANGED main
     ELSE \E c \in Clients :
            /\ Step(c, "new", "send")
            /\ main' = IF \A o \in Clients \ {c} : pc[o] # "new" THEN "get" ELSE main
  /\ UNCHANGED uvars /\ History

(* serverResponse.get(), which throws what the server threw; the catch     *)
(* leads past the clients' get() to pool.shutdown().                       *)
MainGets ==
  /\ main = "get" /\ pc[Server] = "threw"
  /\ main' = "shutdown"
  /\ UNCHANGED <<uvars, pc>> /\ History

-----------------------------------------------------------------------------
(* ServerSocket.call(): receive into one packet and answer its address,    *)
(* for ever.                                                               *)
ServerReceives ==
  /\ Step(Server, "receive", "receiving")
  /\ receiveBegins(Server)
  /\ UNCHANGED main /\ History

ServerGetsRequest ==
  /\ Step(Server, "receiving", "send")
  /\ receiveReturns(Server)
  /\ heard' = [heard EXCEPT ![packet'[Server].sender] = @ + 1]
  /\ UNCHANGED <<main, answered, lost>>

ServerReceiveThrows ==
  /\ Step(Server, "receiving", "threw")
  /\ receiveFails(Server)
  /\ UNCHANGED main /\ History

\* Mutants: the first client is answered for ever; toAddr, which the native
\* does not set, is answered.
AddresseeFirst == CHOOSE c \in Clients : heard[c] > 0
AddresseeUnset == Garbage
Addressee == packet[Server].address

ServerAnswers ==
  /\ Step(Server, "send", "receive")
  /\ send(Server, Addressee)
  /\ answered' = [answered EXCEPT ![Addressee] = @ + 1]
  /\ UNCHANGED <<main, heard, lost>>

ServerSendThrows == Threw(Server, "send")

-----------------------------------------------------------------------------
(* ClientSocket.call() *)
ClientSends(c) ==
  /\ Step(c, "send", "receive")
  /\ send(c, Reached(hostToInt(ServerIp)))
  /\ UNCHANGED main /\ History

ClientSendThrows(c) == Threw(c, "send")

ClientReceives(c) ==
  /\ Step(c, "receive", "receiving")
  /\ receiveBegins(c)
  /\ UNCHANGED main /\ History

ClientGetsAnswer(c) ==
  /\ Step(c, "receiving", "close")
  /\ receiveReturns(c)
  /\ UNCHANGED main /\ History

ClientReceiveThrows(c) ==
  /\ Step(c, "receiving", "threw")
  /\ receiveFails(c)
  /\ UNCHANGED main /\ History

ClientCloses(c) ==
  /\ Step(c, "close", "returned")
  /\ close(c)
  /\ UNCHANGED main /\ History

-----------------------------------------------------------------------------
NetworkDelivers(d, s) == Deliver(d, s) /\ UNCHANGED <<main, pc>> /\ History

NetworkLoses(d) ==
  /\ Lose(d)
  /\ lost' = lost \cup ({d.from, d.to} \cap Clients)
  /\ UNCHANGED <<main, pc, heard, answered>>

MainNext == MainBinds \/ MainBindThrows \/ MainSubmits \/ MainGets

ServerNext ==
  ServerReceives \/ ServerGetsRequest \/ ServerReceiveThrows \/ ServerAnswers \/ ServerSendThrows

ClientNext(c) ==
  \/ ClientSends(c) \/ ClientSendThrows(c) \/ ClientReceives(c) \/ ClientGetsAnswer(c)
  \/ ClientReceiveThrows(c) \/ ClientCloses(c)

ENext ==
  \/ MainNext \/ ServerNext
  \/ \E c \in Clients : ClientNext(c)
  \/ \E d \in net : NetworkLoses(d) \/ \E s \in Socks : NetworkDelivers(d, s)

(* Threads that can go on do, and a datagram that can be delivered is      *)
(* delivered unless it is lost.  Nobody is made to fail or to lose.        *)
EFairness ==
  /\ WF_evars(MainSubmits) /\ WF_evars(MainGets)
  /\ WF_evars(ServerReceives) /\ WF_evars(ServerGetsRequest)
  /\ WF_evars(ServerAnswers \/ ServerSendThrows)
  /\ \A c \in Clients :
       /\ WF_evars(ClientSends(c) \/ ClientSendThrows(c)) /\ WF_evars(ClientReceives(c))
       /\ WF_evars(ClientGetsAnswer(c)) /\ WF_evars(ClientCloses(c))
  /\ \A d \in Datagram, s \in Socks : WF_evars(NetworkDelivers(d, s))

ESpec == EInit /\ [][ENext]_evars /\ EFairness

-----------------------------------------------------------------------------
ETypeOK ==
  /\ UTypeOK
  /\ main \in {"bind", "submit", "get", "shutdown", "left"}
  /\ pc \in [Socks -> {"new", "send", "receive", "receiving", "close", "returned", "threw"}]
  /\ heard \in [Clients -> Nat] /\ answered \in [Clients -> Nat]
  /\ lost \subseteq Clients

(* The server answers every request once and answers who asked, although   *)
(* it keeps one packet for all requests and duplicates of requests arrive. *)
OneAnswerPerRequest ==
  \A c \in Clients :
    heard[c] = answered[c] +
      IF pc[Server] \in {"send", "threw"} /\ packet[Server].sender = c THEN 1 ELSE 0

(* A client that waits has something to wait for: its request is on its    *)
(* way or with the server, or the answer to it is on its way.  The server  *)
(* may have begun after the client, and hears duplicates of other requests.*)
UnderWay(c) ==
  \/ [from |-> c, to |-> ServerIp] \in net
  \/ \E i \in 1 .. Len(queue[Server]) : queue[Server][i].from = c
  \/ pc[Server] = "send" /\ packet[Server].sender = c
  \/ [from |-> ServerIp, to |-> c] \in net
  \/ queue[c] # <<>>

NobodyWaitsForNothing ==
  \A c \in Clients :
    pc[c] \in {"receive", "receiving"} /\ c \notin lost /\ pc[Server] # "threw" => UnderWay(c)

(* A client ends unless one of its two datagrams was lost or the server    *)
(* failed: it waits without a timeout, so nothing else may go wrong.  In   *)
(* particular it need not be submitted after the server has begun.         *)
EveryClientEnds ==
  \A c \in Clients :
    pc[c] = "send" ~> (pc[c] \in {"returned", "threw"} \/ c \in lost \/ pc[Server] = "threw")

=============================================================================
