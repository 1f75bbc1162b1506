------------------------------ MODULE TcpPingPong ------------------------------
(***************************************************************************)
(* Application.testTCPKernel(): a KernelServer and two KernelClients over  *)
(* KernelSockets, with the streams between them and the collector of the   *)
(* JVM that runs them all.                                                 *)
(*                                                                         *)
(* The main thread makes the sockets, submits the server, sleeps (which    *)
(* orders nothing), submits the first client, waits for it, submits the    *)
(* second, waits for it, and waits for the server.                         *)
(*                                                                         *)
(* receiveC() waits for data inside GetPrimitiveArrayCritical().  While a  *)
(* thread is in there HotSpot cannot collect: a thread that finds the heap *)
(* full waits until all have left, and meanwhile nobody else may enter.    *)
(***************************************************************************)
EXTENDS KernelSockets, Sequences

CONSTANTS
  Server, Client1, Client2,
  Results,      (* a sequence: the objects that accept() makes             *)
  Port,
  Pieces        (* bound: the parts that a message may arrive in           *)

Clients == {Client1, Client2}
Tasks == {Server} \cup Clients
Main == "main"
Threads == Tasks \cup {Main}

ASSUME PingPongAssumption ==
  /\ Client1 # Client2 /\ Server \notin Clients
  /\ Results \in Seq(Objs \ Tasks) /\ Tasks \subseteq Objs
  /\ Port \in Ports /\ Pieces \in Nat \ {0}
  /\ Main \notin Objs

VARIABLES
  pc,           (* where each thread is                                    *)
  backlog,      (* clients that are connected and not accepted yet         *)
  serving,      (* the client whose connection the server has              *)
  made,         (* calls of accept() so far                                *)
  toClient, toServer,  (* pieces sent and not received, per connection     *)
  gc,           (* a collection is needed                                  *)
  stalled       (* the threads that wait for it                            *)

pvars == <<pc, backlog, serving, made, toClient, toServer, gc, stalled>>
tcpvars == <<kvars, pvars>>

TInit ==
  /\ KInit
  /\ pc = [t \in Threads |-> IF t = Main THEN "socket1" ELSE "new"]
  /\ backlog = <<>> /\ serving = NoObj /\ made = 0
  /\ toClient = [c \in Clients |-> 0] /\ toServer = [c \in Clients |-> 0]
  /\ gc = FALSE /\ stalled = {}

Goto(t, step) == pc' = [pc EXCEPT ![t] = step]
Step(t, from, to) == t \notin stalled /\ pc[t] = from /\ Goto(t, to)

Streams == <<toClient, toServer>>
Accepting == <<backlog, serving, made>>
Collector == <<gc, stalled>>

(* A native throws: the task is over, its exception is in the Future. *)
Threw(t, from) == Step(t, from, "threw") /\ UNCHANGED <<kvars, Accepting, Streams, Collector>>

-----------------------------------------------------------------------------
(* The collector (external).                                               *)
Critical == {t \in Tasks : pc[t] = "recv"}

(* Places where a thread runs Java code that allocates. *)
RunsJava(t) == pc[t] \notin {"new", "accepting", "recv", "done", "threw", "get1", "get2", "getServer"}

Exhausts(t) ==
  /\ t \notin stalled /\ RunsJava(t)
  /\ stalled' = stalled \cup {t} /\ gc' = TRUE
  /\ UNCHANGED <<kvars, pc, Accepting, Streams>>

Collect ==
  /\ gc /\ Critical = {}
  /\ gc' = FALSE /\ stalled' = {}
  /\ UNCHANGED <<kvars, pc, Accepting, Streams>>

(* GetPrimitiveArrayCritical() *)
Enter(t) ==
  /\ Step(t, "enter", "recv")
  /\ ~(gc /\ Critical # {})
  /\ UNCHANGED <<kvars, Accepting, Streams, Collector>>

-----------------------------------------------------------------------------
(* testTCPKernel() *)
MainMakes ==
  /\ \/ Step(Main, "socket1", "socket2") /\ Construct(Client1, "tcp")
     \/ Step(Main, "socket2", "socket3") /\ Construct(Client2, "tcp")
     \/ Step(Main, "socket3", "submit") /\ Construct(Server, "tcp")
  /\ UNCHANGED <<Accepting, Streams, Collector>>

Submits(from, task, to) ==
  /\ Main \notin stalled /\ pc[Main] = from
  /\ pc' = [pc EXCEPT ![Main] = to, ![task] = IF task = Server THEN "bind" ELSE "connect"]

ResultReady(task) == pc[task] \in {"done", "threw"}

(* get(): the catch clauses lead to pool.shutdown(). *)
Gets(from, task, to) ==
  /\ ResultReady(task)
  /\ Step(Main, from, IF pc[task] = "threw" THEN "done" ELSE to)

MainGoesOn ==
  /\ \/ Submits("submit", Server, "submit1")
     \/ Submits("submit1", Client1, "get1")
     \/ Gets("get1", Client1, "submit2")
     \/ Submits("submit2", Client2, "get2")
     \/ Gets("get2", Client2, "getServer")
     \/ Gets("getServer", Server, "done")
  /\ UNCHANGED <<kvars, Accepting, Streams, Collector>>

-----------------------------------------------------------------------------
(* KernelServer.call() *)
ServerBinds ==
  /\ Step(Server, "bind", "listen")
  /\ tcpBind(Server, Port) /\ jobj'[Server].bound
  /\ UNCHANGED <<Accepting, Streams, Collector>>

ServerListens ==
  /\ Step(Server, "listen", "accept")
  /\ tcpListen(Server)
  /\ UNCHANGED <<Accepting, Streams, Collector>>

ServerAccepts ==
  /\ made < Len(Results)
  /\ Step(Server, "accept", "accepting")
  /\ acceptBegins(Server, Results[made + 1])
  /\ made' = made + 1
  /\ UNCHANGED <<backlog, serving, Streams, Collector>>

\* Mutant: the server waits for the client's message first.
AfterAcceptReceives == "enter"
AfterAccept == "greet"

ServerGetsConnection ==
  /\ Step(Server, "accepting", AfterAccept)
  /\ backlog # <<>>
  /\ acceptReturns(Results[made], Port)
  /\ serving' = Head(backlog) /\ backlog' = Tail(backlog)
  /\ UNCHANGED <<made, Streams, Collector>>

ServerAcceptThrows ==
  /\ Step(Server, "accepting", "threw")
  /\ acceptThrows(Results[made])
  /\ UNCHANGED <<Accepting, Streams, Collector>>

(* send(newConnection, ...), which does nothing for a socket that is not   *)
(* noted.                                                                  *)
ServerGreets ==
  /\ Step(Server, "greet", "enter")
  /\ toClient' = IF jobj[Results[made]].sockId \in jobj[Server].connectedSockets
                 THEN [toClient EXCEPT ![serving] = @ + Pieces] ELSE toClient
  /\ UNCHANGED <<kvars, Accepting, toServer, Collector>>

ServerEnters == Enter(Server)

\* Mutant: the loop does not come back to accept().
AfterReceiveGreets == "greet"
\* Mutant: the server waits for the rest of a message that came in parts.
AfterReceiveAgain == "enter"
AfterReceive == "accept"

(* recv() gives what has arrived, which may be a part of the message. *)
ServerReceives ==
  /\ Step(Server, "recv", AfterReceive)
  /\ \E n \in 1 .. toServer[serving] : toServer' = [toServer EXCEPT ![serving] = @ - n]
  /\ UNCHANGED <<kvars, Accepting, toClient, Collector>>

ServerBindThrows == Threw(Server, "bind")
ServerTrafficThrows == Threw(Server, "greet") \/ Threw(Server, "recv")

-----------------------------------------------------------------------------
(* KernelClient.call() *)
(* The kernel connects to a socket that listens, accepted or not. *)
ClientConnects(c) ==
  /\ Step(c, "connect", "enter")
  /\ Open(jobj[Server].sockId) /\ kernel[jobj[Server].sockId].listening
  /\ tcpConnect(c) /\ jobj'[c].connected
  /\ backlog' = Append(backlog, c)
  /\ UNCHANGED <<serving, made, Streams, Collector>>

ClientEnters(c) == Enter(c)

ClientReceives(c) ==
  /\ Step(c, "recv", "thank")
  /\ \E n \in 1 .. toClient[c] : toClient' = [toClient EXCEPT ![c] = @ - n]
  /\ UNCHANGED <<kvars, Accepting, toServer, Collector>>

(* send(buf, flag), which does nothing on a socket that is not connected. *)
ClientThanks(c) ==
  /\ Step(c, "thank", "done")
  /\ toServer' = IF jobj[c].connected THEN [toServer EXCEPT ![c] = @ + Pieces] ELSE toServer
  /\ UNCHANGED <<kvars, Accepting, toClient, Collector>>

ClientConnectThrows(c) == Threw(c, "connect")
ClientTrafficThrows(c) == Threw(c, "recv") \/ Threw(c, "thank")

-----------------------------------------------------------------------------
ServerGoesOn ==
  \/ ServerBinds \/ ServerBindThrows \/ ServerListens \/ ServerAccepts \/ ServerGetsConnection
  \/ ServerGreets \/ ServerEnters \/ ServerReceives

ClientGoesOn(c) ==
  ClientConnects(c) \/ ClientConnectThrows(c) \/ ClientEnters(c) \/ ClientReceives(c) \/ ClientThanks(c)

TNext ==
  \/ MainMakes \/ MainGoesOn
  \/ ServerGoesOn \/ ServerAcceptThrows \/ ServerTrafficThrows
  \/ \E c \in Clients : ClientGoesOn(c) \/ ClientTrafficThrows(c)
  \/ \E t \in Threads : Exhausts(t)
  \/ Collect

(* A collection that nobody holds up takes place, and then the threads     *)
(* that waited for it have what they allocate: a thread does not wait for  *)
(* one collection after the other at the same place (strong fairness).     *)
(* A wait in the kernel need not end: no fairness for its failures.        *)
TFairness ==
  /\ SF_tcpvars(MainMakes \/ MainGoesOn)
  /\ SF_tcpvars(ServerGoesOn)
  /\ \A c \in Clients : SF_tcpvars(ClientGoesOn(c))
  /\ WF_tcpvars(Collect)

TSpec == TInit /\ [][TNext]_tcpvars /\ TFairness

-----------------------------------------------------------------------------
TTypeOK ==
  /\ KTypeOK
  /\ pc \in [Threads -> {"socket1", "socket2", "socket3", "submit", "submit1", "get1", "submit2",
                         "get2", "getServer", "new", "bind", "listen", "accept", "accepting",
                         "greet", "connect", "enter", "recv", "thank", "done", "threw"}]
  /\ backlog \in Seq(Clients) /\ serving \in Clients \cup {NoObj}
  /\ made \in 0 .. Len(Results)
  /\ toClient \in [Clients -> 0 .. Pieces] /\ toServer \in [Clients -> 0 .. Pieces]
  /\ gc \in BOOLEAN /\ stalled \subseteq Threads

(* The server and the client it serves never both wait for the other's     *)
(* message.                                                                *)
NoCrossWait ==
  pc[Server] = "recv" /\ toServer[serving] = 0 /\ pc[serving] = "recv"
    => toClient[serving] > 0

(* The server waits in recv() only for a client that has yet to send, or   *)
(* whose native threw: never for one that is done, although a message may  *)
(* come in parts and call() reads once from each connection.  For a client *)
(* that threw it waits for ever, while the main thread shuts the pool down.*)
ServerWaitsForSomebody ==
  pc[Server] \in {"enter", "recv"} /\ toServer[serving] = 0
    => pc[serving] \in {"enter", "recv", "thank", "threw"}

(* Somebody holds up a collection. *)
HeldUp == gc /\ Critical # {}

(* Every client that connects gets to its end, unless a native has thrown  *)
(* or a wait inside receiveC() holds up a collection for ever: the only    *)
(* deadlock there is.                                                      *)
ExchangesEnd ==
  \/ <>[]HeldUp
  \/ \A c \in Clients :
       pc[c] = "connect" ~> (pc[c] \in {"done", "threw"} \/ pc[Server] = "threw")

=============================================================================
