----------------------------- MODULE TcpPingPongProofs -----------------------
(***************************************************************************)
(* Proofs about TcpPingPong: the test keeps to the methods of              *)
(* KernelSockets, and the server and the client that it serves never both  *)
(* wait for the other, nor the server for a client that is done, for any   *)
(* number of accepts, any size of a message and on either system.          *)
(***************************************************************************)
EXTENDS TcpPingPong, KernelSocketsProofs, SequenceTheorems

(* While the server is in accept() the object it will return is Server's;  *)
(* when it is about to greet, the listener has noted the connection.       *)
AcceptInv ==
  /\ pc[Server] \in {"accepting", "greet"} => made > 0
  /\ pc[Server] = "accepting" => accepting[Results[made]] = Server
  /\ pc[Server] = "greet" => jobj[Results[made]].sockId \in jobj[Server].connectedSockets

(* Who has not been submitted yet. *)
BeforeServer == {"socket1", "socket2", "socket3", "submit"}
BeforeClient1 == BeforeServer \cup {"submit1"}
BeforeClient2 == BeforeClient1 \cup {"get1", "submit2"}

SubmitInv ==
  /\ pc[Main] \in BeforeServer => pc[Server] = "new"
  /\ pc[Main] \in BeforeClient1 => pc[Client1] = "new"
  /\ pc[Main] \in BeforeClient2 => pc[Client2] = "new"

(* A client is queued once, after it has connected and before it is served *)
(* and greeted.                                                            *)
Ungreeted(c) == toClient[c] = 0
Outside(c) == c # serving /\ \A i \in 1 .. Len(backlog) : backlog[i] # c

QueueInv ==
  /\ \A c \in Clients : pc[c] \in {"new", "connect"} => Ungreeted(c) /\ Outside(c)
  /\ \A i \in 1 .. Len(backlog) : Ungreeted(backlog[i]) /\ backlog[i] # serving
  /\ \A i, j \in 1 .. Len(backlog) : backlog[i] = backlog[j] => i = j

(* A client's message is the last thing that it does. *)
ThanksInv == \A c \in Clients : pc[c] # "done" => toServer[c] = 0

(* The server greets before it waits: whom it serves has its message or    *)
(* has taken of it.                                                        *)
TurnInv ==
  /\ pc[Server] \in {"greet", "enter", "recv"} => serving \in Clients
  /\ pc[Server] = "greet" => Ungreeted(serving)
  /\ pc[Server] \in {"enter", "recv"} =>
       (pc[serving] \in {"enter", "recv"} => toClient[serving] > 0)

TInv == TTypeOK /\ AcceptInv /\ SubmitInv /\ QueueInv /\ ThanksInv /\ TurnInv

-----------------------------------------------------------------------------
Places ==
  {"socket1", "socket2", "socket3", "submit", "submit1", "get1", "submit2",
   "get2", "getServer", "new", "bind", "listen", "accept", "accepting",
   "greet", "connect", "enter", "recv", "thank", "done", "threw"}

(* TTypeOK without the variables of KernelSockets. *)
TestTypes ==
  /\ pc \in [Threads -> Places]
  /\ backlog \in Seq(Clients) /\ serving \in Clients \cup {NoObj}
  /\ made \in 0 .. Len(Results)
  /\ toClient \in [Clients -> 0 .. Pieces] /\ toServer \in [Clients -> 0 .. Pieces]
  /\ gc \in BOOLEAN /\ stalled \subseteq Threads

LEMMA TypesAre == TTypeOK <=> KTypeOK /\ TestTypes
  BY Zenon DEF TTypeOK, TestTypes, Places

(* The threads are all different, and none of them is a result. *)
LEMMA ThreadsDiffer ==
  /\ Server \in Threads /\ Main \in Threads /\ Clients \subseteq Threads
  /\ Client1 \in Clients /\ Client2 \in Clients /\ Client1 # Client2
  /\ Server \notin Clients /\ Main \notin Clients /\ Main # Server
  /\ Tasks \subseteq Objs /\ Server \in Objs /\ Clients \subseteq Objs
  /\ \A t \in Threads : t = Main \/ t = Server \/ t \in Clients
  BY PingPongAssumption DEF Threads, Tasks, Clients

LEMMA ResultsAreOthers ==
  ASSUME NEW i \in 1 .. Len(Results)
  PROVE  Results[i] \in Objs /\ Results[i] \notin Tasks
  BY PingPongAssumption

LEMMA GotoMoves ==
  ASSUME TestTypes, NEW t \in Threads, NEW place \in Places, Goto(t, place)
  PROVE  /\ pc' \in [Threads -> Places]
         /\ pc'[t] = place /\ \A u \in Threads \ {t} : pc'[u] = pc[u]
  BY DEF TestTypes, Goto

-----------------------------------------------------------------------------
(* Every step of the test is one method of KernelSockets or none. *)
LEMMA StepIsKernelStep ==
  ASSUME KernelAssumption, TTypeOK, AcceptInv, [TNext]_tcpvars
  PROVE  [KNext]_kvars
<1> USE ThreadsDiffer
<1>0. Port \in Ports /\ "tcp" \in Kinds
  BY PingPongAssumption DEF Kinds
<1>1. CASE UNCHANGED kvars
  BY <1>1
<1>2. ASSUME NEW o \in Objs, Construct(o, "tcp") PROVE KNext
  BY <1>0, <1>2, Zenon DEF KNext
<1>3. ASSUME tcpBind(Server, Port) PROVE KNext
  BY <1>0, <1>3, Zenon DEF KNext
<1>4. ASSUME tcpListen(Server) PROVE KNext
  BY <1>4, Zenon DEF KNext
<1>5. ASSUME NEW r \in Objs, acceptBegins(Server, r) PROVE KNext
  BY <1>5, Zenon DEF KNext
<1>6. ASSUME NEW r \in Objs, acceptReturns(r, Port) \/ acceptThrows(r) PROVE KNext
  BY <1>0, <1>6, Zenon DEF KNext
<1>7. ASSUME NEW c \in Clients, tcpConnect(c) PROVE KNext
  <2>1. c \in Objs
    OBVIOUS
  <2> QED BY <1>7, <2>1, Zenon DEF KNext
<1>8. CASE MainMakes
  <2>1. Construct(Client1, "tcp") \/ Construct(Client2, "tcp") \/ Construct(Server, "tcp")
    BY <1>8 DEF MainMakes
  <2>2. Client1 \in Objs /\ Client2 \in Objs
    OBVIOUS
  <2> QED BY <1>2, <2>1, <2>2
<1>9. CASE MainGoesOn
  BY <1>1, <1>9 DEF MainGoesOn
<1>10. CASE ServerGoesOn \/ ServerAcceptThrows \/ ServerTrafficThrows
  <2>1. CASE ServerBinds
    BY <1>3, <2>1 DEF ServerBinds
  <2>2. CASE ServerListens
    BY <1>4, <2>2 DEF ServerListens
  <2>3. CASE ServerAccepts
    <3>1. made + 1 \in 1 .. Len(Results)
      BY <2>3, PingPongAssumption DEF ServerAccepts, TTypeOK
    <3> QED BY <1>5, <2>3, <3>1, ResultsAreOthers DEF ServerAccepts
  <2>4. CASE ServerGetsConnection \/ ServerAcceptThrows
    <3>1. made \in 1 .. Len(Results)
      BY <2>4, PingPongAssumption
         DEF ServerGetsConnection, ServerAcceptThrows, Step, AcceptInv, TTypeOK
    <3>2. Results[made] \in Objs
      BY <3>1, ResultsAreOthers
    <3>3. acceptReturns(Results[made], Port) \/ acceptThrows(Results[made])
      BY <2>4 DEF ServerGetsConnection, ServerAcceptThrows
    <3> QED BY <1>6, <3>2, <3>3
  <2>5. CASE ServerBindThrows \/ ServerGreets \/ ServerEnters \/ ServerReceives \/ ServerTrafficThrows
    BY <1>1, <2>5 DEF ServerBindThrows, ServerGreets, ServerEnters, ServerReceives,
                      ServerTrafficThrows, Threw, Enter
  <2> QED BY <1>10, <2>1, <2>2, <2>3, <2>4, <2>5 DEF ServerGoesOn
<1>11. ASSUME NEW c \in Clients, ClientGoesOn(c) \/ ClientTrafficThrows(c) PROVE [KNext]_kvars
  <2>1. CASE ClientConnects(c)
    BY <1>7, <2>1 DEF ClientConnects
  <2>2. CASE \/ ClientConnectThrows(c) \/ ClientEnters(c) \/ ClientReceives(c) \/ ClientThanks(c)
             \/ ClientTrafficThrows(c)
    BY <1>1, <2>2 DEF ClientConnectThrows, ClientEnters, ClientReceives, ClientThanks,
                      ClientTrafficThrows, Threw, Enter
  <2> QED BY <1>11, <2>1, <2>2 DEF ClientGoesOn
<1>12. CASE Collect \/ \E t \in Threads : Exhausts(t)
  BY <1>1, <1>12 DEF Collect, Exhausts
<1>13. CASE UNCHANGED tcpvars
  BY <1>1, <1>13 DEF tcpvars
<1> QED BY <1>8, <1>9, <1>10, <1>11, <1>12, <1>13 DEF TNext

-----------------------------------------------------------------------------
(* What the steps do to the invariant of the test's own variables. *)
TestInv == TestTypes /\ AcceptInv /\ SubmitInv /\ QueueInv /\ ThanksInv /\ TurnInv

LEMMA TInvIs == TInv <=> KTypeOK /\ TestInv
  BY TypesAre DEF TInv, TestInv

Bystanders == UNCHANGED <<Accepting, Streams>>

(* Nothing but the collector's state changes. *)
LEMMA NothingMoves ==
  ASSUME TestInv, UNCHANGED <<jobj, accepting, pc, Accepting, Streams>>,
         gc' \in BOOLEAN, stalled' \subseteq Threads
  PROVE  TestInv'
<1>0. /\ jobj' = jobj /\ accepting' = accepting /\ pc' = pc
      /\ backlog' = backlog /\ serving' = serving /\ made' = made
      /\ toClient' = toClient /\ toServer' = toServer
  BY DEF Accepting, Streams
<1>1. TestTypes'
  BY <1>0 DEF TestInv, TestTypes
<1>2. AcceptInv' /\ SubmitInv'
  BY <1>0 DEF TestInv, AcceptInv, SubmitInv
<1>3. QueueInv' /\ ThanksInv' /\ TurnInv'
  BY <1>0 DEF TestInv, QueueInv, ThanksInv, TurnInv, Ungreeted, Outside
<1> QED BY <1>1, <1>2, <1>3 DEF TestInv

(* The server or a client goes on without touching a message or the queue. *)
LEMMA TaskMoves ==
  ASSUME TestInv, NEW t \in Tasks, NEW place \in Places, Goto(t, place),
         Bystanders, UNCHANGED Collector,
         pc[t] \notin {"new", "done"},
         place \notin {"new", "connect", "accepting", "greet"},
         place \in {"enter", "recv"} => pc[t] = "enter",
         t = Server \/ UNCHANGED <<jobj, accepting>>
  PROVE  TestInv'
<1>0. /\ backlog' = backlog /\ serving' = serving /\ made' = made
      /\ toClient' = toClient /\ toServer' = toServer /\ gc' = gc /\ stalled' = stalled
  BY DEF Bystanders, Accepting, Streams, Collector
<1>1. /\ pc' \in [Threads -> Places] /\ pc'[t] = place
      /\ \A u \in Threads \ {t} : pc'[u] = pc[u]
  BY GotoMoves DEF TestInv, Threads
<1>2. TestTypes'
  BY <1>0, <1>1 DEF TestInv, TestTypes
<1>3. AcceptInv'
  <2>1. CASE t = Server
    BY <1>1, <2>1 DEF AcceptInv
  <2>2. CASE t # Server
    BY <1>0, <1>1, <2>2, ThreadsDiffer DEF TestInv, AcceptInv
  <2> QED BY <2>1, <2>2
<1>4. SubmitInv'
  <2>1. pc'[Main] = pc[Main]
    BY <1>1, ThreadsDiffer DEF Tasks
  <2>2. \A u \in Tasks : pc[u] = "new" => pc'[u] = "new"
    BY <1>1, ThreadsDiffer DEF Tasks
  <2> QED BY <2>1, <2>2, ThreadsDiffer DEF TestInv, SubmitInv, Tasks
<1>5. QueueInv'
  <2>1. \A c \in Clients : pc'[c] \in {"new", "connect"} => pc[c] \in {"new", "connect"}
    BY <1>1, ThreadsDiffer
  <2> QED BY <1>0, <2>1 DEF TestInv, QueueInv, Ungreeted, Outside
<1>6. ThanksInv'
  <2>1. \A c \in Clients : pc'[c] # "done" => pc[c] # "done"
    BY <1>1, ThreadsDiffer
  <2> QED BY <1>0, <2>1 DEF TestInv, ThanksInv
<1>7. TurnInv'
  <2>1. pc'[Server] # "greet" \/ pc[Server] = "greet"
    BY <1>1, ThreadsDiffer
  <2>2. pc'[Server] \in {"enter", "recv"} => pc[Server] \in {"enter", "recv"}
    BY <1>1, ThreadsDiffer
  <2>3. \A c \in Clients : pc'[c] \in {"enter", "recv"} => pc[c] \in {"enter", "recv"}
    BY <1>1, ThreadsDiffer
  <2> QED BY <1>0, <2>1, <2>2, <2>3 DEF TestInv, TurnInv, Ungreeted
<1> QED BY <1>2, <1>3, <1>4, <1>5, <1>6, <1>7 DEF TestInv

(* testTCPKernel(): constructors and results. *)
LEMMA MainMoves ==
  ASSUME TestInv, NEW place \in Places, Goto(Main, place),
         Bystanders, UNCHANGED Collector,
         place \in BeforeServer => pc[Main] \in BeforeServer,
         place \in BeforeClient1 => pc[Main] \in BeforeClient1,
         place \in BeforeClient2 => pc[Main] \in BeforeClient2,
         pc[Server] = "new" \/ UNCHANGED <<jobj, accepting>>
  PROVE  TestInv'
<1>0. /\ backlog' = backlog /\ serving' = serving /\ made' = made
      /\ toClient' = toClient /\ toServer' = toServer /\ gc' = gc /\ stalled' = stalled
  BY DEF Bystanders, Accepting, Streams, Collector
<1>1. /\ pc' \in [Threads -> Places] /\ pc'[Main] = place
      /\ \A u \in Threads \ {Main} : pc'[u] = pc[u]
  BY GotoMoves, ThreadsDiffer DEF TestInv
<1>2. pc'[Server] = pc[Server] /\ \A c \in Clients : pc'[c] = pc[c]
  BY <1>1, ThreadsDiffer
<1>3. TestTypes'
  BY <1>0, <1>1 DEF TestInv, TestTypes
<1>4. AcceptInv'
  BY <1>0, <1>2 DEF TestInv, AcceptInv
<1>5. SubmitInv'
  BY <1>1, <1>2, ThreadsDiffer DEF TestInv, SubmitInv
<1>6. QueueInv'
  BY <1>0, <1>2 DEF TestInv, QueueInv, Ungreeted, Outside
<1>7. ThanksInv' /\ TurnInv'
  BY <1>0, <1>2 DEF TestInv, ThanksInv, TurnInv, Ungreeted
<1> QED BY <1>3, <1>4, <1>5, <1>6, <1>7 DEF TestInv

LEMMA MainMakesKeeps ==
  ASSUME TestInv, MainMakes
  PROVE  TestInv'
<1>1. pc[Main] \in BeforeServer
  BY DEF MainMakes, Step, BeforeServer
<1>2. pc[Server] = "new"
  BY <1>1 DEF TestInv, SubmitInv
<1>3. \E place \in {"socket2", "socket3", "submit"} : Goto(Main, place)
  BY DEF MainMakes, Step
<1>4. PICK place \in {"socket2", "socket3", "submit"} : Goto(Main, place)
  BY <1>3
<1>5. place \in Places /\ place \in BeforeServer
  BY DEF Places, BeforeServer
<1>6. Bystanders /\ UNCHANGED Collector
  BY DEF MainMakes, Bystanders
<1> QED BY <1>1, <1>2, <1>4, <1>5, <1>6, MainMoves DEF BeforeClient1, BeforeClient2

LEMMA SubmitsKeeps ==
  ASSUME TestInv, UNCHANGED <<jobj, accepting>>, Bystanders, UNCHANGED Collector,
         NEW from, NEW task \in Tasks, NEW to \in Places, Submits(from, task, to),
         pc[task] = "new",
         to \in BeforeServer => FALSE,
         to \in BeforeClient1 => from \in BeforeClient1 /\ task # Client1,
         to \in BeforeClient2 => from \in BeforeClient2 /\ task # Client2
  PROVE  TestInv'
<1> DEFINE first == IF task = Server THEN "bind" ELSE "connect"
<1>0. /\ backlog' = backlog /\ serving' = serving /\ made' = made
      /\ toClient' = toClient /\ toServer' = toServer /\ gc' = gc /\ stalled' = stalled
      /\ jobj' = jobj /\ accepting' = accepting
  BY DEF Bystanders, Accepting, Streams, Collector
<1>1. /\ pc' \in [Threads -> Places] /\ pc'[Main] = to /\ pc'[task] = first
      /\ \A u \in Tasks \ {task} : pc'[u] = pc[u]
      /\ first \in Places /\ pc[Main] = from
  BY ThreadsDiffer DEF TestInv, TestTypes, Submits, Tasks, Places, Threads
<1>2. first \notin {"accepting", "greet", "enter", "recv", "done", "new"}
  OBVIOUS
<1>3. task # Server => first = "connect"
  OBVIOUS
<1> HIDE DEF first
<1>4. TestTypes'
  BY <1>0, <1>1 DEF TestInv, TestTypes
<1>5. Server \in Tasks /\ \A c \in Clients : c \in Tasks /\ c # Server
  BY ThreadsDiffer DEF Tasks
<1>6. AcceptInv'
  BY <1>0, <1>1, <1>2, <1>5 DEF TestInv, AcceptInv
<1>7. SubmitInv'
  BY <1>1, <1>5, ThreadsDiffer DEF TestInv, SubmitInv
<1>8. QueueInv'
  <2>1. \A c \in Clients : pc'[c] \in {"new", "connect"} => pc[c] \in {"new", "connect"}
    BY <1>1, <1>5
  <2> QED BY <1>0, <2>1 DEF TestInv, QueueInv, Ungreeted, Outside
<1>9. ThanksInv'
  <2>1. \A c \in Clients : pc'[c] # "done" => pc[c] # "done"
    BY <1>1, <1>5
  <2> QED BY <1>0, <2>1 DEF TestInv, ThanksInv
<1>10. TurnInv'
  <2>1. \A c \in Clients : pc'[c] \in {"enter", "recv"} => pc[c] \in {"enter", "recv"}
    BY <1>1, <1>2, <1>5
  <2>2. pc'[Server] \in {"greet", "enter", "recv"} => pc'[Server] = pc[Server]
    BY <1>1, <1>2, <1>5
  <2> QED BY <1>0, <2>1, <2>2 DEF TestInv, TurnInv, Ungreeted
<1> QED BY <1>4, <1>6, <1>7, <1>8, <1>9, <1>10 DEF TestInv

LEMMA MainGoesOnKeeps ==
  ASSUME TestInv, MainGoesOn
  PROVE  TestInv'
<1>0. UNCHANGED <<jobj, accepting>> /\ Bystanders /\ UNCHANGED Collector
  BY DEF MainGoesOn, Bystanders, kvars
<1>1. /\ Server \in Tasks /\ Client1 \in Tasks /\ Client2 \in Tasks
      /\ Server # Client1 /\ Server # Client2 /\ Client1 # Client2
  BY ThreadsDiffer DEF Tasks, Clients
<1>2. CASE Submits("submit", Server, "submit1")
  <2>1. pc[Server] = "new"
    BY <1>2 DEF TestInv, SubmitInv, Submits, BeforeServer
  <2> QED BY <1>0, <1>1, <1>2, <2>1, SubmitsKeeps
          DEF BeforeServer, BeforeClient1, BeforeClient2, Places
<1>3. CASE Submits("submit1", Client1, "get1")
  <2>1. pc[Client1] = "new"
    BY <1>3 DEF TestInv, SubmitInv, Submits, BeforeServer, BeforeClient1
  <2> QED BY <1>0, <1>1, <1>3, <2>1, SubmitsKeeps
          DEF BeforeServer, BeforeClient1, BeforeClient2, Places
<1>4. CASE Submits("submit2", Client2, "get2")
  <2>1. pc[Client2] = "new"
    BY <1>4 DEF TestInv, SubmitInv, Submits, BeforeServer, BeforeClient1, BeforeClient2
  <2> QED BY <1>0, <1>1, <1>4, <2>1, SubmitsKeeps
          DEF BeforeServer, BeforeClient1, BeforeClient2, Places
<1>5. CASE Gets("get1", Client1, "submit2")
  <2>1. pc[Main] = "get1" /\ \E place \in {"done", "submit2"} : Goto(Main, place)
    BY <1>5 DEF Gets, Step
  <2> QED BY <1>0, <2>1, MainMoves DEF BeforeServer, BeforeClient1, BeforeClient2, Places
<1>6. CASE Gets("get2", Client2, "getServer")
  <2>1. \E place \in {"done", "getServer"} : Goto(Main, place)
    BY <1>6 DEF Gets, Step
  <2> QED BY <1>0, <2>1, MainMoves DEF BeforeServer, BeforeClient1, BeforeClient2, Places
<1>7. CASE Gets("getServer", Server, "done")
  <2>1. Goto(Main, "done")
    BY <1>7 DEF Gets, Step
  <2> QED BY <1>0, <2>1, MainMoves DEF BeforeServer, BeforeClient1, BeforeClient2, Places
<1> QED BY <1>2, <1>3, <1>4, <1>5, <1>6, <1>7 DEF MainGoesOn

(* KernelServer.call() *)
LEMMA ServerAcceptsKeeps ==
  ASSUME TestInv, KTypeOK, ServerAccepts
  PROVE  TestInv'
<1> DEFINE r == Results[made + 1]
<1>0. /\ backlog' = backlog /\ serving' = serving /\ made' = made + 1
      /\ toClient' = toClient /\ toServer' = toServer /\ gc' = gc /\ stalled' = stalled
  BY DEF ServerAccepts, Streams, Collector
<1>1. made \in Nat /\ made + 1 \in 1 .. Len(Results)
  BY PingPongAssumption DEF ServerAccepts, TestInv, TestTypes
<1>2. r \in Objs /\ accepting' = [accepting EXCEPT ![r] = Server]
  BY <1>1, ResultsAreOthers DEF ServerAccepts, acceptBegins
<1>3. accepting'[r] = Server
  BY <1>2 DEF KTypeOK
<1>4. /\ pc' \in [Threads -> Places] /\ pc'[Server] = "accepting"
      /\ \A u \in Threads \ {Server} : pc'[u] = pc[u]
  <2>1. Goto(Server, "accepting")
    BY DEF ServerAccepts, Step
  <2> QED BY <2>1, GotoMoves, ThreadsDiffer DEF TestInv, Places
<1>5. pc'[Main] = pc[Main] /\ \A c \in Clients : pc'[c] = pc[c]
  BY <1>4, ThreadsDiffer
<1>6. TestTypes'
  BY <1>0, <1>1, <1>4 DEF TestInv, TestTypes
<1>7. AcceptInv'
  BY <1>0, <1>1, <1>3, <1>4 DEF AcceptInv
<1>8. SubmitInv'
  <2>1. pc[Server] = "accept"
    BY DEF ServerAccepts, Step
  <2> QED BY <1>5, <2>1, ThreadsDiffer DEF TestInv, SubmitInv
<1>9. QueueInv' /\ ThanksInv'
  BY <1>0, <1>5 DEF TestInv, QueueInv, ThanksInv, Ungreeted, Outside
<1>10. TurnInv'
  BY <1>4 DEF TurnInv
<1> QED BY <1>6, <1>7, <1>8, <1>9, <1>10 DEF TestInv

(* The head of the queue is nobody else in it. *)
LEMMA QueueHead ==
  ASSUME backlog \in Seq(Clients), backlog # <<>>, QueueInv
  PROVE  /\ Head(backlog) \in Clients /\ Tail(backlog) \in Seq(Clients)
         /\ Head(backlog) = backlog[1] /\ 1 \in 1 .. Len(backlog)
         /\ Len(Tail(backlog)) = Len(backlog) - 1 /\ Len(backlog) \in Nat
         /\ \A i \in 1 .. Len(Tail(backlog)) :
              /\ Tail(backlog)[i] = backlog[i + 1] /\ i + 1 \in 1 .. Len(backlog)
              /\ Tail(backlog)[i] # Head(backlog)
<1>1. /\ Head(backlog) \in Clients /\ Tail(backlog) \in Seq(Clients)
      /\ Head(backlog) = backlog[1] /\ 1 \in 1 .. Len(backlog)
      /\ Len(Tail(backlog)) = Len(backlog) - 1 /\ Len(backlog) \in Nat
  OBVIOUS
<1>2. ASSUME NEW i \in 1 .. Len(Tail(backlog))
      PROVE  Tail(backlog)[i] = backlog[i + 1] /\ i + 1 \in 1 .. Len(backlog)
  BY <1>1
<1>3. ASSUME NEW i \in 1 .. Len(Tail(backlog))
      PROVE  Tail(backlog)[i] # Head(backlog)
  <2>1. i + 1 # 1
    BY <1>1
  <2> QED BY <1>1, <1>2, <2>1 DEF QueueInv
<1> QED BY <1>1, <1>2, <1>3

LEMMA ServerGetsKeeps ==
  ASSUME TestInv, KTypeOK, ServerGetsConnection
  PROVE  TestInv'
<1> DEFINE r == Results[made]
<1>0. /\ backlog' = Tail(backlog) /\ serving' = Head(backlog) /\ made' = made
      /\ toClient' = toClient /\ toServer' = toServer /\ gc' = gc /\ stalled' = stalled
  BY DEF ServerGetsConnection, Streams, Collector
<1>1. pc[Server] = "accepting" /\ Goto(Server, "greet") /\ backlog # <<>>
  BY DEF ServerGetsConnection, Step, AfterAccept
<1>2. /\ pc' \in [Threads -> Places] /\ pc'[Server] = "greet"
      /\ \A u \in Threads \ {Server} : pc'[u] = pc[u]
  BY <1>1, GotoMoves, ThreadsDiffer DEF TestInv, Places
<1>3. pc'[Main] = pc[Main] /\ \A c \in Clients : pc'[c] = pc[c]
  BY <1>2, ThreadsDiffer
<1>4. made \in 1 .. Len(Results) /\ accepting[r] = Server
  BY <1>1, PingPongAssumption DEF TestInv, TestTypes, AcceptInv
<1>5. r \in Objs /\ r # Server /\ Server \in Objs
  BY <1>4, ResultsAreOthers, ThreadsDiffer DEF Tasks
<1>6. jobj'[r].sockId \in jobj'[Server].connectedSockets
  <2>1. PICK fd \in Fds :
          jobj' = [jobj EXCEPT ![r].sockId = fd, ![r].port = Port,
                               ![Server].connectedSockets = @ \cup {fd}]
    BY <1>4, NumbersAreFds DEF ServerGetsConnection, acceptReturns, Notes
  <2>2. jobj[r] \in JavaObject /\ jobj[Server] \in JavaObject
    BY <1>5 DEF KTypeOK
  <2>3. jobj'[r] = [jobj[r] EXCEPT !.sockId = fd, !.port = Port]
    BY <1>5, <2>1 DEF KTypeOK
  <2>4. jobj'[Server] = [jobj[Server] EXCEPT !.connectedSockets = @ \cup {fd}]
    BY <1>5, <2>1 DEF KTypeOK
  <2>5. jobj'[r].sockId = fd
    BY <2>2, <2>3 DEF JavaObject
  <2>6. fd \in jobj'[Server].connectedSockets
    BY <2>2, <2>4 DEF JavaObject
  <2> QED BY <2>5, <2>6
<1>7. /\ serving' \in Clients /\ backlog' \in Seq(Clients)
      /\ Ungreeted(serving') /\ serving' = backlog[1]
      /\ 1 \in 1 .. Len(backlog)
      /\ Len(backlog') = Len(backlog) - 1 /\ Len(backlog) \in Nat
      /\ \A i \in 1 .. Len(backlog') :
           /\ backlog'[i] = backlog[i + 1] /\ i + 1 \in 1 .. Len(backlog)
           /\ backlog'[i] # serving'
  BY <1>0, <1>1, QueueHead DEF TestInv, TestTypes, QueueInv
<1>8. TestTypes'
  BY <1>0, <1>2, <1>7 DEF TestInv, TestTypes
<1>9. AcceptInv'
  BY <1>0, <1>2, <1>4, <1>6 DEF AcceptInv
<1>10. SubmitInv'
  BY <1>1, <1>3, ThreadsDiffer DEF TestInv, SubmitInv
<1>11. QueueInv'
  <2>1. ASSUME NEW c \in Clients, pc'[c] \in {"new", "connect"}
        PROVE  toClient'[c] = 0 /\ c # serving' /\ \A i \in 1 .. Len(backlog') : backlog'[i] # c
    <3>1. Ungreeted(c) /\ \A i \in 1 .. Len(backlog) : backlog[i] # c
      BY <1>3, <2>1 DEF TestInv, QueueInv, Outside
    <3> QED BY <1>0, <1>7, <3>1 DEF Ungreeted
  <2>2. \A i \in 1 .. Len(backlog') : toClient'[backlog'[i]] = 0 /\ backlog'[i] # serving'
    BY <1>0, <1>7 DEF TestInv, QueueInv, Ungreeted
  <2>3. ASSUME NEW i \in 1 .. Len(backlog'), NEW j \in 1 .. Len(backlog'), backlog'[i] = backlog'[j]
        PROVE  i = j
    <3>1. backlog[i + 1] = backlog[j + 1] /\ i + 1 \in 1 .. Len(backlog) /\ j + 1 \in 1 .. Len(backlog)
      BY <1>7, <2>3
    <3>2. i + 1 = j + 1
      BY <3>1 DEF TestInv, QueueInv
    <3> QED BY <1>7, <3>2
  <2> QED BY <2>1, <2>2, <2>3 DEF QueueInv, Ungreeted, Outside
<1>12. ThanksInv'
  BY <1>0, <1>3 DEF TestInv, ThanksInv
<1>13. TurnInv'
  BY <1>0, <1>2, <1>7 DEF TurnInv, Ungreeted
<1> QED BY <1>8, <1>9, <1>10, <1>11, <1>12, <1>13 DEF TestInv

LEMMA ServerGreetsKeeps ==
  ASSUME TestInv, ServerGreets
  PROVE  TestInv'
<1>0. /\ backlog' = backlog /\ serving' = serving /\ made' = made
      /\ toServer' = toServer /\ gc' = gc /\ stalled' = stalled
      /\ jobj' = jobj /\ accepting' = accepting
  BY DEF ServerGreets, Accepting, Collector, kvars
<1>1. pc[Server] = "greet" /\ Goto(Server, "enter")
  BY DEF ServerGreets, Step
<1>2. /\ pc' \in [Threads -> Places] /\ pc'[Server] = "enter"
      /\ \A u \in Threads \ {Server} : pc'[u] = pc[u]
  BY <1>1, GotoMoves, ThreadsDiffer DEF TestInv, Places
<1>3. pc'[Main] = pc[Main] /\ \A c \in Clients : pc'[c] = pc[c]
  BY <1>2, ThreadsDiffer
<1>4. serving \in Clients /\ toClient[serving] = 0 /\ Pieces \in Nat \ {0}
  BY <1>1, PingPongAssumption DEF TestInv, TurnInv, Ungreeted
<1>5. toClient' = [toClient EXCEPT ![serving] = @ + Pieces]
  BY <1>1 DEF TestInv, AcceptInv, ServerGreets
<1>6. /\ toClient' \in [Clients -> 0 .. Pieces] /\ toClient'[serving] > 0
      /\ \A c \in Clients \ {serving} : toClient'[c] = toClient[c]
  BY <1>4, <1>5 DEF TestInv, TestTypes
<1>7. TestTypes'
  BY <1>0, <1>2, <1>6 DEF TestInv, TestTypes
<1>8. AcceptInv'
  BY <1>2 DEF AcceptInv
<1>9. SubmitInv'
  BY <1>1, <1>3, ThreadsDiffer DEF TestInv, SubmitInv
<1>10. QueueInv'
  <2>1. \A c \in Clients : pc'[c] \in {"new", "connect"} =>
          toClient'[c] = 0 /\ c # serving /\ \A i \in 1 .. Len(backlog) : backlog[i] # c
    BY <1>3, <1>6 DEF TestInv, QueueInv, Ungreeted, Outside
  <2>2. \A i \in 1 .. Len(backlog) : backlog[i] \in Clients
    BY DEF TestInv, TestTypes
  <2>3. \A i \in 1 .. Len(backlog) : toClient'[backlog[i]] = 0 /\ backlog[i] # serving
    BY <1>6, <2>2 DEF TestInv, QueueInv, Ungreeted
  <2> QED BY <1>0, <2>1, <2>3 DEF TestInv, QueueInv, Ungreeted, Outside
<1>11. ThanksInv'
  BY <1>0, <1>3 DEF TestInv, ThanksInv
<1>12. TurnInv'
  BY <1>0, <1>2, <1>4, <1>6 DEF TurnInv
<1> QED BY <1>7, <1>8, <1>9, <1>10, <1>11, <1>12 DEF TestInv

LEMMA ServerReceivesKeeps ==
  ASSUME TestInv, ServerReceives
  PROVE  TestInv'
<1>0. /\ backlog' = backlog /\ serving' = serving /\ made' = made
      /\ toClient' = toClient /\ gc' = gc /\ stalled' = stalled
      /\ jobj' = jobj /\ accepting' = accepting
  BY DEF ServerReceives, Accepting, Collector, kvars
<1>1. pc[Server] = "recv" /\ Goto(Server, "accept")
  BY DEF ServerReceives, Step, AfterReceive
<1>2. /\ pc' \in [Threads -> Places] /\ pc'[Server] = "accept"
      /\ \A u \in Threads \ {Server} : pc'[u] = pc[u]
  BY <1>1, GotoMoves, ThreadsDiffer DEF TestInv, Places
<1>3. pc'[Main] = pc[Main] /\ \A c \in Clients : pc'[c] = pc[c]
  BY <1>2, ThreadsDiffer
<1>4. serving \in Clients
  BY <1>1 DEF TestInv, TurnInv
<1>5. PICK n \in 1 .. toServer[serving] : toServer' = [toServer EXCEPT ![serving] = @ - n]
  BY DEF ServerReceives
<1>6. toServer[serving] \in 0 .. Pieces /\ toServer[serving] # 0 /\ Pieces \in Nat
  BY <1>4, <1>5, PingPongAssumption DEF TestInv, TestTypes
<1>7. /\ toServer' \in [Clients -> 0 .. Pieces]
      /\ \A c \in Clients \ {serving} : toServer'[c] = toServer[c]
  BY <1>4, <1>5, <1>6 DEF TestInv, TestTypes
<1>8. TestTypes'
  BY <1>0, <1>2, <1>7 DEF TestInv, TestTypes
<1>9. AcceptInv' /\ TurnInv'
  BY <1>2 DEF AcceptInv, TurnInv
<1>10. SubmitInv'
  BY <1>1, <1>3, ThreadsDiffer DEF TestInv, SubmitInv
<1>11. QueueInv'
  BY <1>0, <1>3 DEF TestInv, QueueInv, Ungreeted, Outside
<1>12. ThanksInv'
  <2>1. pc[serving] = "done"
    BY <1>4, <1>6 DEF TestInv, ThanksInv
  <2> QED BY <1>3, <1>7, <2>1 DEF TestInv, ThanksInv
<1> QED BY <1>8, <1>9, <1>10, <1>11, <1>12 DEF TestInv

LEMMA ServerMovesKeeps ==
  ASSUME TestInv,
         \/ ServerBinds \/ ServerListens \/ ServerEnters \/ ServerBindThrows
         \/ ServerTrafficThrows \/ ServerAcceptThrows
  PROVE  TestInv'
<1>0. Server \in Tasks
  BY DEF Tasks
<1>1. Bystanders /\ UNCHANGED Collector
  BY DEF ServerBinds, ServerListens, ServerEnters, ServerBindThrows, ServerTrafficThrows,
         ServerAcceptThrows, Threw, Enter, Bystanders
<1>2. \E place \in {"listen", "accept", "recv", "threw"} :
        /\ Goto(Server, place)
        /\ pc[Server] \in {"bind", "listen", "enter", "greet", "recv", "accepting"}
        /\ place = "recv" => pc[Server] = "enter"
  BY DEF ServerBinds, ServerListens, ServerEnters, ServerBindThrows, ServerTrafficThrows,
         ServerAcceptThrows, Threw, Enter, Step
<1>3. PICK place \in {"listen", "accept", "recv", "threw"} :
        /\ Goto(Server, place)
        /\ pc[Server] \in {"bind", "listen", "enter", "greet", "recv", "accepting"}
        /\ place = "recv" => pc[Server] = "enter"
  BY <1>2
<1>4. place \in Places
  BY DEF Places
<1> QED BY <1>0, <1>1, <1>3, <1>4, TaskMoves

(* KernelClient.call() *)
LEMMA ClientMovesKeeps ==
  ASSUME TestInv, NEW c \in Clients,
         ClientEnters(c) \/ ClientConnectThrows(c) \/ ClientTrafficThrows(c)
  PROVE  TestInv'
<1>0. c \in Tasks
  BY DEF Tasks
<1>1. Bystanders /\ UNCHANGED Collector /\ UNCHANGED <<jobj, accepting>>
  BY DEF ClientEnters, ClientConnectThrows, ClientTrafficThrows, Threw, Enter, Bystanders, kvars
<1>2. \E place \in {"recv", "threw"} :
        /\ Goto(c, place) /\ pc[c] \in {"connect", "enter", "recv", "thank"}
        /\ place = "recv" => pc[c] = "enter"
  BY DEF ClientEnters, ClientConnectThrows, ClientTrafficThrows, Threw, Enter, Step
<1>3. PICK place \in {"recv", "threw"} :
        /\ Goto(c, place) /\ pc[c] \in {"connect", "enter", "recv", "thank"}
        /\ place = "recv" => pc[c] = "enter"
  BY <1>2
<1>4. place \in Places
  BY DEF Places
<1> QED BY <1>0, <1>1, <1>3, <1>4, TaskMoves

(* A client's own step leaves the other threads and what SubmitInv says. *)
LEMMA ClientGoes ==
  ASSUME TestInv, NEW c \in Clients, NEW from \in Places \ {"new"}, NEW to \in Places,
         Step(c, from, to)
  PROVE  /\ pc' \in [Threads -> Places] /\ pc[c] = from /\ pc'[c] = to
         /\ pc'[Server] = pc[Server] /\ \A d \in Clients \ {c} : pc'[d] = pc[d]
         /\ SubmitInv'
<1>1. pc[c] = from /\ Goto(c, to)
  BY DEF Step
<1>2. /\ pc' \in [Threads -> Places] /\ pc'[c] = to
      /\ \A u \in Threads \ {c} : pc'[u] = pc[u]
  BY <1>1, GotoMoves, ThreadsDiffer DEF TestInv
<1>3. /\ pc'[Server] = pc[Server] /\ pc'[Main] = pc[Main]
      /\ \A d \in Clients \ {c} : pc'[d] = pc[d]
  BY <1>2, ThreadsDiffer
<1>4. SubmitInv'
  BY <1>1, <1>3, ThreadsDiffer DEF TestInv, SubmitInv
<1> QED BY <1>1, <1>2, <1>3, <1>4

LEMMA ClientConnectsKeeps ==
  ASSUME TestInv, KTypeOK, NEW c \in Clients, ClientConnects(c)
  PROVE  TestInv'
<1>0. /\ backlog' = Append(backlog, c) /\ serving' = serving /\ made' = made
      /\ toClient' = toClient /\ toServer' = toServer /\ gc' = gc /\ stalled' = stalled
  BY DEF ClientConnects, Streams, Collector
<1>1. /\ pc' \in [Threads -> Places] /\ pc[c] = "connect" /\ pc'[c] = "enter"
      /\ pc'[Server] = pc[Server] /\ \A d \in Clients \ {c} : pc'[d] = pc[d]
      /\ SubmitInv'
  BY ClientGoes DEF ClientConnects, Places
<1>2. toClient[c] = 0 /\ c # serving /\ \A i \in 1 .. Len(backlog) : backlog[i] # c
  BY <1>1 DEF TestInv, QueueInv, Ungreeted, Outside
<1>3. /\ backlog' \in Seq(Clients) /\ Len(backlog) \in Nat
      /\ Len(backlog') = Len(backlog) + 1 /\ backlog'[Len(backlog) + 1] = c
      /\ \A i \in 1 .. Len(backlog) : backlog'[i] = backlog[i]
  BY <1>0 DEF TestInv, TestTypes
<1>4. TestTypes'
  BY <1>0, <1>1, <1>3 DEF TestInv, TestTypes
<1>5. AcceptInv'
  <2>1. accepting' = accepting /\ c \in Objs /\ Server \in Objs /\ c # Server
    BY ThreadsDiffer DEF ClientConnects, tcpConnect, Calls, Throws, kvars
  <2>2. jobj' = jobj \/ jobj' = [jobj EXCEPT ![c].connected = TRUE]
    BY DEF ClientConnects, tcpConnect, Throws, kvars
  <2>3. \A o \in Objs : o # c => jobj'[o] = jobj[o]
    BY <2>1, <2>2 DEF KTypeOK
  <2>4. pc[Server] = "greet" => Results[made] \in Objs /\ Results[made] # c
    <3>1. pc[Server] = "greet" => made \in 1 .. Len(Results)
      BY PingPongAssumption DEF TestInv, TestTypes, AcceptInv
    <3> QED BY <3>1, ResultsAreOthers DEF Tasks
  <2> QED BY <1>0, <1>1, <2>1, <2>3, <2>4 DEF TestInv, AcceptInv
<1>6. QueueInv'
  <2>0. \A i \in 1 .. Len(backlog') : i = Len(backlog) + 1 \/ i \in 1 .. Len(backlog)
    BY <1>3
  <2>1. ASSUME NEW d \in Clients, pc'[d] \in {"new", "connect"}
        PROVE  toClient'[d] = 0 /\ d # serving' /\ \A i \in 1 .. Len(backlog') : backlog'[i] # d
    <3>1. d # c /\ pc[d] \in {"new", "connect"}
      BY <1>1, <2>1
    <3>2. toClient[d] = 0 /\ d # serving /\ \A i \in 1 .. Len(backlog) : backlog[i] # d
      BY <3>1 DEF TestInv, QueueInv, Ungreeted, Outside
    <3> QED BY <1>0, <1>3, <2>0, <3>1, <3>2
  <2>2. \A i \in 1 .. Len(backlog') : toClient'[backlog'[i]] = 0 /\ backlog'[i] # serving'
    BY <1>0, <1>2, <1>3, <2>0 DEF TestInv, QueueInv, Ungreeted
  <2>3. ASSUME NEW i \in 1 .. Len(backlog'), NEW j \in 1 .. Len(backlog'), backlog'[i] = backlog'[j]
        PROVE  i = j
    <3>1. CASE i \in 1 .. Len(backlog) /\ j \in 1 .. Len(backlog)
      BY <1>3, <2>3, <3>1 DEF TestInv, QueueInv
    <3>2. CASE i = Len(backlog) + 1 \/ j = Len(backlog) + 1
      BY <1>2, <1>3, <2>0, <2>3, <3>2
    <3> QED BY <2>0, <3>1, <3>2
  <2> QED BY <2>1, <2>2, <2>3 DEF QueueInv, Ungreeted, Outside
<1>7. ThanksInv'
  <2>1. pc[c] # "done"
    BY <1>1
  <2> QED BY <1>0, <1>1, <2>1 DEF TestInv, ThanksInv
<1>8. TurnInv'
  <2>1. pc'[serving] = pc[serving] \/ serving \notin Clients
    BY <1>1, <1>2
  <2> QED BY <1>0, <1>1, <2>1 DEF TestInv, TurnInv, Ungreeted
<1> QED BY <1>1, <1>4, <1>5, <1>6, <1>7, <1>8 DEF TestInv

LEMMA ClientReceivesKeeps ==
  ASSUME TestInv, NEW c \in Clients, ClientReceives(c)
  PROVE  TestInv'
<1>0. /\ backlog' = backlog /\ serving' = serving /\ made' = made
      /\ toServer' = toServer /\ gc' = gc /\ stalled' = stalled
      /\ jobj' = jobj /\ accepting' = accepting
  BY DEF ClientReceives, Accepting, Collector, kvars
<1>1. /\ pc' \in [Threads -> Places] /\ pc[c] = "recv" /\ pc'[c] = "thank"
      /\ pc'[Server] = pc[Server] /\ \A d \in Clients \ {c} : pc'[d] = pc[d]
      /\ SubmitInv'
  BY ClientGoes DEF ClientReceives, Places
<1>2. PICK n \in 1 .. toClient[c] : toClient' = [toClient EXCEPT ![c] = @ - n]
  BY DEF ClientReceives
<1>3. toClient[c] \in 0 .. Pieces /\ toClient[c] # 0 /\ Pieces \in Nat
  BY <1>2, PingPongAssumption DEF TestInv, TestTypes
<1>4. /\ toClient' \in [Clients -> 0 .. Pieces]
      /\ \A d \in Clients \ {c} : toClient'[d] = toClient[d]
  BY <1>2, <1>3 DEF TestInv, TestTypes
<1>5. TestTypes'
  BY <1>0, <1>1, <1>4 DEF TestInv, TestTypes
<1>6. AcceptInv'
  BY <1>0, <1>1 DEF TestInv, AcceptInv
<1>7. QueueInv'
  <2>1. \A d \in Clients : pc'[d] \in {"new", "connect"} => d # c /\ pc[d] \in {"new", "connect"}
    BY <1>1
  <2>2. \A i \in 1 .. Len(backlog) : backlog[i] \in Clients /\ backlog[i] # c
    BY <1>3 DEF TestInv, TestTypes, QueueInv, Ungreeted
  <2> QED BY <1>0, <1>4, <2>1, <2>2 DEF TestInv, QueueInv, Ungreeted, Outside
<1>8. ThanksInv'
  <2>1. \A d \in Clients : pc'[d] # "done" => pc[d] # "done"
    BY <1>1
  <2> QED BY <1>0, <2>1 DEF TestInv, ThanksInv
<1>9. TurnInv'
  <2>1. pc[Server] = "greet" => serving # c
    BY <1>3 DEF TestInv, TurnInv, Ungreeted
  <2> QED BY <1>0, <1>1, <1>4, <2>1 DEF TestInv, TurnInv, Ungreeted
<1> QED BY <1>1, <1>5, <1>6, <1>7, <1>8, <1>9 DEF TestInv

LEMMA ClientThanksKeeps ==
  ASSUME TestInv, NEW c \in Clients, ClientThanks(c)
  PROVE  TestInv'
<1>0. /\ backlog' = backlog /\ serving' = serving /\ made' = made
      /\ toClient' = toClient /\ gc' = gc /\ stalled' = stalled
      /\ jobj' = jobj /\ accepting' = accepting
  BY DEF ClientThanks, Accepting, Collector, kvars
<1>1. /\ pc' \in [Threads -> Places] /\ pc[c] = "thank" /\ pc'[c] = "done"
      /\ pc'[Server] = pc[Server] /\ \A d \in Clients \ {c} : pc'[d] = pc[d]
      /\ SubmitInv'
  BY ClientGoes DEF ClientThanks, Places
<1>2. toServer[c] = 0 /\ Pieces \in Nat
  BY <1>1, PingPongAssumption DEF TestInv, ThanksInv
<1>3. /\ toServer' \in [Clients -> 0 .. Pieces]
      /\ \A d \in Clients \ {c} : toServer'[d] = toServer[d]
  <2>1. toServer' = toServer \/ toServer' = [toServer EXCEPT ![c] = @ + Pieces]
    BY DEF ClientThanks
  <2>2. toServer \in [Clients -> 0 .. Pieces]
    BY DEF TestInv, TestTypes
  <2>3. CASE toServer' = [toServer EXCEPT ![c] = @ + Pieces]
    <3>1. toServer[c] + Pieces \in 0 .. Pieces
      BY <1>2
    <3> QED BY <2>2, <2>3, <3>1
  <2> QED BY <2>1, <2>2, <2>3
<1>4. TestTypes'
  BY <1>0, <1>1, <1>3 DEF TestInv, TestTypes
<1>5. AcceptInv'
  BY <1>0, <1>1 DEF TestInv, AcceptInv
<1>6. QueueInv'
  <2>1. \A d \in Clients : pc'[d] \in {"new", "connect"} => pc[d] \in {"new", "connect"}
    BY <1>1
  <2> QED BY <1>0, <2>1 DEF TestInv, QueueInv, Ungreeted, Outside
<1>7. ThanksInv'
  BY <1>1, <1>3 DEF TestInv, ThanksInv
<1>8. TurnInv'
  BY <1>0, <1>1 DEF TestInv, TurnInv, Ungreeted
<1> QED BY <1>1, <1>4, <1>5, <1>6, <1>7, <1>8 DEF TestInv

-----------------------------------------------------------------------------
LEMMA InitTInv ==
  ASSUME KernelAssumption, TInit
  PROVE  TInv
<1>0. backlog = <<>> /\ serving = NoObj /\ \A t \in Threads : t # Main => pc[t] = "new"
  BY DEF TInit
<1>1. KTypeOK
  BY InitType DEF TInit
<1>2. pc[Main] = "socket1" /\ pc[Server] = "new" /\ \A c \in Clients : pc[c] = "new" /\ c # NoObj
  BY ThreadsDiffer, KernelAssumption DEF TInit
<1>3. TestTypes
  <2>1. pc \in [Threads -> Places]
    BY DEF TInit, Places
  <2>2. 0 \in 0 .. Pieces /\ 0 \in 0 .. Len(Results)
    BY PingPongAssumption
  <2>3. /\ toClient \in [Clients -> 0 .. Pieces] /\ toServer \in [Clients -> 0 .. Pieces]
        /\ made \in 0 .. Len(Results)
    BY <2>2 DEF TInit
  <2>4. gc \in BOOLEAN /\ stalled \subseteq Threads
    BY DEF TInit
  <2>5. backlog \in Seq(Clients)
    BY <1>0
  <2> QED BY <1>0, <2>1, <2>3, <2>4, <2>5 DEF TestTypes
<1>4. AcceptInv /\ SubmitInv
  BY <1>2, ThreadsDiffer DEF AcceptInv, SubmitInv, BeforeServer
<1>5. QueueInv
  <2>1. 1 .. Len(backlog) = {}
    BY <1>0
  <2> QED BY <1>0, <1>2, <2>1 DEF TInit, QueueInv, Ungreeted, Outside
<1>6. ThanksInv /\ TurnInv
  BY <1>2 DEF TInit, ThanksInv, TurnInv
<1> QED BY <1>1, <1>3, <1>4, <1>5, <1>6, TInvIs DEF TestInv

LEMMA NextTInv ==
  ASSUME KernelAssumption, TInv, [TNext]_tcpvars
  PROVE  TInv'
<1>0. KTypeOK /\ TestInv
  BY TInvIs
<1>1. KTypeOK'
  BY <1>0, StepIsKernelStep, NextType DEF TInv
<1>2. ASSUME MainMakes \/ MainGoesOn PROVE TestInv'
  BY <1>0, <1>2, MainMakesKeeps, MainGoesOnKeeps
<1>3. ASSUME ServerGoesOn \/ ServerAcceptThrows \/ ServerTrafficThrows PROVE TestInv'
  BY <1>0, <1>3, ServerMovesKeeps, ServerAcceptsKeeps, ServerGetsKeeps, ServerGreetsKeeps,
     ServerReceivesKeeps DEF ServerGoesOn
<1>4. ASSUME NEW c \in Clients, ClientGoesOn(c) \/ ClientTrafficThrows(c) PROVE TestInv'
  BY <1>0, <1>4, ClientMovesKeeps, ClientConnectsKeeps, ClientReceivesKeeps, ClientThanksKeeps
     DEF ClientGoesOn
<1>5. ASSUME Collect \/ \E t \in Threads : Exhausts(t) PROVE TestInv'
  <2>1. UNCHANGED <<jobj, accepting, pc, Accepting, Streams>>
    BY <1>5 DEF Collect, Exhausts, kvars
  <2>2. gc' \in BOOLEAN /\ stalled' \subseteq Threads
    BY <1>0, <1>5 DEF Collect, Exhausts, TestInv, TestTypes
  <2> QED BY <1>0, <2>1, <2>2, NothingMoves
<1>6. ASSUME UNCHANGED tcpvars PROVE TestInv'
  <2>1. UNCHANGED <<jobj, accepting, pc, Accepting, Streams>>
    BY <1>6 DEF tcpvars, kvars, pvars, Accepting, Streams
  <2>2. gc' \in BOOLEAN /\ stalled' \subseteq Threads
    BY <1>0, <1>6 DEF tcpvars, pvars, TestInv, TestTypes
  <2> QED BY <1>0, <2>1, <2>2, NothingMoves
<1>7. TestInv'
  BY <1>2, <1>3, <1>4, <1>5, <1>6 DEF TNext
<1>8. TInv' <=> KTypeOK' /\ TestInv'
  BY TInvIs, PTL
<1> QED BY <1>1, <1>7, <1>8

LEMMA PingPongInvariance == TSpec => []TInv
<1>1. TInit => TInv
  BY InitTInv, KernelAssumption
<1>2. TInv /\ [TNext]_tcpvars => TInv'
  BY NextTInv, KernelAssumption
<1> QED BY <1>1, <1>2, PTL DEF TSpec

-----------------------------------------------------------------------------
(* Whom the server may wait for.  A client that waits or answers knows     *)
(* that it is connected, so its answer is not dropped; and one that is     *)
(* done and not heard yet has its answer on the way.                       *)
ClientPlaces == {"new", "connect", "enter", "recv", "thank", "done", "threw"}
Busy == {"greet", "enter", "recv"}
Unheard(c) ==
  \/ \E i \in 1 .. Len(backlog) : backlog[i] = c
  \/ c = serving /\ pc[Server] \in Busy

SentInv ==
  \A c \in Clients :
    /\ pc[c] \in ClientPlaces
    /\ pc[c] \in {"enter", "recv", "thank"} => jobj[c].connected
    /\ pc[c] = "done" /\ Unheard(c) => toServer[c] > 0

(* No step takes the connection from a client. *)
LEMMA ConnectionsStay ==
  ASSUME KernelAssumption, KTypeOK, TestInv, TNext, NEW c \in Clients,
         pc[c] # "new", jobj[c].connected
  PROVE  jobj'[c].connected
<1>0. /\ c \in Objs /\ c \in Tasks /\ c # Server /\ Server \in Objs
      /\ jobj[c] \in JavaObject
  BY ThreadsDiffer DEF KTypeOK, Tasks
<1>1. CASE jobj' = jobj
  BY <1>1
<1>2. ASSUME NEW o \in Objs \ {c}, jobj' = [jobj EXCEPT ![o] = jobj'[o]] PROVE jobj'[c].connected
  BY <1>0, <1>2 DEF KTypeOK
<1>3. CASE MainMakes
  <2>1. pc[Main] \in BeforeServer
    BY <1>3 DEF MainMakes, Step, BeforeServer
  <2>2. pc[Client1] = "new" /\ pc[Client2] = "new"
    BY <2>1 DEF TestInv, SubmitInv, BeforeClient1, BeforeClient2
  <2> QED BY <2>2 DEF Clients
<1>4. CASE MainGoesOn
  BY <1>1, <1>4 DEF MainGoesOn, kvars
<1>5. CASE ServerBinds
  <2>1. jobj' = jobj \/ jobj' = [jobj EXCEPT ![Server].bound = TRUE, ![Server].port = Port]
    BY <1>5 DEF ServerBinds, tcpBind, Throws, kvars
  <2> QED BY <1>0, <2>1 DEF KTypeOK
<1>6. CASE ServerListens
  BY <1>1, <1>6 DEF ServerListens, tcpListen
<1>7. CASE ServerAccepts
  <2>1. made + 1 \in 1 .. Len(Results)
    BY <1>7, PingPongAssumption DEF ServerAccepts, TestInv, TestTypes
  <2>2. Results[made + 1] # c /\ \E fd : jobj' = [jobj EXCEPT ![Results[made + 1]] = NewObj("tcp", fd)]
    BY <1>0, <1>7, <2>1, ResultsAreOthers DEF ServerAccepts, acceptBegins
  <2> QED BY <1>0, <2>2 DEF KTypeOK
<1>8. CASE ServerGetsConnection \/ ServerAcceptThrows
  <2> DEFINE r == Results[made]
  <2>1. made \in 1 .. Len(Results) /\ accepting[r] = Server
    BY <1>8, PingPongAssumption
       DEF ServerGetsConnection, ServerAcceptThrows, Step, TestInv, TestTypes, AcceptInv
  <2>2. r \in Objs /\ r # c
    BY <1>0, <2>1, ResultsAreOthers
  <2>3. CASE ServerGetsConnection
    <3>1. PICK fd : jobj' = [jobj EXCEPT ![r].sockId = fd, ![r].port = Port,
                                        ![Server].connectedSockets = @ \cup {Notes(r, fd)}]
      BY <2>1, <2>3 DEF ServerGetsConnection, acceptReturns
    <3> QED BY <1>0, <2>2, <3>1 DEF KTypeOK
  <2>4. CASE ServerAcceptThrows
    <3>1. jobj' = [jobj EXCEPT ![r] = NoObject]
      BY <2>4 DEF ServerAcceptThrows, acceptThrows
    <3> QED BY <1>0, <2>2, <3>1 DEF KTypeOK
  <2> QED BY <1>8, <2>3, <2>4
<1>9. CASE \/ ServerBindThrows \/ ServerGreets \/ ServerEnters \/ ServerReceives \/ ServerTrafficThrows
           \/ Collect \/ \E t \in Threads : Exhausts(t)
  BY <1>1, <1>9 DEF ServerBindThrows, ServerGreets, ServerEnters, ServerReceives,
                    ServerTrafficThrows, Collect, Exhausts, Threw, Enter, kvars
<1>10. ASSUME NEW d \in Clients, ClientGoesOn(d) \/ ClientTrafficThrows(d) PROVE jobj'[c].connected
  <2>1. CASE ClientConnects(d)
    <3>1. jobj' = jobj \/ jobj' = [jobj EXCEPT ![d].connected = TRUE]
      BY <2>1 DEF ClientConnects, tcpConnect, Throws, kvars
    <3> QED BY <1>0, <3>1 DEF KTypeOK, JavaObject
  <2>2. CASE \/ ClientConnectThrows(d) \/ ClientEnters(d) \/ ClientReceives(d) \/ ClientThanks(d)
             \/ ClientTrafficThrows(d)
    BY <1>1, <2>2 DEF ClientConnectThrows, ClientEnters, ClientReceives, ClientThanks,
                      ClientTrafficThrows, Threw, Enter, kvars
  <2> QED BY <1>10, <2>1, <2>2 DEF ClientGoesOn
<1> QED BY <1>3, <1>4, <1>5, <1>6, <1>7, <1>8, <1>9, <1>10 DEF TNext, ServerGoesOn

(* Steps by which no client gets done and the server gets nobody to serve. *)
LEMMA NobodyGetsDone ==
  ASSUME SentInv, UNCHANGED <<backlog, serving, toServer>>,
         pc'[Server] \in Busy => pc[Server] \in Busy,
         \A c \in Clients :
           /\ pc'[c] = pc[c] \/ pc'[c] \in {"connect", "recv", "thank", "threw"}
           /\ pc'[c] \in {"enter", "recv", "thank"} =>
                pc[c] \in {"enter", "recv", "thank"} /\ jobj'[c].connected
  PROVE  SentInv'
<1>1. ASSUME NEW c \in Clients PROVE pc'[c] \in ClientPlaces
  BY <1>1 DEF SentInv, ClientPlaces
<1>2. ASSUME NEW c \in Clients, pc'[c] = "done", Unheard(c)' PROVE toServer'[c] > 0
  <2>1. pc[c] = "done" /\ Unheard(c)
    BY <1>2 DEF Unheard
  <2> QED BY <2>1 DEF SentInv
<1> QED BY <1>1, <1>2 DEF SentInv

LEMMA NextSentInv ==
  ASSUME KernelAssumption, TInv, SentInv, [TNext]_tcpvars
  PROVE  SentInv'
<1> USE ThreadsDiffer
<1>0. KTypeOK /\ TestInv
  BY TInvIs
<1>1. CASE UNCHANGED tcpvars
  BY <1>1, NobodyGetsDone DEF SentInv, tcpvars, kvars, pvars
<1>2. CASE TNext
  <2>1. ASSUME NEW c \in Clients, pc[c] \in {"enter", "recv", "thank"} PROVE jobj'[c].connected
    BY <1>0, <1>2, <2>1, ConnectionsStay DEF SentInv
  <2>2. pc \in [Threads -> Places] /\ backlog \in Seq(Clients)
    BY <1>0 DEF TestInv, TestTypes
  <2>3. CASE MainMakes \/ MainGoesOn
    <3>1. UNCHANGED <<backlog, serving, toServer>>
      BY <2>3 DEF MainMakes, MainGoesOn, Accepting, Streams
    <3>2. \A t \in Tasks : pc'[t] = pc[t] \/ pc'[t] = IF t = Server THEN "bind" ELSE "connect"
      BY <2>2, <2>3 DEF MainMakes, MainGoesOn, Step, Goto, Submits, Gets, Tasks, Clients
    <3>3. /\ pc'[Server] = pc[Server] \/ pc'[Server] = "bind"
          /\ \A c \in Clients : pc'[c] = pc[c] \/ pc'[c] = "connect"
      BY <3>2 DEF Tasks
    <3> QED BY <2>1, <3>1, <3>3, NobodyGetsDone DEF Busy
  <2>4. CASE \/ ServerBinds \/ ServerBindThrows \/ ServerListens \/ ServerAccepts
             \/ ServerGreets \/ ServerEnters \/ ServerAcceptThrows \/ ServerTrafficThrows
    <3>1. UNCHANGED <<backlog, serving, toServer>>
      BY <2>4 DEF ServerBinds, ServerBindThrows, ServerListens, ServerAccepts, ServerGreets,
                  ServerEnters, ServerAcceptThrows, ServerTrafficThrows, Threw, Enter,
                  Accepting, Streams
    <3>2. \E place \in {"listen", "accept", "accepting", "enter", "recv", "threw"} :
            Goto(Server, place) /\ (place \in Busy => pc[Server] \in Busy)
      BY <2>4 DEF ServerBinds, ServerBindThrows, ServerListens, ServerAccepts, ServerGreets,
                  ServerEnters, ServerAcceptThrows, ServerTrafficThrows, Threw, Enter, Step, Busy
    <3>3. /\ pc'[Server] \in Busy => pc[Server] \in Busy
          /\ \A c \in Clients : pc'[c] = pc[c]
      BY <2>2, <3>2 DEF Goto
    <3> QED BY <2>1, <3>1, <3>3, NobodyGetsDone
  <2>5. CASE ServerGetsConnection
    <3>1. /\ backlog' = Tail(backlog) /\ serving' = Head(backlog) /\ toServer' = toServer
          /\ Goto(Server, "greet") /\ backlog # <<>>
      BY <2>5 DEF ServerGetsConnection, Step, AfterAccept, Streams
    <3>2. \A c \in Clients : pc'[c] = pc[c]
      BY <2>2, <3>1 DEF Goto
    <3>3. /\ serving' = backlog[1] /\ 1 \in 1 .. Len(backlog)
          /\ \A i \in 1 .. Len(backlog') : backlog'[i] = backlog[i + 1] /\ i + 1 \in 1 .. Len(backlog)
      BY <1>0, <2>2, <3>1, QueueHead DEF TestInv
    <3>4. \A c \in Clients : Unheard(c)' => Unheard(c)
      BY <3>3 DEF Unheard
    <3> QED BY <2>1, <3>1, <3>2, <3>4 DEF SentInv
  <2>6. CASE ServerReceives
    <3>1. /\ backlog' = backlog /\ serving' = serving /\ Goto(Server, "accept")
          /\ \E n : toServer' = [toServer EXCEPT ![serving] = @ - n]
      BY <2>6 DEF ServerReceives, Step, AfterReceive, Accepting
    <3>2. pc'[Server] = "accept" /\ \A c \in Clients : pc'[c] = pc[c]
      BY <2>2, <3>1 DEF Goto
    <3>3. ASSUME NEW c \in Clients, Unheard(c)' PROVE Unheard(c) /\ c # serving
      BY <1>0, <3>1, <3>2, <3>3 DEF Unheard, Busy, TestInv, QueueInv
    <3>4. \A c \in Clients : c # serving => toServer'[c] = toServer[c]
      BY <1>0, <3>1 DEF TestInv, TestTypes
    <3> QED BY <2>1, <3>2, <3>3, <3>4 DEF SentInv
  <2>7. ASSUME NEW c \in Clients,
               \/ ClientConnectThrows(c) \/ ClientEnters(c) \/ ClientReceives(c)
               \/ ClientTrafficThrows(c)
        PROVE  SentInv'
    <3>1. UNCHANGED <<backlog, serving, toServer>>
      BY <2>7 DEF ClientConnectThrows, ClientEnters, ClientReceives, ClientTrafficThrows, Threw,
                  Enter, Accepting, Streams
    <3>2. \E place \in {"recv", "thank", "threw"} :
            Goto(c, place) /\ (place # "threw" => pc[c] \in {"enter", "recv", "thank"})
      BY <2>7 DEF ClientConnectThrows, ClientEnters, ClientReceives, ClientTrafficThrows, Threw,
                  Enter, Step
    <3>3. PICK place \in {"recv", "thank", "threw"} :
            Goto(c, place) /\ (place # "threw" => pc[c] \in {"enter", "recv", "thank"})
      BY <3>2
    <3>4. /\ pc'[c] = place /\ pc'[Server] = pc[Server]
          /\ \A d \in Clients \ {c} : pc'[d] = pc[d]
      BY <2>2, <3>3 DEF Goto
    <3> QED BY <2>1, <3>1, <3>3, <3>4, NobodyGetsDone
  <2>8. ASSUME NEW c \in Clients, ClientConnects(c) PROVE SentInv'
    <3>1. /\ backlog' = Append(backlog, c) /\ serving' = serving /\ toServer' = toServer
          /\ Goto(c, "enter") /\ jobj'[c].connected
      BY <2>8 DEF ClientConnects, Step, Streams
    <3>2. /\ pc'[c] = "enter" /\ pc'[Server] = pc[Server]
          /\ \A d \in Clients \ {c} : pc'[d] = pc[d]
      BY <2>2, <3>1 DEF Goto
    <3>3. \A i \in 1 .. Len(backlog') : (i \in 1 .. Len(backlog) /\ backlog'[i] = backlog[i]) \/ backlog'[i] = c
      BY <2>2, <3>1
    <3>4. \A d \in Clients \ {c} : Unheard(d)' => Unheard(d)
      BY <3>1, <3>2, <3>3 DEF Unheard
    <3> QED BY <2>1, <3>1, <3>2, <3>4 DEF SentInv, ClientPlaces
  <2>9. ASSUME NEW c \in Clients, ClientThanks(c) PROVE SentInv'
    <3>1. pc[c] = "thank" /\ backlog' = backlog /\ serving' = serving /\ Goto(c, "done")
      BY <2>9 DEF ClientThanks, Step, Accepting
    <3>2. /\ pc'[c] = "done" /\ pc'[Server] = pc[Server]
          /\ \A d \in Clients \ {c} : pc'[d] = pc[d]
      BY <2>2, <3>1 DEF Goto
    <3>3. toServer' = [toServer EXCEPT ![c] = @ + Pieces] /\ toServer[c] = 0
      BY <1>0, <2>9, <3>1 DEF ClientThanks, SentInv, TestInv, ThanksInv
    <3>4. toServer'[c] > 0 /\ \A d \in Clients \ {c} : toServer'[d] = toServer[d]
      BY <1>0, <3>3, PingPongAssumption DEF TestInv, TestTypes
    <3>5. \A d \in Clients : Unheard(d)' => Unheard(d)
      BY <3>1, <3>2 DEF Unheard
    <3> QED BY <2>1, <3>2, <3>4, <3>5 DEF SentInv, ClientPlaces
  <2>10. CASE Collect \/ \E t \in Threads : Exhausts(t)
    BY <2>1, <2>10, NobodyGetsDone DEF Collect, Exhausts, Accepting, Streams
  <2> QED BY <1>2, <2>3, <2>4, <2>5, <2>6, <2>7, <2>8, <2>9, <2>10
          DEF TNext, ServerGoesOn, ClientGoesOn
<1> QED BY <1>1, <1>2

(* The threads' places, the queue of the listener, the two streams of each *)
(* connection and the state of the sockets have their types: neither       *)
(* stream ever holds more than one message.                                *)
THEOREM PingPongTypes == TSpec => []TTypeOK
<1>1. TInv => TTypeOK
  BY DEF TInv
<1> QED BY <1>1, PingPongInvariance, PTL

(* The server and the client that it serves never both wait in recv() for  *)
(* the other's message, with nothing on the way: accept() has noted the    *)
(* connection before send(newConnection, ...) looks for it, and the server *)
(* sends before it receives.                                               *)
THEOREM NoMutualWait == TSpec => []NoCrossWait
<1>1. TInv => NoCrossWait
  BY DEF TInv, TurnInv, NoCrossWait
<1> QED BY <1>1, PingPongInvariance, PTL

(* The server waits in recv() only for a client that has yet to send, or   *)
(* whose native threw: a client that is done has not lost its answer, for  *)
(* it sends on a socket that connect() has marked, and the server reads    *)
(* from each connection once, so it never waits for the rest of a message. *)
THEOREM NobodyDoneIsAwaited == TSpec => []ServerWaitsForSomebody
<1>1. TInit => SentInv
  BY ThreadsDiffer DEF TInit, SentInv, ClientPlaces
<1>2. TInv /\ SentInv /\ [TNext]_tcpvars => SentInv'
  BY NextSentInv, KernelAssumption
<1>3. TInv /\ SentInv => ServerWaitsForSomebody
  <2>1. ASSUME TInv, SentInv, pc[Server] \in {"enter", "recv"}, toServer[serving] = 0
        PROVE  pc[serving] \in {"enter", "recv", "thank", "threw"}
    <3>1. serving \in Clients /\ pc[serving] \notin {"new", "connect"}
      BY <2>1 DEF TInv, TurnInv, QueueInv, Outside
    <3>2. pc[serving] # "done"
      BY <2>1, <3>1 DEF SentInv, Unheard, Busy
    <3> QED BY <2>1, <3>1, <3>2 DEF SentInv, ClientPlaces
  <2> QED BY <2>1 DEF ServerWaitsForSomebody
<1> QED BY <1>1, <1>2, <1>3, PingPongInvariance, PTL DEF TSpec

(* The test drives its sockets with the methods of KernelSockets and in no *)
(* other way: what is proved of KernelSockets holds in it.                 *)
THEOREM PingPongUsesKernelSockets == TSpec => KSpec
<1>1. TInit => KInit
  BY DEF TInit
<1>2. TInv /\ [TNext]_tcpvars => [KNext]_kvars
  BY KernelAssumption, StepIsKernelStep DEF TInv
<1> QED BY <1>1, <1>2, PingPongInvariance, PTL DEF TSpec, KSpec
=============================================================================
