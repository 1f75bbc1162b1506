----------------------------- MODULE KernelSockets ----------------------------
(***************************************************************************)
(* KernelUDPSocket and KernelTCPSocket (Java) over kernel_udp_socket.c and *)
(* kernel_tcp_socket.c.                                                    *)
(*                                                                         *)
(* A Java socket holds the number of a descriptor of the process.  The two *)
(* classes live over one descriptor table, a number that was closed is     *)
(* handed out again, and a call is given the number and nothing else.      *)
(* On Windows every descriptor also lives under the process' count of      *)
(* WSAStartup() calls, which each library makes once and every close()     *)
(* takes back.                                                             *)
(*                                                                         *)
(* Every action is one Java method with its native; accept(), which waits  *)
(* in the kernel for a peer, is two.                                       *)
(***************************************************************************)
EXTENDS Integers, FiniteSets

CONSTANTS
  Objs,         (* identities of the Java socket objects                   *)
  NoObj,
  Ports,
  MaxFd,        (* the process' descriptor limit                           *)
  Windows,      (* built with _WIN32                                       *)
  Disciplined   (* callers make no call on a closed socket, and close none *)
                (* that is waiting in accept()                             *)

ASSUME KernelAssumption ==
  /\ NoObj \notin Objs
  /\ Ports \subseteq Nat \ {0}
  /\ MaxFd \in Nat
  /\ Windows \in BOOLEAN
  /\ Disciplined \in BOOLEAN

VARIABLES
  jobj,         (* the fields of every Java socket object                  *)
  accepting,    (* result of an unfinished accept() -> its listener        *)
  kernel,       (* the descriptor table                                    *)
  is_init,      (* C, Windows: one flag per library                        *)
  wsa,          (* Windows: WSAStartup() calls not yet taken back          *)
  leaks         (* history: descriptors that a method dropped              *)

kvars == <<jobj, accepting, kernel, is_init, wsa, leaks>>

NoFd == -1
Fds == 3 .. MaxFd       \* 0, 1 and 2 are the JVM's
Kinds == {"udp", "tcp"}

(* closed is a field of KernelUDPSocket and history for KernelTCPSocket.   *)
JavaObject ==
  [kind : Kinds \cup {"none"}, sockId : Fds \cup {NoFd}, port : Ports \cup {0},
   bound : BOOLEAN, connected : BOOLEAN, closed : BOOLEAN,
   connectedSockets : SUBSET (Fds \cup {NoFd})]

NoObject ==
  [kind |-> "none", sockId |-> NoFd, port |-> 0, bound |-> FALSE,
   connected |-> FALSE, closed |-> FALSE, connectedSockets |-> {}]

(* owner, the object the descriptor was made for, and listener, the one it *)
(* was accepted by, are history.                                           *)
Descriptor ==
  [open : BOOLEAN, kind : Kinds, owner : Objs \cup {NoObj},
   listener : Objs \cup {NoObj}, port : Ports \cup {0},
   listening : BOOLEAN, connected : BOOLEAN, shut : BOOLEAN]

ClosedFd ==
  [open |-> FALSE, kind |-> "udp", owner |-> NoObj, listener |-> NoObj, port |-> 0,
   listening |-> FALSE, connected |-> FALSE, shut |-> FALSE]

KInit ==
  /\ jobj = [o \in Objs |-> NoObject]
  /\ accepting = [o \in Objs |-> NoObj]
  /\ kernel = [fd \in Fds |-> ClosedFd]
  /\ is_init = [k \in Kinds |-> FALSE]
  /\ wsa = 0
  /\ leaks = 0

-----------------------------------------------------------------------------
(* The descriptor table (external). *)
Free == {fd \in Fds : ~kernel[fd].open}
Open(fd) == fd \in Fds /\ kernel[fd].open

(* What socket() and accept() may return: Linux gives the lowest free      *)
(* number, Windows any.                                                    *)
Numbers(started) ==
  IF Free = {} \/ ~started THEN {NoFd}
  ELSE IF Windows THEN Free
  ELSE {fd \in Free : \A other \in Free : fd <= other}

Made(o, k) == [ClosedFd EXCEPT !.open = TRUE, !.kind = k, !.owner = o]

-----------------------------------------------------------------------------
(* createSocketC(): only 0 is taken for a failure, -1 is returned to Java. *)
createSocketC(o, k, fd) ==
  /\ IF Windows /\ ~is_init[k]
     THEN is_init' = [is_init EXCEPT ![k] = TRUE] /\ wsa' = wsa + 1
     ELSE UNCHANGED <<is_init, wsa>>
  /\ fd \in Numbers(Windows => wsa' > 0)

WithFd(o, k, fd) ==
  IF fd = NoFd THEN kernel ELSE [kernel EXCEPT ![fd] = Made(o, k)]

Dropped(fd) == leaks' = IF fd = NoFd THEN leaks ELSE leaks + 1

\* Mutant: a descriptor that is connected or listening is not released.
CloseFdIdle(fd) ==
  [kernel EXCEPT ![fd] = IF kernel[fd].connected \/ kernel[fd].listening
                         THEN kernel[fd] ELSE ClosedFd]
CloseFd(fd) == [kernel EXCEPT ![fd] = ClosedFd]

\* Mutant: the #ifdef is lost.
CleanedUpAlways == wsa - 1
CleanedUp == IF Windows /\ wsa > 0 THEN wsa - 1 ELSE wsa

closeC(fd) ==
  /\ wsa' = CleanedUp
  /\ kernel' = IF Windows /\ wsa' = 0 THEN [f \in Fds |-> ClosedFd]
               ELSE IF Open(fd) THEN CloseFd(fd)
               ELSE kernel

-----------------------------------------------------------------------------
Reachable(o) == jobj[o].kind # "none" /\ accepting[o] = NoObj

MayCall(o) ==
  /\ Reachable(o)
  /\ Disciplined => ~jobj[o].closed

MayCallOn(o, k) == MayCall(o) /\ jobj[o].kind = k

NewObj(k, fd) == [NoObject EXCEPT !.kind = k, !.sockId = fd]

Unborn(o) == jobj[o].kind = "none" /\ accepting[o] = NoObj

(* A bind() that the kernel grants. *)
CanBind(fd) == Open(fd) /\ kernel[fd].port = 0

(* KernelUDPSocket() and KernelTCPSocket() *)
Construct(o, k) ==
  /\ Unborn(o)
  /\ \E fd \in Fds \cup {NoFd} :
       /\ createSocketC(o, k, fd)
       /\ kernel' = WithFd(o, k, fd)
       /\ jobj' = [jobj EXCEPT ![o] = NewObj(k, fd)]
  /\ UNCHANGED <<accepting, leaks>>

(* KernelUDPSocket(port): when bind() throws nobody ever gets the object. *)
ConstructOnPort(o, port) ==
  /\ Unborn(o)
  /\ \E fd \in Fds \cup {NoFd} :
       /\ createSocketC(o, "udp", fd)
       /\ \/ /\ fd # NoFd
             /\ kernel' = [kernel EXCEPT ![fd] = [Made(o, "udp") EXCEPT !.port = port]]
             /\ jobj' = [jobj EXCEPT ![o] = [NewObj("udp", fd) EXCEPT !.bound = TRUE]]
             /\ UNCHANGED leaks
          \/ /\ kernel' = WithFd(o, "udp", fd)
             /\ Dropped(fd)
             /\ UNCHANGED jobj
  /\ UNCHANGED accepting

-----------------------------------------------------------------------------
(* KernelUDPSocket *)
Calls == UNCHANGED <<accepting, is_init, wsa, leaks>>

(* A method whose native throws before any field is assigned. *)
Throws == UNCHANGED kvars

(* The port goes to the kernel only, the field port keeps its 0. *)
udpBind(o, port) ==
  /\ MayCallOn(o, "udp")
  /\ \/ /\ CanBind(jobj[o].sockId)
        /\ kernel' = [kernel EXCEPT ![jobj[o].sockId].port = port]
        /\ jobj' = [jobj EXCEPT ![o].bound = TRUE]
        /\ Calls
     \/ Throws

(* The fields are assigned first: they stay when connectC() throws. *)
udpConnect(o) ==
  /\ MayCallOn(o, "udp")
  /\ jobj' = [jobj EXCEPT ![o].connected = TRUE]
  /\ \/ /\ Open(jobj[o].sockId)
        /\ kernel' = [kernel EXCEPT ![jobj[o].sockId].connected = TRUE]
     \/ UNCHANGED kernel
  /\ Calls

(* shutdown(), which Linux grants an unconnected socket, too; no field     *)
(* changes.                                                                *)
udpDisconnect(o) ==
  /\ MayCallOn(o, "udp")
  /\ kernel' = IF Open(jobj[o].sockId) /\ (Windows => kernel[jobj[o].sockId].connected)
               THEN [kernel EXCEPT ![jobj[o].sockId].shut = TRUE]
               ELSE kernel
  /\ UNCHANGED jobj /\ Calls

-----------------------------------------------------------------------------
(* KernelTCPSocket *)
tcpBind(o, port) ==
  /\ MayCallOn(o, "tcp")
  /\ \/ /\ CanBind(jobj[o].sockId)
        /\ kernel' = [kernel EXCEPT ![jobj[o].sockId].port = port]
        /\ jobj' = [jobj EXCEPT ![o].bound = TRUE, ![o].port = port]
        /\ Calls
     \/ Throws

(* The result of listen() is dropped. *)
tcpListen(o) ==
  /\ MayCallOn(o, "tcp")
  /\ kernel' = IF Open(jobj[o].sockId) /\ ~kernel[jobj[o].sockId].connected
               THEN [kernel EXCEPT ![jobj[o].sockId].listening = TRUE]
               ELSE kernel
  /\ UNCHANGED jobj /\ Calls

\* Mutant: connected is assigned before the native, as in KernelUDPSocket.
tcpConnectAssignsFirst(o) ==
  /\ MayCallOn(o, "tcp")
  /\ jobj' = [jobj EXCEPT ![o].connected = TRUE]
  /\ \/ /\ Open(jobj[o].sockId)
        /\ ~kernel[jobj[o].sockId].connected /\ ~kernel[jobj[o].sockId].listening
        /\ kernel' = [kernel EXCEPT ![jobj[o].sockId].connected = TRUE]
     \/ UNCHANGED kernel
  /\ Calls

tcpConnect(o) ==
  /\ MayCallOn(o, "tcp")
  /\ \/ /\ Open(jobj[o].sockId)
        /\ ~kernel[jobj[o].sockId].connected /\ ~kernel[jobj[o].sockId].listening
        /\ kernel' = [kernel EXCEPT ![jobj[o].sockId].connected = TRUE]
        /\ jobj' = [jobj EXCEPT ![o].connected = TRUE]
        /\ Calls
     \/ Throws

(* accept() first makes the object it will return, descriptor included. *)
acceptBegins(o, result) ==
  /\ MayCallOn(o, "tcp") /\ Unborn(result)
  /\ \E fd \in Fds \cup {NoFd} :
       /\ createSocketC(result, "tcp", fd)
       /\ kernel' = WithFd(result, "tcp", fd)
       /\ jobj' = [jobj EXCEPT ![result] = NewObj("tcp", fd)]
  /\ accepting' = [accepting EXCEPT ![result] = o]
  /\ UNCHANGED leaks

(* What acceptC() writes over: the object's own descriptor stays open.     *)
\* Mutants: the accepted connection is closed in its place; the listener
\* notes the number that the result had before acceptC().
HandOverClosing(result, fd) ==
  kernel' = [kernel EXCEPT ![fd] = ClosedFd]
HandOver(result, fd) ==
  kernel' = [kernel EXCEPT ![fd] = [Made(result, "tcp") EXCEPT
               !.connected = TRUE, !.listener = accepting[result],
               !.port = kernel[jobj[accepting[result]].sockId].port]]

NotesEarly(result, fd) == jobj[result].sockId
Notes(result, fd) == fd

acceptReturns(result, port) ==
  LET o == accepting[result] IN
  /\ o # NoObj
  /\ Open(jobj[o].sockId) /\ kernel[jobj[o].sockId].listening
  /\ \E fd \in Numbers(TRUE) \ {NoFd} :
       /\ HandOver(result, fd)
       /\ jobj' = [jobj EXCEPT
             ![result].sockId = fd, ![result].port = port,
             ![o].connectedSockets = @ \cup {Notes(result, fd)}]
  /\ Dropped(jobj[result].sockId)
  /\ accepting' = [accepting EXCEPT ![result] = NoObj]
  /\ UNCHANGED <<is_init, wsa>>

(* acceptC() throws: nobody ever gets the object. *)
acceptThrows(result) ==
  /\ accepting[result] # NoObj
  /\ jobj' = [jobj EXCEPT ![result] = NoObject]
  /\ Dropped(jobj[result].sockId)
  /\ accepting' = [accepting EXCEPT ![result] = NoObj]
  /\ UNCHANGED <<kernel, is_init, wsa>>

-----------------------------------------------------------------------------
(* close() of either class: neither looks whether it was called before. *)
close(o) ==
  /\ MayCall(o)
  /\ Disciplined => \A r \in Objs : accepting[r] # o
  /\ closeC(jobj[o].sockId)
  /\ jobj' = [jobj EXCEPT ![o].closed = TRUE]
  /\ UNCHANGED <<accepting, is_init, leaks>>

KNext ==
  \E o \in Objs :
    \/ \E k \in Kinds : Construct(o, k)
    \/ \E p \in Ports : ConstructOnPort(o, p) \/ udpBind(o, p) \/ tcpBind(o, p)
    \/ udpConnect(o) \/ udpDisconnect(o)
    \/ tcpListen(o) \/ tcpConnect(o)
    \/ \E result \in Objs : acceptBegins(o, result)
    \/ \E p \in Ports : acceptReturns(o, p)
    \/ acceptThrows(o)
    \/ close(o)

KSpec == KInit /\ [][KNext]_kvars

-----------------------------------------------------------------------------
KTypeOK ==
  /\ jobj \in [Objs -> JavaObject]
  /\ accepting \in [Objs -> Objs \cup {NoObj}]
  /\ kernel \in [Fds -> Descriptor]
  /\ is_init \in [Kinds -> BOOLEAN]
  /\ wsa \in Nat
  /\ leaks \in Nat

Live(o) == jobj[o].kind # "none" /\ ~jobj[o].closed
Holds(o, fd) == Live(o) /\ jobj[o].sockId = fd

(* A socket that has not been closed holds an open descriptor that was     *)
(* made for it: no close(), no reuse of a number and no accept() takes it  *)
(* away or gives it to another socket.                                     *)
OwnDescriptor ==
  \A o \in Objs :
    Live(o) /\ jobj[o].sockId # NoFd =>
      Open(jobj[o].sockId) /\ kernel[jobj[o].sockId].owner = o

(* Descriptors that no socket holds any more come only from accept(), one  *)
(* a call, and from constructors that throw; they are neither bound nor    *)
(* connected, so they cost an entry of the table and no port.              *)
Orphans == {fd \in Fds : kernel[fd].open /\ \A o \in Objs : ~Holds(o, fd)}

OrphansAreCounted ==
  /\ Cardinality(Orphans) = leaks
  /\ \A fd \in Orphans :
       kernel[fd].port = 0 /\ ~kernel[fd].connected /\ ~kernel[fd].listening

(* What a socket's fields claim is so in the kernel: a bound socket has    *)
(* the port, a connected KernelTCPSocket has its connection.               *)
FlagsAreTrue ==
  \A o \in Objs :
    Live(o) /\ accepting[o] = NoObj =>
      /\ jobj[o].bound => Open(jobj[o].sockId) /\ kernel[jobj[o].sockId].port # 0
      /\ jobj[o].bound /\ jobj[o].kind = "tcp" => kernel[jobj[o].sockId].port = jobj[o].port
      /\ jobj[o].connected /\ jobj[o].kind = "tcp" =>
           Open(jobj[o].sockId) /\ kernel[jobj[o].sockId].connected

(* send(socket, ...) of a listener serves every connection that it has     *)
(* accepted and that is still open.                                        *)
AcceptedCanBeServed ==
  \A o, s \in Objs :
    Live(s) /\ Open(jobj[s].sockId) /\ kernel[jobj[s].sockId].listener = o
      => jobj[s].sockId \in jobj[o].connectedSockets

(* send(buf, flag), which does nothing on a socket that is not connected,  *)
(* does nothing only on a socket that has no connection.                   *)
RefusedMeansUnconnected ==
  \A o \in Objs :
    Live(o) /\ Reachable(o) /\ jobj[o].kind = "tcp" /\ ~jobj[o].connected
      => ~(Open(jobj[o].sockId) /\ kernel[jobj[o].sockId].connected)

=============================================================================
