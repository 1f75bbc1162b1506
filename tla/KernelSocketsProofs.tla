------------------------ MODULE KernelSocketsProofs ------------------------
(***************************************************************************)
(* Proofs about KernelSockets: types on either system, and on Linux, for   *)
(* callers that keep the rules, who holds which descriptor.                *)
(***************************************************************************)
EXTENDS KernelSockets, FiniteSetTheorems, TLAPS

(* An object that accept() has not returned yet is as its constructor made *)
(* it, and so is its descriptor; its listener is not such an object.       *)
Pristine(fd) ==
  kernel[fd].port = 0 /\ ~kernel[fd].connected /\ ~kernel[fd].listening

IsResult(r) ==
  /\ jobj[r].kind = "tcp" /\ ~jobj[r].closed
  /\ ~jobj[r].bound /\ ~jobj[r].connected
  /\ jobj[accepting[r]].kind = "tcp" /\ ~jobj[accepting[r]].closed
  /\ accepting[accepting[r]] = NoObj
  /\ jobj[r].sockId # NoFd => Pristine(jobj[r].sockId)

ResultInv == \A r \in Objs : accepting[r] # NoObj => IsResult(r)

(* What FlagsAreTrue says of one socket. *)
FlagTrue(y) ==
  /\ jobj[y].bound => Open(jobj[y].sockId) /\ kernel[jobj[y].sockId].port # 0
  /\ jobj[y].bound /\ jobj[y].kind = "tcp" => kernel[jobj[y].sockId].port = jobj[y].port
  /\ jobj[y].connected /\ jobj[y].kind = "tcp" =>
       Open(jobj[y].sockId) /\ kernel[jobj[y].sockId].connected

(* The listener of an accepted descriptor can be called and has noted it.  *)
ListenerInv ==
  \A fd \in Fds : kernel[fd].open /\ kernel[fd].listener # NoObj =>
    LET l == kernel[fd].listener IN
    jobj[l].kind # "none" /\ accepting[l] = NoObj /\ fd \in jobj[l].connectedSockets

OrphansPristine == \A fd \in Orphans : Pristine(fd)

KInv == KTypeOK /\ OwnDescriptor /\ ResultInv /\ ListenerInv /\ FlagsAreTrue /\ OrphansPristine

(* The build and the callers that the theorems after KTypeCorrect are about. *)
Rules == ~Windows /\ Disciplined

-----------------------------------------------------------------------------
(* Types, on either system. *)
LEMMA InitType ==
  ASSUME KernelAssumption, KInit
  PROVE  KTypeOK
  BY SMT
     DEF KernelAssumption, KInit, KTypeOK, JavaObject, NoObject, Descriptor, ClosedFd,
             Kinds, NoFd

LEMMA NumbersAreFds ==
  ASSUME NEW started, NEW fd \in Numbers(started)
  PROVE  fd = NoFd \/ (fd \in Fds /\ ~kernel[fd].open)
  BY Zenon DEF Numbers, Free

LEMMA MadeType ==
  ASSUME KernelAssumption, NEW o \in Objs, NEW k \in Kinds
  PROVE  /\ Made(o, k) \in Descriptor
         /\ Made(o, k).open /\ Made(o, k).owner = o /\ Made(o, k).listener = NoObj
         /\ Made(o, k).port = 0 /\ ~Made(o, k).connected /\ ~Made(o, k).listening
<1>1. Made(o, k) \in Descriptor
  BY DEF KernelAssumption, Made, ClosedFd, Descriptor, Kinds
<1>2. Made(o, k).open /\ Made(o, k).owner = o /\ Made(o, k).listener = NoObj
  BY DEF Made, ClosedFd
<1>3. Made(o, k).port = 0 /\ ~Made(o, k).connected /\ ~Made(o, k).listening
  BY DEF Made, ClosedFd
<1> QED BY <1>1, <1>2, <1>3

LEMMA NewObjType ==
  ASSUME NEW k \in Kinds, NEW fd \in Fds \cup {NoFd}
  PROVE  /\ NewObj(k, fd) \in JavaObject
         /\ NewObj(k, fd).kind = k /\ NewObj(k, fd).sockId = fd
         /\ ~NewObj(k, fd).bound /\ ~NewObj(k, fd).connected /\ ~NewObj(k, fd).closed
         /\ NewObj(k, fd).port = 0 /\ NewObj(k, fd).connectedSockets = {}
<1>1. NewObj(k, fd) \in JavaObject
  BY DEF NewObj, NoObject, JavaObject, Kinds
<1>2. NewObj(k, fd).kind = k /\ NewObj(k, fd).sockId = fd
  BY DEF NewObj, NoObject
<1>3. ~NewObj(k, fd).bound /\ ~NewObj(k, fd).connected /\ ~NewObj(k, fd).closed
  BY DEF NewObj, NoObject
<1>4. NewObj(k, fd).port = 0 /\ NewObj(k, fd).connectedSockets = {}
  BY DEF NewObj, NoObject
<1> QED BY <1>1, <1>2, <1>3, <1>4

LEMMA JavaUpdates ==
  ASSUME NEW r \in JavaObject
  PROVE  /\ [r EXCEPT !.bound = TRUE] \in JavaObject
         /\ [r EXCEPT !.connected = TRUE] \in JavaObject
         /\ [r EXCEPT !.closed = TRUE] \in JavaObject
         /\ \A p \in Ports : [r EXCEPT !.port = p] \in JavaObject
         /\ \A fd \in Fds : [r EXCEPT !.sockId = fd] \in JavaObject
         /\ \A c \in SUBSET (Fds \cup {NoFd}) :
              [r EXCEPT !.connectedSockets = c] \in JavaObject
<1>1. [r EXCEPT !.bound = TRUE] \in JavaObject
  BY DEF JavaObject
<1>2. [r EXCEPT !.connected = TRUE] \in JavaObject
  BY DEF JavaObject
<1>3. [r EXCEPT !.closed = TRUE] \in JavaObject
  BY DEF JavaObject
<1>4. \A p \in Ports : [r EXCEPT !.port = p] \in JavaObject
  BY DEF JavaObject
<1>5. \A fd \in Fds : [r EXCEPT !.sockId = fd] \in JavaObject
  BY DEF JavaObject
<1>6. \A c \in SUBSET (Fds \cup {NoFd}) : [r EXCEPT !.connectedSockets = c] \in JavaObject
  BY DEF JavaObject
<1> QED BY <1>1, <1>2, <1>3, <1>4, <1>5, <1>6

LEMMA DescriptorUpdates ==
  ASSUME NEW d \in Descriptor
  PROVE  /\ \A p \in Ports : [d EXCEPT !.port = p] \in Descriptor
         /\ [d EXCEPT !.connected = TRUE] \in Descriptor
         /\ [d EXCEPT !.listening = TRUE] \in Descriptor
         /\ [d EXCEPT !.shut = TRUE] \in Descriptor
         /\ \A l \in Objs : [d EXCEPT !.listener = l] \in Descriptor
         /\ d.port \in Ports \cup {0}
         /\ \A p \in Ports \cup {0} : [d EXCEPT !.port = p] \in Descriptor
<1>1. \A p \in Ports : [d EXCEPT !.port = p] \in Descriptor
  BY DEF Descriptor
<1>2. [d EXCEPT !.connected = TRUE] \in Descriptor
  BY DEF Descriptor
<1>3. [d EXCEPT !.listening = TRUE] \in Descriptor
  BY DEF Descriptor
<1>4. [d EXCEPT !.shut = TRUE] \in Descriptor
  BY DEF Descriptor
<1>5. \A l \in Objs : [d EXCEPT !.listener = l] \in Descriptor
  BY DEF Descriptor
<1>6. d.port \in Ports \cup {0} /\ \A p \in Ports \cup {0} : [d EXCEPT !.port = p] \in Descriptor
  BY DEF Descriptor
<1> QED BY <1>1, <1>2, <1>3, <1>4, <1>5, <1>6

LEMMA CreateType ==
  ASSUME KTypeOK, NEW o \in Objs, NEW k \in Kinds, NEW fd, createSocketC(o, k, fd)
  PROVE  /\ is_init' \in [Kinds -> BOOLEAN] /\ wsa' \in Nat
         /\ fd = NoFd \/ (fd \in Fds /\ ~kernel[fd].open)
<1>1. CASE Windows /\ ~is_init[k]
  <2>1. is_init' = [is_init EXCEPT ![k] = TRUE] /\ wsa' = wsa + 1
    BY <1>1 DEF createSocketC
  <2> QED BY <2>1, NumbersAreFds DEF createSocketC, KTypeOK
<1>2. CASE ~(Windows /\ ~is_init[k])
  <2>1. is_init' = is_init /\ wsa' = wsa
    BY <1>2 DEF createSocketC
  <2> QED BY <2>1, NumbersAreFds DEF createSocketC, KTypeOK
<1> QED BY <1>1, <1>2

LEMMA CloseType ==
  ASSUME KernelAssumption, KTypeOK, NEW fd, closeC(fd)
  PROVE  wsa' \in Nat /\ kernel' \in [Fds -> Descriptor]
<1>1. wsa' \in Nat
  BY DEF KTypeOK, closeC, CleanedUp
<1>2. ClosedFd \in Descriptor
  BY DEF KernelAssumption, ClosedFd, Descriptor, Kinds
<1>3. kernel' \in [Fds -> Descriptor]
  BY <1>2 DEF KTypeOK, closeC, CloseFd
<1> QED BY <1>1, <1>3

(* Every action but the constructors, accept() and close() changes at most *)
(* the object and the descriptor of one socket.                            *)
OwnCall(o) ==
  \/ \E p \in Ports : udpBind(o, p) \/ tcpBind(o, p)
  \/ udpConnect(o) \/ udpDisconnect(o) \/ tcpListen(o) \/ tcpConnect(o)

LEMMA OwnCallType ==
  ASSUME KTypeOK, NEW o \in Objs, OwnCall(o)
  PROVE  KTypeOK'
<1>1. accepting' = accepting /\ is_init' = is_init /\ wsa' = wsa /\ leaks' = leaks
  BY DEF OwnCall, udpBind, tcpBind, udpConnect, udpDisconnect, tcpListen, tcpConnect,
         Calls, Throws, kvars
<1>2. jobj' \in [Objs -> JavaObject]
  <2>1. jobj[o] \in JavaObject
    BY DEF KTypeOK
  <2>2. [jobj EXCEPT ![o].bound = TRUE] \in [Objs -> JavaObject]
    <3>1. [jobj[o] EXCEPT !.bound = TRUE] \in JavaObject
      BY <2>1, JavaUpdates
    <3> QED BY <3>1 DEF KTypeOK
  <2>3. [jobj EXCEPT ![o].connected = TRUE] \in [Objs -> JavaObject]
    <3>1. [jobj[o] EXCEPT !.connected = TRUE] \in JavaObject
      BY <2>1, JavaUpdates
    <3> QED BY <3>1 DEF KTypeOK
  <2>4. ASSUME NEW p \in Ports
        PROVE  [jobj EXCEPT ![o].bound = TRUE, ![o].port = p] \in [Objs -> JavaObject]
    <3> DEFINE j1 == [jobj EXCEPT ![o].bound = TRUE]
    <3>1. [j1 EXCEPT ![o].port = p] \in [Objs -> JavaObject]
      <4> HIDE DEF j1
      <4>1. [j1[o] EXCEPT !.port = p] \in JavaObject
        BY <2>2, JavaUpdates DEF j1
      <4> QED BY <2>2, <4>1 DEF j1
    <3> QED BY <3>1
  <2>5. \/ jobj' = jobj
        \/ jobj' = [jobj EXCEPT ![o].bound = TRUE]
        \/ jobj' = [jobj EXCEPT ![o].connected = TRUE]
        \/ \E p \in Ports : jobj' = [jobj EXCEPT ![o].bound = TRUE, ![o].port = p]
    BY Zenon
       DEF OwnCall, udpBind, tcpBind, udpConnect, udpDisconnect, tcpListen, tcpConnect,
                 Throws, kvars
  <2>6. CASE \E p \in Ports : jobj' = [jobj EXCEPT ![o].bound = TRUE, ![o].port = p]
    <3>1. PICK p \in Ports : jobj' = [jobj EXCEPT ![o].bound = TRUE, ![o].port = p]
      BY <2>6
    <3> QED BY <3>1, <2>4
  <2>7. CASE jobj' = jobj
    BY <2>7 DEF KTypeOK
  <2> QED BY <2>2, <2>3, <2>5, <2>6, <2>7
<1>3. kernel' \in [Fds -> Descriptor]
  <2>1. \/ kernel' = kernel
        \/ \E fd \in Fds :
             \/ \E p \in Ports : kernel' = [kernel EXCEPT ![fd].port = p]
             \/ kernel' = [kernel EXCEPT ![fd].connected = TRUE]
             \/ kernel' = [kernel EXCEPT ![fd].listening = TRUE]
             \/ kernel' = [kernel EXCEPT ![fd].shut = TRUE]
    BY DEF OwnCall, udpBind, tcpBind, udpConnect, udpDisconnect, tcpListen, tcpConnect,
           Throws, kvars, Open, CanBind
  <2>2. ASSUME NEW fd \in Fds, NEW p \in Ports
        PROVE  [kernel EXCEPT ![fd].port = p] \in [Fds -> Descriptor]
    <3>1. [kernel[fd] EXCEPT !.port = p] \in Descriptor
      BY DescriptorUpdates DEF KTypeOK
    <3> QED BY <3>1 DEF KTypeOK
  <2>3. ASSUME NEW fd \in Fds
        PROVE  [kernel EXCEPT ![fd].connected = TRUE] \in [Fds -> Descriptor]
    <3>1. [kernel[fd] EXCEPT !.connected = TRUE] \in Descriptor
      BY DescriptorUpdates DEF KTypeOK
    <3> QED BY <3>1 DEF KTypeOK
  <2>4. ASSUME NEW fd \in Fds
        PROVE  [kernel EXCEPT ![fd].listening = TRUE] \in [Fds -> Descriptor]
    <3>1. [kernel[fd] EXCEPT !.listening = TRUE] \in Descriptor
      BY DescriptorUpdates DEF KTypeOK
    <3> QED BY <3>1 DEF KTypeOK
  <2>5. ASSUME NEW fd \in Fds
        PROVE  [kernel EXCEPT ![fd].shut = TRUE] \in [Fds -> Descriptor]
    <3>1. [kernel[fd] EXCEPT !.shut = TRUE] \in Descriptor
      BY DescriptorUpdates DEF KTypeOK
    <3> QED BY <3>1 DEF KTypeOK
  <2>6. CASE kernel' = kernel
    BY <2>6 DEF KTypeOK
  <2>7. ASSUME NEW fd \in Fds,
               \/ \E p \in Ports : kernel' = [kernel EXCEPT ![fd].port = p]
               \/ kernel' = [kernel EXCEPT ![fd].connected = TRUE]
               \/ kernel' = [kernel EXCEPT ![fd].listening = TRUE]
               \/ kernel' = [kernel EXCEPT ![fd].shut = TRUE]
        PROVE  kernel' \in [Fds -> Descriptor]
    <3>1. CASE \E p \in Ports : kernel' = [kernel EXCEPT ![fd].port = p]
      <4>1. PICK p \in Ports : kernel' = [kernel EXCEPT ![fd].port = p]
        BY <3>1
      <4> QED BY <4>1, <2>2
    <3>2. CASE kernel' = [kernel EXCEPT ![fd].connected = TRUE]
      BY <3>2, <2>3
    <3>3. CASE kernel' = [kernel EXCEPT ![fd].listening = TRUE]
      BY <3>3, <2>4
    <3>4. CASE kernel' = [kernel EXCEPT ![fd].shut = TRUE]
      BY <3>4, <2>5
    <3> QED BY <2>7, <3>1, <3>2, <3>3, <3>4
  <2> QED BY <2>1, <2>6, <2>7
<1> QED BY <1>1, <1>2, <1>3 DEF KTypeOK

LEMMA ConstructType ==
  ASSUME KernelAssumption, KTypeOK, NEW o \in Objs, NEW k \in Kinds, Construct(o, k)
  PROVE  KTypeOK'
<1>1. PICK fd \in Fds \cup {NoFd} :
        /\ createSocketC(o, k, fd) /\ kernel' = WithFd(o, k, fd)
        /\ jobj' = [jobj EXCEPT ![o] = NewObj(k, fd)]
  BY DEF Construct
<1>2. kernel' \in [Fds -> Descriptor]
  BY <1>1, MadeType DEF WithFd, KTypeOK
<1>3. jobj' \in [Objs -> JavaObject]
  BY <1>1, NewObjType DEF KTypeOK
<1> QED BY <1>1, <1>2, <1>3, CreateType DEF KTypeOK, Construct

LEMMA ConstructOnPortType ==
  ASSUME KernelAssumption, KTypeOK, NEW o \in Objs, NEW p \in Ports, ConstructOnPort(o, p)
  PROVE  KTypeOK'
<1>0. "udp" \in Kinds
  BY DEF Kinds
<1>1. PICK fd \in Fds \cup {NoFd} :
        /\ createSocketC(o, "udp", fd)
        /\ \/ /\ fd # NoFd
              /\ kernel' = [kernel EXCEPT ![fd] = [Made(o, "udp") EXCEPT !.port = p]]
              /\ jobj' = [jobj EXCEPT ![o] = [NewObj("udp", fd) EXCEPT !.bound = TRUE]]
              /\ UNCHANGED leaks
           \/ kernel' = WithFd(o, "udp", fd) /\ Dropped(fd) /\ UNCHANGED jobj
  BY DEF ConstructOnPort
<1>2. kernel' \in [Fds -> Descriptor]
  <2>1. [Made(o, "udp") EXCEPT !.port = p] \in Descriptor
    BY <1>0, MadeType, DescriptorUpdates
  <2> QED BY <1>0, <1>1, <2>1, MadeType DEF WithFd, KTypeOK
<1>3. jobj' \in [Objs -> JavaObject]
  <2>1. [NewObj("udp", fd) EXCEPT !.bound = TRUE] \in JavaObject
    BY <1>0, NewObjType, JavaUpdates
  <2> QED BY <1>1, <2>1 DEF KTypeOK
<1>4. leaks' \in Nat /\ accepting' = accepting
  BY <1>1 DEF KTypeOK, Dropped, ConstructOnPort
<1> QED BY <1>0, <1>1, <1>2, <1>3, <1>4, CreateType DEF KTypeOK

LEMMA AcceptBeginsType ==
  ASSUME KernelAssumption, KTypeOK, NEW o \in Objs, NEW r \in Objs, acceptBegins(o, r)
  PROVE  KTypeOK'
<1>0. "tcp" \in Kinds
  BY DEF Kinds
<1>1. PICK fd \in Fds \cup {NoFd} :
        /\ createSocketC(r, "tcp", fd) /\ kernel' = WithFd(r, "tcp", fd)
        /\ jobj' = [jobj EXCEPT ![r] = NewObj("tcp", fd)]
  BY DEF acceptBegins
<1>2. kernel' \in [Fds -> Descriptor]
  BY <1>0, <1>1, MadeType DEF WithFd, KTypeOK
<1>3. jobj' \in [Objs -> JavaObject]
  BY <1>0, <1>1, NewObjType DEF KTypeOK
<1>4. accepting' \in [Objs -> Objs \cup {NoObj}] /\ leaks' = leaks
  BY DEF acceptBegins, KTypeOK
<1> QED BY <1>0, <1>1, <1>2, <1>3, <1>4, CreateType DEF KTypeOK

LEMMA AcceptReturnsType ==
  ASSUME KernelAssumption, KTypeOK, NEW r \in Objs, NEW p \in Ports, acceptReturns(r, p)
  PROVE  KTypeOK'
<1> DEFINE o == accepting[r]
<1>0. "tcp" \in Kinds /\ o \in Objs
  BY DEF Kinds, acceptReturns, KTypeOK
<1>1. PICK fd \in Fds :
        /\ HandOver(r, fd)
        /\ jobj' = [jobj EXCEPT ![r].sockId = fd, ![r].port = p,
                                ![o].connectedSockets = @ \cup {fd}]
  BY NumbersAreFds DEF acceptReturns, Notes
<1>2. jobj' \in [Objs -> JavaObject]
  <2>1. [jobj EXCEPT ![r].sockId = fd] \in [Objs -> JavaObject]
    <3>1. [jobj[r] EXCEPT !.sockId = fd] \in JavaObject
      BY JavaUpdates DEF KTypeOK
    <3> QED BY <3>1 DEF KTypeOK
  <2> DEFINE j1 == [jobj EXCEPT ![r].sockId = fd]
  <2>2. [j1 EXCEPT ![r].port = p] \in [Objs -> JavaObject]
    <3> HIDE DEF j1
    <3>1. [j1[r] EXCEPT !.port = p] \in JavaObject
      BY <2>1, JavaUpdates DEF j1
    <3> QED BY <2>1, <3>1 DEF j1
  <2> DEFINE j2 == [j1 EXCEPT ![r].port = p]
  <2>3. [j2 EXCEPT ![o].connectedSockets = jobj[o].connectedSockets \cup {fd}] \in [Objs -> JavaObject]
    <3>0. jobj[o].connectedSockets \cup {fd} \in SUBSET (Fds \cup {NoFd})
      BY <1>0 DEF KTypeOK, JavaObject
    <3> HIDE DEF j2, o
    <3>1. [j2[o] EXCEPT !.connectedSockets = jobj[o].connectedSockets \cup {fd}] \in JavaObject
      BY <1>0, <2>2, <3>0, JavaUpdates DEF j2
    <3> QED BY <1>0, <2>2, <3>1 DEF j2
  <2> QED BY <1>1, <2>3
<1>3. kernel' \in [Fds -> Descriptor]
  <2>1. kernel[jobj[o].sockId].port \in Ports \cup {0}
    BY DescriptorUpdates DEF acceptReturns, Open, KTypeOK
  <2> DEFINE d1 == [Made(r, "tcp") EXCEPT !.connected = TRUE]
             d2 == [d1 EXCEPT !.listener = accepting[r]]
  <2>2. d2 \in Descriptor
    BY <1>0, MadeType, DescriptorUpdates
  <2>3. [d2 EXCEPT !.port = kernel[jobj[o].sockId].port] \in Descriptor
    <3> HIDE DEF d2
    <3> QED BY <2>1, <2>2, DescriptorUpdates
  <2> QED BY <1>1, <2>3 DEF HandOver, KTypeOK
<1>4. accepting' \in [Objs -> Objs \cup {NoObj}] /\ leaks' \in Nat
  BY DEF acceptReturns, Dropped, KTypeOK
<1> QED BY <1>2, <1>3, <1>4 DEF acceptReturns, KTypeOK

LEMMA AcceptThrowsType ==
  ASSUME KernelAssumption, KTypeOK, NEW r \in Objs, acceptThrows(r)
  PROVE  KTypeOK'
<1>1. NoObject \in JavaObject
  BY DEF NoObject, JavaObject
<1>2. jobj' \in [Objs -> JavaObject]
  BY <1>1 DEF acceptThrows, KTypeOK
<1>3. accepting' \in [Objs -> Objs \cup {NoObj}] /\ leaks' \in Nat
  BY DEF acceptThrows, Dropped, KTypeOK
<1> QED BY <1>2, <1>3 DEF acceptThrows, KTypeOK

LEMMA CloseCallType ==
  ASSUME KernelAssumption, KTypeOK, NEW o \in Objs, close(o)
  PROVE  KTypeOK'
<1>1. jobj' \in [Objs -> JavaObject]
  <2>1. [jobj[o] EXCEPT !.closed = TRUE] \in JavaObject
    BY JavaUpdates DEF KTypeOK
  <2> QED BY <2>1 DEF close, KTypeOK
<1> QED BY <1>1, CloseType DEF close, KTypeOK

LEMMA NextSplits ==
  ASSUME KNext
  PROVE  \E o \in Objs :
           \/ \E k \in Kinds : Construct(o, k)
           \/ \E p \in Ports : ConstructOnPort(o, p)
           \/ OwnCall(o)
           \/ \E result \in Objs : acceptBegins(o, result)
           \/ \E p \in Ports : acceptReturns(o, p)
           \/ acceptThrows(o)
           \/ close(o)
  BY Zenon DEF KNext, OwnCall

LEMMA NextType ==
  ASSUME KernelAssumption, KTypeOK, [KNext]_kvars
  PROVE  KTypeOK'
<1>1. CASE KNext
  BY <1>1, NextSplits, ConstructType, ConstructOnPortType, OwnCallType, AcceptBeginsType,
     AcceptReturnsType, AcceptThrowsType, CloseCallType
<1>2. CASE UNCHANGED kvars
  BY <1>2 DEF kvars, KTypeOK
<1> QED BY <1>1, <1>2

(* The fields of the Java objects, the descriptor table and the counts     *)
(* have their types, on Linux and Windows, whatever the callers do.        *)
THEOREM KTypeCorrect == KSpec => []KTypeOK
<1>1. KInit => KTypeOK
  BY InitType, KernelAssumption
<1>2. KTypeOK /\ [KNext]_kvars => KTypeOK'
  BY NextType, KernelAssumption
<1> QED BY <1>1, <1>2, PTL DEF KSpec

-----------------------------------------------------------------------------
(* What a call of OwnCall leaves alone. *)
LEMMA OwnCallFrame ==
  ASSUME Rules, KTypeOK, NEW o \in Objs, OwnCall(o)
  PROVE  /\ Live(o) /\ accepting[o] = NoObj
         /\ accepting' = accepting /\ leaks' = leaks
         /\ \A x \in Objs \ {o} : jobj'[x] = jobj[x]
         /\ jobj'[o].kind = jobj[o].kind /\ jobj'[o].sockId = jobj[o].sockId
         /\ jobj'[o].closed = jobj[o].closed
         /\ jobj'[o].connectedSockets = jobj[o].connectedSockets
         /\ \A fd \in Fds \ {jobj[o].sockId} : kernel'[fd] = kernel[fd]
         /\ \A fd \in Fds : /\ kernel'[fd].open = kernel[fd].open
                            /\ kernel'[fd].owner = kernel[fd].owner
                            /\ kernel'[fd].listener = kernel[fd].listener
<1>1. Live(o) /\ accepting[o] = NoObj
  BY DEF OwnCall, udpBind, tcpBind, udpConnect, udpDisconnect, tcpListen, tcpConnect,
         MayCallOn, MayCall, Reachable, Live, Rules
<1>2. accepting' = accepting /\ leaks' = leaks
  BY DEF OwnCall, udpBind, tcpBind, udpConnect, udpDisconnect, tcpListen, tcpConnect,
         Calls, Throws, kvars
<1>3. \/ jobj' = jobj
      \/ jobj' = [jobj EXCEPT ![o].bound = TRUE]
      \/ jobj' = [jobj EXCEPT ![o].connected = TRUE]
      \/ \E p \in Ports : jobj' = [jobj EXCEPT ![o].bound = TRUE, ![o].port = p]
  BY Zenon
     DEF OwnCall, udpBind, tcpBind, udpConnect, udpDisconnect, tcpListen, tcpConnect,
               Throws, kvars
<1>4. /\ \A x \in Objs \ {o} : jobj'[x] = jobj[x]
      /\ jobj'[o].kind = jobj[o].kind /\ jobj'[o].sockId = jobj[o].sockId
      /\ jobj'[o].closed = jobj[o].closed
      /\ jobj'[o].connectedSockets = jobj[o].connectedSockets
  <2>1. jobj \in [Objs -> JavaObject]
    BY DEF KTypeOK
  <2> QED BY <1>3, <2>1 DEF JavaObject
<1>5. \/ kernel' = kernel
      \/ /\ jobj[o].sockId \in Fds
         /\ \/ \E p \in Ports : kernel' = [kernel EXCEPT ![jobj[o].sockId].port = p]
            \/ kernel' = [kernel EXCEPT ![jobj[o].sockId].connected = TRUE]
            \/ kernel' = [kernel EXCEPT ![jobj[o].sockId].listening = TRUE]
            \/ kernel' = [kernel EXCEPT ![jobj[o].sockId].shut = TRUE]
  BY DEF OwnCall, udpBind, tcpBind, udpConnect, udpDisconnect, tcpListen, tcpConnect,
         Throws, kvars, Open, CanBind
<1>6. /\ \A fd \in Fds \ {jobj[o].sockId} : kernel'[fd] = kernel[fd]
      /\ \A fd \in Fds : /\ kernel'[fd].open = kernel[fd].open
                         /\ kernel'[fd].owner = kernel[fd].owner
                         /\ kernel'[fd].listener = kernel[fd].listener
  <2>1. kernel \in [Fds -> Descriptor]
    BY DEF KTypeOK
  <2>2. CASE kernel' = kernel
    BY <2>2
  <2>3. ASSUME NEW fd \in Fds, NEW d, kernel' = [kernel EXCEPT ![fd] = d], fd = jobj[o].sockId,
               d.open = kernel[fd].open, d.owner = kernel[fd].owner,
               d.listener = kernel[fd].listener
        PROVE  <1>6!1 /\ <1>6!2
    BY <2>1, <2>3
  <2>4. ASSUME NEW fd \in Fds, fd = jobj[o].sockId,
               NEW p, kernel' = [kernel EXCEPT ![fd].port = p]
        PROVE  <1>6!1 /\ <1>6!2
    BY <2>1, <2>3, <2>4 DEF Descriptor
  <2>5. ASSUME NEW fd \in Fds, fd = jobj[o].sockId,
               kernel' = [kernel EXCEPT ![fd].connected = TRUE]
        PROVE  <1>6!1 /\ <1>6!2
    BY <2>1, <2>3, <2>5 DEF Descriptor
  <2>6. ASSUME NEW fd \in Fds, fd = jobj[o].sockId,
               kernel' = [kernel EXCEPT ![fd].listening = TRUE]
        PROVE  <1>6!1 /\ <1>6!2
    BY <2>1, <2>3, <2>6 DEF Descriptor
  <2>7. ASSUME NEW fd \in Fds, fd = jobj[o].sockId,
               kernel' = [kernel EXCEPT ![fd].shut = TRUE]
        PROVE  <1>6!1 /\ <1>6!2
    BY <2>1, <2>3, <2>7 DEF Descriptor
  <2> QED BY <1>5, <2>2, <2>4, <2>5, <2>6, <2>7
<1> QED BY <1>1, <1>2, <1>4, <1>6

(* A new object with a new descriptor, or without one. *)
Fresh(x, fd, j, d) ==
  /\ jobj[x].kind = "none" /\ accepting[x] = NoObj
  /\ fd = NoFd \/ (fd \in Fds /\ ~kernel[fd].open)
  /\ \A y \in Objs : jobj'[y] = IF y = x THEN j ELSE jobj[y]
  /\ \A f \in Fds : kernel'[f] = IF f = fd THEN d ELSE kernel[f]
  /\ j.kind # "none" /\ j.sockId = fd /\ ~j.closed /\ ~j.connected
  /\ j.bound => fd # NoFd /\ d.port # 0 /\ j.kind = "udp"
  /\ d.open /\ d.owner = x /\ d.listener = NoObj

LEMMA FreshKeeps ==
  ASSUME KernelAssumption, KInv, NEW x \in Objs, NEW fd, NEW j, NEW d, Fresh(x, fd, j, d),
         KTypeOK'
  PROVE  /\ OwnDescriptor'
         /\ (\A r \in Objs \ {x} : accepting'[r] = accepting[r]) => FlagsAreTrue'
         /\ (\A r \in Objs \ {x} : accepting'[r] = accepting[r]) => ListenerInv'
         /\ Orphans' = Orphans
         /\ OrphansPristine'
<1>0. NoFd \notin Fds
  BY DEF NoFd, Fds
<1>1. OwnDescriptor'
  BY <1>0 DEF Fresh, KInv, OwnDescriptor, Live, Open
<1>2. ASSUME \A r \in Objs \ {x} : accepting'[r] = accepting[r]
      PROVE  FlagsAreTrue'
  <2>1. SUFFICES ASSUME NEW y \in Objs, Live(y)', (accepting[y] = NoObj)'
                 PROVE  FlagTrue(y)'
    BY DEF FlagTrue, FlagsAreTrue
  <2>2. CASE y = x
    BY <1>0, <2>1, <2>2 DEF FlagTrue, Fresh, Open
  <2>3. CASE y # x
    BY <1>0, <1>2, <2>1, <2>3 DEF FlagTrue, Fresh, KInv, FlagsAreTrue, Live, Open
  <2> QED BY <2>2, <2>3
<1>3. ASSUME \A r \in Objs \ {x} : accepting'[r] = accepting[r]
      PROVE  ListenerInv'
  <2>1. \A f \in Fds : kernel[f].listener \in Objs \cup {NoObj}
    BY DEF KInv, KTypeOK, Descriptor
  <2> QED BY <1>3, <2>1 DEF Fresh, KInv, ListenerInv
<1>4. Orphans' = Orphans
  <2>1. ASSUME NEW f \in Fds PROVE f \in Orphans' <=> f \in Orphans
    <3>1. CASE f = fd
      <4>1. Holds(x, f)'
        BY <3>1 DEF Fresh, Holds, Live
      <4> QED BY <3>1, <4>1, <1>0 DEF Fresh, Orphans
    <3>2. CASE f # fd
      <4>1. kernel'[f] = kernel[f]
        BY <3>2 DEF Fresh
      <4>2. \A y \in Objs : Holds(y, f)' <=> Holds(y, f)
        BY <3>2 DEF Fresh, Holds, Live
      <4> QED BY <4>1, <4>2 DEF Orphans
    <3> QED BY <3>1, <3>2
  <2> QED BY <2>1 DEF Orphans
<1>5. OrphansPristine'
  <2>1. \A f \in Orphans : kernel'[f] = kernel[f]
    BY DEF Fresh, Orphans, NoFd, Fds
  <2> QED BY <1>4, <2>1 DEF KInv, OrphansPristine, Pristine
<1> QED BY <1>1, <1>2, <1>3, <1>4, <1>5

LEMMA CreateNumbers ==
  ASSUME Rules, NEW o, NEW k, NEW fd, createSocketC(o, k, fd)
  PROVE  fd = NoFd \/ (fd \in Fds /\ ~kernel[fd].open)
  BY NumbersAreFds DEF createSocketC

LEMMA ConstructFresh ==
  ASSUME KernelAssumption, Rules, KTypeOK, NEW o \in Objs, NEW k \in Kinds, Construct(o, k)
  PROVE  /\ \E fd, j, d : Fresh(o, fd, j, d)
         /\ accepting' = accepting /\ leaks' = leaks
<1>1. PICK fd \in Fds \cup {NoFd} :
        /\ createSocketC(o, k, fd) /\ kernel' = WithFd(o, k, fd)
        /\ jobj' = [jobj EXCEPT ![o] = NewObj(k, fd)]
  BY DEF Construct
<1>2. k # "none" /\ NoFd \notin Fds
  BY DEF Kinds, NoFd, Fds
<1>3. \A y \in Objs : jobj'[y] = IF y = o THEN NewObj(k, fd) ELSE jobj[y]
  BY <1>1 DEF KTypeOK
<1>4. \A f \in Fds : kernel'[f] = IF f = fd THEN Made(o, k) ELSE kernel[f]
  BY <1>1, <1>2 DEF WithFd, KTypeOK
<1>5. Fresh(o, fd, NewObj(k, fd), Made(o, k))
  BY <1>1, <1>2, <1>3, <1>4, CreateNumbers, NewObjType, MadeType
     DEF Fresh, Construct, Unborn
<1> QED BY <1>5 DEF Construct

LEMMA AcceptBeginsFresh ==
  ASSUME KernelAssumption, Rules, KTypeOK, NEW o \in Objs, NEW r \in Objs, acceptBegins(o, r)
  PROVE  /\ \E fd, j, d : /\ Fresh(r, fd, j, d)
                         /\ j.kind = "tcp" /\ ~j.bound
                         /\ d.port = 0 /\ ~d.connected /\ ~d.listening
         /\ accepting' = [accepting EXCEPT ![r] = o] /\ leaks' = leaks
         /\ jobj[o].kind = "tcp" /\ accepting[o] = NoObj /\ ~jobj[o].closed
<1>1. PICK fd \in Fds \cup {NoFd} :
        /\ createSocketC(r, "tcp", fd) /\ kernel' = WithFd(r, "tcp", fd)
        /\ jobj' = [jobj EXCEPT ![r] = NewObj("tcp", fd)]
  BY DEF acceptBegins
<1>2. "tcp" \in Kinds /\ NoFd \notin Fds
  BY DEF Kinds, NoFd, Fds
<1>3. \A y \in Objs : jobj'[y] = IF y = r THEN NewObj("tcp", fd) ELSE jobj[y]
  BY <1>1 DEF KTypeOK
<1>4. \A f \in Fds : kernel'[f] = IF f = fd THEN Made(r, "tcp") ELSE kernel[f]
  BY <1>1, <1>2 DEF WithFd, KTypeOK
<1>5. Fresh(r, fd, NewObj("tcp", fd), Made(r, "tcp"))
  BY <1>1, <1>2, <1>3, <1>4, CreateNumbers, NewObjType, MadeType
     DEF Fresh, acceptBegins, Unborn
<1> QED
  BY <1>2, <1>5, NewObjType, MadeType
     DEF acceptBegins, MayCallOn, MayCall, Reachable, Rules

(* The constructor that takes a port makes a bound object, or drops a      *)
(* descriptor that nobody holds.                                           *)
LEMMA ConstructOnPortFresh ==
  ASSUME KernelAssumption, Rules, KTypeOK, NEW o \in Objs, NEW p \in Ports, ConstructOnPort(o, p)
  PROVE  /\ accepting' = accepting
         /\ \/ (\E fd, j, d : Fresh(o, fd, j, d)) /\ leaks' = leaks
            \/ /\ jobj' = jobj
               /\ \E fd : /\ fd = NoFd \/ (fd \in Fds /\ ~kernel[fd].open)
                         /\ kernel' = WithFd(o, "udp", fd) /\ Dropped(fd)
<1>1. PICK fd \in Fds \cup {NoFd} :
        /\ createSocketC(o, "udp", fd)
        /\ \/ /\ fd # NoFd
              /\ kernel' = [kernel EXCEPT ![fd] = [Made(o, "udp") EXCEPT !.port = p]]
              /\ jobj' = [jobj EXCEPT ![o] = [NewObj("udp", fd) EXCEPT !.bound = TRUE]]
              /\ UNCHANGED leaks
           \/ kernel' = WithFd(o, "udp", fd) /\ Dropped(fd) /\ UNCHANGED jobj
  BY DEF ConstructOnPort
<1>2. "udp" \in Kinds /\ NoFd \notin Fds /\ p # 0
  BY DEF Kinds, NoFd, Fds, KernelAssumption
<1>3. accepting' = accepting
  BY DEF ConstructOnPort
<1>4. CASE /\ fd # NoFd
           /\ kernel' = [kernel EXCEPT ![fd] = [Made(o, "udp") EXCEPT !.port = p]]
           /\ jobj' = [jobj EXCEPT ![o] = [NewObj("udp", fd) EXCEPT !.bound = TRUE]]
           /\ UNCHANGED leaks
  <2> DEFINE j == [NewObj("udp", fd) EXCEPT !.bound = TRUE]
             d == [Made(o, "udp") EXCEPT !.port = p]
  <2>1. \A y \in Objs : jobj'[y] = IF y = o THEN j ELSE jobj[y]
    BY <1>4 DEF KTypeOK
  <2>2. \A f \in Fds : kernel'[f] = IF f = fd THEN d ELSE kernel[f]
    BY <1>2, <1>4 DEF KTypeOK
  <2>3. j.kind = "udp" /\ j.sockId = fd /\ ~j.closed /\ ~j.connected
    BY <1>2, NewObjType DEF JavaObject
  <2>4. d.open /\ d.owner = o /\ d.listener = NoObj /\ d.port = p
    BY <1>2, MadeType DEF Descriptor
  <2>5. Fresh(o, fd, j, d)
    <3> HIDE DEF j, d
    <3> QED BY <1>1, <1>2, <1>4, <2>1, <2>2, <2>3, <2>4, CreateNumbers
            DEF Fresh, ConstructOnPort, Unborn
  <2> QED BY <1>3, <1>4, <2>5
<1>5. CASE kernel' = WithFd(o, "udp", fd) /\ Dropped(fd) /\ UNCHANGED jobj
  BY <1>1, <1>3, <1>5, CreateNumbers
<1> QED BY <1>1, <1>4, <1>5

-----------------------------------------------------------------------------
(* Two live sockets hold no descriptor in common. *)
LEMMA HoldersDiffer ==
  ASSUME OwnDescriptor, NEW x \in Objs, NEW y \in Objs, x # y, Live(x), Live(y),
         jobj[x].sockId # NoFd
  PROVE  jobj[x].sockId # jobj[y].sockId
  BY DEF OwnDescriptor

(* What a step does to the orphans: nothing, or one more of them. *)
Adds(fd) ==
  /\ Dropped(fd)
  /\ IF fd = NoFd THEN Orphans' = Orphans
     ELSE fd \in Fds \ Orphans /\ Orphans' = Orphans \cup {fd}

OrphansCounted == (leaks' = leaks /\ Orphans' = Orphans) \/ \E fd : Adds(fd)

(* An OwnCall. *)
LEMMA OwnCallKeeps ==
  ASSUME KernelAssumption, Rules, KInv, NEW o \in Objs, OwnCall(o), KTypeOK'
  PROVE  KInv' /\ OrphansCounted
<1>0. KTypeOK /\ NoFd \notin Fds
  BY DEF KInv, NoFd, Fds
<1>1. OwnDescriptor'
  BY <1>0, OwnCallFrame DEF KInv, OwnDescriptor, Live, Open
<1>2. ResultInv'
  <2>1. SUFFICES ASSUME NEW r \in Objs, accepting[r] # NoObj
                 PROVE  IsResult(r)'
    BY <1>0, OwnCallFrame DEF ResultInv
  <2>2. r # o /\ jobj'[r] = jobj[r] /\ accepting[r] \in Objs
    BY <1>0, <2>1, OwnCallFrame DEF KTypeOK
  <2>3. IsResult(r)
    BY <2>1 DEF KInv, ResultInv
  <2>4. jobj'[accepting[r]].kind = "tcp" /\ ~jobj'[accepting[r]].closed
    BY <1>0, <2>2, <2>3, OwnCallFrame DEF IsResult
  <2>5. ASSUME jobj[r].sockId # NoFd
        PROVE  kernel'[jobj[r].sockId] = kernel[jobj[r].sockId]
    <3>1. Live(r) /\ Live(o)
      BY <1>0, <2>3, OwnCallFrame DEF IsResult, Live
    <3>2. jobj[r].sockId # jobj[o].sockId
      BY <2>2, <2>5, <3>1, HoldersDiffer DEF KInv
    <3>3. jobj[r].sockId \in Fds
      BY <2>5, <1>0 DEF KTypeOK, JavaObject
    <3> QED BY <1>0, <3>2, <3>3, OwnCallFrame
  <2> QED BY <1>0, <2>2, <2>3, <2>4, <2>5, OwnCallFrame DEF IsResult, Pristine
<1>3. ListenerInv'
  <2>1. \A f \in Fds : kernel[f].listener \in Objs \cup {NoObj}
    BY <1>0 DEF KTypeOK, Descriptor
  <2>2. \A x \in Objs : /\ jobj'[x].kind = jobj[x].kind
                        /\ jobj'[x].connectedSockets = jobj[x].connectedSockets
    BY <1>0, OwnCallFrame
  <2> QED BY <1>0, <2>1, <2>2, OwnCallFrame DEF KInv, ListenerInv
<1>5. Orphans' = Orphans
  <2>1. \A x \in Objs, f \in Fds : Holds(x, f)' <=> Holds(x, f)
    BY <1>0, OwnCallFrame DEF Holds, Live
  <2> QED BY <1>0, <2>1, OwnCallFrame DEF Orphans
<1>6. OrphansPristine'
  <2>1. \A f \in Orphans : kernel'[f] = kernel[f]
    BY <1>0, OwnCallFrame DEF Orphans, Holds
  <2> QED BY <1>5, <2>1 DEF KInv, OrphansPristine, Pristine
<1>7. FlagsAreTrue'
  <2>1. SUFFICES ASSUME NEW y \in Objs, Live(y)', (accepting[y] = NoObj)'
                 PROVE  FlagTrue(y)'
    BY DEF FlagTrue, FlagsAreTrue
  <2>2. Live(y) /\ Live(o) /\ accepting[y] = NoObj
    BY <1>0, <2>1, OwnCallFrame DEF Live
  <2>3. FlagTrue(y)
    BY <2>2 DEF FlagTrue, KInv, FlagsAreTrue
  <2>4. CASE y # o
    <3>1. jobj'[y] = jobj[y]
      BY <1>0, <2>4, OwnCallFrame
    <3>2. ASSUME Open(jobj[y].sockId)
          PROVE  Open(jobj[y].sockId)' /\ kernel'[jobj[y].sockId] = kernel[jobj[y].sockId]
      <4>1. jobj[y].sockId # NoFd /\ jobj[y].sockId \in Fds
        BY <1>0, <3>2 DEF Open
      <4>2. jobj[y].sockId # jobj[o].sockId
        BY <2>2, <2>4, <4>1, HoldersDiffer DEF KInv
      <4> QED BY <1>0, <3>1, <3>2, <4>1, <4>2, OwnCallFrame DEF Open
    <3> QED BY <2>3, <3>1, <3>2 DEF FlagTrue
  <2>5. CASE y = o
    <3> DEFINE fd == jobj[o].sockId
    <3>0. jobj'[o].sockId = fd /\ jobj'[o].kind = jobj[o].kind /\ (Open(fd) => Open(fd)')
      BY <1>0, OwnCallFrame DEF Open
    <3> DEFINE SameFlags(d) == d.port = kernel[fd].port /\ d.connected = kernel[fd].connected
    <3>t. jobj \in [Objs -> JavaObject] /\ kernel \in [Fds -> Descriptor] /\ 0 \notin Ports
      BY <1>0 DEF KTypeOK, KernelAssumption
    <3>1. CASE jobj' = jobj /\ (Open(fd) => SameFlags(kernel'[fd]))
      BY <2>3, <2>5, <3>0, <3>1 DEF FlagTrue, Open
    <3>2. ASSUME NEW p \in Ports, udpBind(o, p)
          PROVE  \/ jobj' = jobj /\ (Open(fd) => SameFlags(kernel'[fd]))
                 \/ /\ jobj[o].kind = "udp" /\ Open(fd) /\ kernel'[fd].port # 0
      BY <3>t, <3>2, <1>0
         DEF udpBind, MayCallOn, Throws, kvars, CanBind, Open, Descriptor, JavaObject
    <3>3. ASSUME NEW p \in Ports, tcpBind(o, p)
          PROVE  \/ jobj' = jobj /\ (Open(fd) => SameFlags(kernel'[fd]))
                 \/ /\ Open(fd) /\ kernel'[fd].port = p /\ jobj'[o].port = p
                    /\ kernel'[fd].connected = kernel[fd].connected
                    /\ jobj'[o].connected = jobj[o].connected
      BY <3>t, <3>3, <1>0
         DEF tcpBind, MayCallOn, Throws, kvars, CanBind, Open, Descriptor, JavaObject
    <3>4. ASSUME udpConnect(o)
          PROVE  /\ jobj[o].kind = "udp" /\ jobj'[o].bound = jobj[o].bound
                 /\ Open(fd) => kernel'[fd].port = kernel[fd].port
      BY <3>t, <3>4, <1>0
         DEF udpConnect, MayCallOn, Throws, kvars, CanBind, Open, Descriptor, JavaObject
    <3>5. ASSUME tcpConnect(o)
          PROVE  \/ jobj' = jobj /\ (Open(fd) => SameFlags(kernel'[fd]))
                 \/ /\ Open(fd) /\ kernel'[fd].connected /\ kernel'[fd].port = kernel[fd].port
                    /\ jobj'[o].bound = jobj[o].bound /\ jobj'[o].port = jobj[o].port
      BY <3>t, <3>5, <1>0
         DEF tcpConnect, MayCallOn, Throws, kvars, CanBind, Open, Descriptor, JavaObject
    <3>6. ASSUME udpDisconnect(o) \/ tcpListen(o)
          PROVE  jobj' = jobj /\ (Open(fd) => SameFlags(kernel'[fd]))
      BY <3>t, <3>6, <1>0
         DEF udpDisconnect, tcpListen, MayCallOn, Throws, kvars, CanBind, Open, Descriptor, JavaObject
    <3> QED BY <2>3, <2>5, <3>t, <3>0, <3>1, <3>2, <3>3, <3>4, <3>5, <3>6 DEF FlagTrue, OwnCall
  <2> QED BY <2>4, <2>5
<1> QED BY <1>1, <1>2, <1>3, <1>5, <1>6, <1>7, <1>0, OwnCallFrame DEF KInv, OrphansCounted

(* A step that gives an object a new descriptor, or a constructor's throw  *)
(* that leaves one behind, takes none from a socket that has one.          *)
LEMMA HeldIsOpen ==
  ASSUME KTypeOK, OwnDescriptor, NEW x \in Objs, Live(x), jobj[x].sockId # NoFd
  PROVE  jobj[x].sockId \in Fds /\ Open(jobj[x].sockId)
  BY DEF OwnDescriptor, Open

LEMMA FreshResult ==
  ASSUME KernelAssumption, KInv, NEW x \in Objs, NEW fd, NEW j, NEW d, Fresh(x, fd, j, d),
         KTypeOK',
         \A r \in Objs \ {x} : accepting'[r] = accepting[r],
         \/ accepting'[x] = NoObj
         \/ /\ accepting'[x] \in Objs /\ accepting[accepting'[x]] = NoObj
            /\ jobj[accepting'[x]].kind = "tcp" /\ ~jobj[accepting'[x]].closed
            /\ j.kind = "tcp" /\ ~j.bound
            /\ d.port = 0 /\ ~d.connected /\ ~d.listening
  PROVE  ResultInv'
<1>0. KTypeOK /\ NoFd \notin Fds /\ NoObj \notin Objs
  BY DEF KInv, NoFd, Fds, KernelAssumption
<1>1. SUFFICES ASSUME NEW r \in Objs, accepting'[r] # NoObj
               PROVE  IsResult(r)'
  BY DEF ResultInv
<1>2. CASE r = x
  <2>1. accepting'[x] # x
    BY <1>1, <1>2 DEF Fresh
  <2>2. jobj'[x] = j /\ jobj'[accepting'[x]] = jobj[accepting'[x]]
    BY <1>1, <1>2, <2>1 DEF Fresh
  <2>3. accepting'[accepting'[x]] = NoObj
    BY <1>1, <1>2, <2>1
  <2>4. fd # NoFd => kernel'[fd] = d
    BY DEF Fresh
  <2> QED BY <1>1, <1>2, <2>2, <2>3, <2>4 DEF IsResult, Fresh, Pristine
<1>3. CASE r # x
  <2>1. IsResult(r)
    BY <1>1, <1>3 DEF KInv, ResultInv
  <2>2. accepting'[r] = accepting[r] /\ accepting[r] \in Objs /\ accepting[r] # x
    BY <1>0, <1>1, <1>3, <2>1 DEF IsResult, Fresh, KTypeOK
  <2>3. jobj'[r] = jobj[r] /\ jobj'[accepting[r]] = jobj[accepting[r]]
        /\ accepting'[accepting[r]] = NoObj
    BY <1>3, <2>1, <2>2 DEF IsResult, Fresh
  <2>4. ASSUME jobj[r].sockId # NoFd
        PROVE  kernel'[jobj[r].sockId] = kernel[jobj[r].sockId]
    <3>1. jobj[r].sockId \in Fds /\ kernel[jobj[r].sockId].open
      BY <1>0, <2>1, <2>4, HeldIsOpen DEF IsResult, KInv, Live, Open
    <3> QED BY <3>1, <1>0 DEF Fresh
  <2> QED BY <2>1, <2>2, <2>3, <2>4 DEF IsResult, Pristine
<1> QED BY <1>2, <1>3

LEMMA FreshStep ==
  ASSUME KernelAssumption, KInv, NEW x \in Objs, NEW fd, NEW j, NEW d, Fresh(x, fd, j, d),
         KTypeOK', leaks' = leaks,
         \A r \in Objs \ {x} : accepting'[r] = accepting[r],
         ResultInv'
  PROVE  KInv' /\ OrphansCounted
  BY FreshKeeps DEF KInv, OrphansCounted

LEMMA ConstructKeeps ==
  ASSUME KernelAssumption, Rules, KInv, NEW o \in Objs, NEW k \in Kinds, Construct(o, k),
         KTypeOK'
  PROVE  KInv' /\ OrphansCounted
<1>1. PICK fd, j, d : Fresh(o, fd, j, d)
  BY ConstructFresh DEF KInv
<1>2. accepting' = accepting /\ leaks' = leaks
  BY ConstructFresh DEF KInv
<1>3. accepting'[o] = NoObj
  BY <1>1, <1>2 DEF Fresh
<1>4. ResultInv'
  BY <1>1, <1>2, <1>3, FreshResult
<1> QED BY <1>1, <1>2, <1>4, FreshStep

LEMMA AcceptBeginsKeeps ==
  ASSUME KernelAssumption, Rules, KInv, NEW o \in Objs, NEW r \in Objs, acceptBegins(o, r),
         KTypeOK'
  PROVE  KInv' /\ OrphansCounted
<1>1. PICK fd, j, d : /\ Fresh(r, fd, j, d)
                      /\ j.kind = "tcp" /\ ~j.bound
                      /\ d.port = 0 /\ ~d.connected /\ ~d.listening
  BY AcceptBeginsFresh DEF KInv
<1>2. /\ accepting' = [accepting EXCEPT ![r] = o] /\ leaks' = leaks
      /\ jobj[o].kind = "tcp" /\ accepting[o] = NoObj /\ ~jobj[o].closed
  BY AcceptBeginsFresh DEF KInv
<1>3. accepting'[r] = o /\ \A q \in Objs \ {r} : accepting'[q] = accepting[q]
  BY <1>2 DEF KInv, KTypeOK
<1>4. ResultInv'
  BY <1>1, <1>2, <1>3, FreshResult
<1> QED BY <1>1, <1>2, <1>3, <1>4, FreshStep

(* A constructor that throws. *)
LEMMA DropKeeps ==
  ASSUME KernelAssumption, KInv, NEW o \in Objs, NEW fd, KTypeOK',
         accepting' = accepting, jobj' = jobj,
         fd = NoFd \/ (fd \in Fds /\ ~kernel[fd].open),
         kernel' = WithFd(o, "udp", fd), Dropped(fd)
  PROVE  KInv' /\ OrphansCounted
<1>0. KTypeOK /\ NoFd \notin Fds /\ "udp" \in Kinds
  BY DEF KInv, NoFd, Fds, Kinds
<1>1. \A f \in Fds : kernel'[f] = IF f = fd THEN Made(o, "udp") ELSE kernel[f]
  BY <1>0 DEF WithFd, KTypeOK
<1>2. \A f \in Fds : kernel[f].open => kernel'[f] = kernel[f]
  BY <1>0, <1>1
<1>3. \A f : Open(f) => Open(f)' /\ kernel'[f] = kernel[f]
  BY <1>2 DEF Open
<1>4. OwnDescriptor'
  BY <1>3 DEF KInv, OwnDescriptor, Live
<1>5. ResultInv'
  <2>1. \A r \in Objs : accepting[r] # NoObj /\ jobj[r].sockId # NoFd => Open(jobj[r].sockId)
    BY DEF IsResult, KInv, ResultInv, OwnDescriptor, Live
  <2> QED BY <1>3, <2>1 DEF IsResult, KInv, ResultInv, Pristine
<1>6. ListenerInv'
  <2>1. \A f \in Fds : kernel'[f].open /\ kernel'[f].listener # NoObj =>
          kernel'[f] = kernel[f]
    BY <1>0, <1>1, MadeType
  <2> QED BY <2>1 DEF KInv, ListenerInv
<1>7. FlagsAreTrue'
  <2>1. SUFFICES ASSUME NEW y \in Objs, Live(y), accepting[y] = NoObj
                 PROVE  FlagTrue(y)'
    BY DEF FlagTrue, FlagsAreTrue, Live
  <2> QED BY <1>3, <2>1 DEF FlagTrue, KInv, FlagsAreTrue
<1>8. CASE fd = NoFd
  <2>1. kernel' = kernel
    BY <1>8 DEF WithFd
  <2>2. Orphans' = Orphans
    BY <2>1 DEF Orphans, Holds, Live
  <2>3. OrphansPristine'
    BY <2>1, <2>2 DEF KInv, OrphansPristine, Pristine
  <2> QED BY <1>4, <1>5, <1>6, <1>7, <1>8, <2>2, <2>3 DEF KInv, OrphansCounted, Adds
<1>9. CASE fd # NoFd
  <2>1. \A x \in Objs : ~Holds(x, fd)
    BY <1>0, <1>9 DEF KInv, OwnDescriptor, Holds, Open
  <2>2. kernel'[fd] = Made(o, "udp")
    BY <1>1, <1>9
  <2>3. fd \in Fds \ Orphans
    BY <1>9 DEF Orphans
  <2>4. Orphans' = Orphans \cup {fd}
    <3>1. \A x \in Objs, f \in Fds : Holds(x, f)' <=> Holds(x, f)
      BY DEF Holds, Live
    <3> QED BY <1>0, <1>1, <2>1, <2>2, <2>3, <3>1, MadeType DEF Orphans
  <2>5. OrphansPristine'
    <3>1. Pristine(fd)'
      BY <1>0, <2>2, MadeType DEF Pristine
    <3>2. \A f \in Orphans : Pristine(f)'
      BY <1>2 DEF KInv, OrphansPristine, Orphans, Pristine
    <3> QED BY <2>4, <3>1, <3>2 DEF OrphansPristine
  <2> QED BY <1>4, <1>5, <1>6, <1>7, <1>9, <2>3, <2>4, <2>5 DEF KInv, OrphansCounted, Adds
<1> QED BY <1>8, <1>9

LEMMA ConstructOnPortKeeps ==
  ASSUME KernelAssumption, Rules, KInv, NEW o \in Objs, NEW p \in Ports,
         ConstructOnPort(o, p), KTypeOK'
  PROVE  KInv' /\ OrphansCounted
<1>1. /\ accepting' = accepting
      /\ \/ (\E fd, j, d : Fresh(o, fd, j, d)) /\ leaks' = leaks
         \/ /\ jobj' = jobj
            /\ \E fd : /\ fd = NoFd \/ (fd \in Fds /\ ~kernel[fd].open)
                       /\ kernel' = WithFd(o, "udp", fd) /\ Dropped(fd)
  BY ConstructOnPortFresh DEF KInv
<1>2. CASE (\E fd, j, d : Fresh(o, fd, j, d)) /\ leaks' = leaks
  <2>1. PICK fd, j, d : Fresh(o, fd, j, d)
    BY <1>2
  <2>2. accepting'[o] = NoObj
    BY <1>1, <2>1 DEF Fresh
  <2>3. ResultInv'
    BY <1>1, <2>1, <2>2, FreshResult
  <2> QED BY <1>1, <1>2, <2>1, <2>3, FreshStep
<1>3. CASE /\ jobj' = jobj
           /\ \E fd : /\ fd = NoFd \/ (fd \in Fds /\ ~kernel[fd].open)
                      /\ kernel' = WithFd(o, "udp", fd) /\ Dropped(fd)
  BY <1>1, <1>3, DropKeeps
<1> QED BY <1>1, <1>2, <1>3

(* acceptC() throws: the object is lost and its descriptor stays open. *)
LEMMA AcceptThrowsKeeps ==
  ASSUME KernelAssumption, KInv, NEW r \in Objs, acceptThrows(r), KTypeOK'
  PROVE  KInv' /\ OrphansCounted
<1> DEFINE fd == jobj[r].sockId
<1>0. /\ KTypeOK /\ NoFd \notin Fds /\ NoObj \notin Objs /\ fd \in Fds \cup {NoFd}
      /\ kernel' = kernel /\ Dropped(fd)
  BY DEF KInv, KTypeOK, JavaObject, NoFd, Fds, KernelAssumption, acceptThrows
<1>1. \A y \in Objs : jobj'[y] = IF y = r THEN NoObject ELSE jobj[y]
  BY <1>0 DEF acceptThrows, KTypeOK
<1>2. \A y \in Objs : accepting'[y] = IF y = r THEN NoObj ELSE accepting[y]
  BY <1>0 DEF acceptThrows, KTypeOK
<1>3. /\ accepting[r] # NoObj /\ jobj[r].kind = "tcp" /\ ~jobj[r].closed
      /\ fd # NoFd => Pristine(fd)
  BY DEF IsResult, acceptThrows, KInv, ResultInv
<1>4. jobj'[r].kind = "none"
  BY <1>1 DEF NoObject
<1>5. OwnDescriptor'
  BY <1>0, <1>1, <1>4 DEF KInv, OwnDescriptor, Live, Open
<1>6. ResultInv'
  <2>1. SUFFICES ASSUME NEW q \in Objs, accepting'[q] # NoObj
                 PROVE  IsResult(q)'
    BY DEF ResultInv
  <2>2. q # r /\ accepting'[q] = accepting[q] /\ accepting[q] \in Objs
    BY <1>0, <1>2, <2>1 DEF KTypeOK
  <2>3. accepting[accepting[q]] = NoObj /\ accepting[q] # r
    BY <1>3, <2>1, <2>2 DEF IsResult, KInv, ResultInv
  <2> QED BY <1>0, <1>1, <1>2, <2>1, <2>2, <2>3 DEF IsResult, KInv, ResultInv, Pristine
<1>7. ListenerInv'
  <2>1. \A f \in Fds : kernel[f].listener \in Objs \cup {NoObj}
    BY <1>0 DEF KTypeOK, Descriptor
  <2> QED BY <1>0, <1>1, <1>2, <1>3, <2>1 DEF KInv, ListenerInv
<1>8. FlagsAreTrue'
  <2>1. SUFFICES ASSUME NEW y \in Objs, Live(y)', (accepting[y] = NoObj)'
                 PROVE  FlagTrue(y)'
    BY DEF FlagTrue, FlagsAreTrue
  <2>2. y # r
    BY <1>4, <2>1 DEF Live
  <2> QED BY <1>0, <1>1, <1>2, <2>1, <2>2 DEF FlagTrue, KInv, FlagsAreTrue, Live, Open
<1>9. \A y \in Objs, f \in Fds : Holds(y, f)' <=> Holds(y, f) /\ y # r
  BY <1>1, <1>4 DEF Holds, Live
<1>10. CASE fd = NoFd
  <2>1. Orphans' = Orphans
    BY <1>0, <1>9, <1>10 DEF Orphans, Holds
  <2>2. OrphansPristine'
    BY <1>0, <2>1 DEF KInv, OrphansPristine, Pristine
  <2> QED BY <1>0, <1>5, <1>6, <1>7, <1>8, <1>10, <2>1, <2>2 DEF KInv, OrphansCounted, Adds
<1>11. CASE fd # NoFd
  <2>1. Holds(r, fd) /\ fd \in Fds /\ kernel[fd].open
    BY <1>0, <1>3, <1>11, HeldIsOpen DEF KInv, Holds, Live, Open
  <2>2. \A y \in Objs \ {r} : ~Holds(y, fd)
    BY <1>11, <2>1, HoldersDiffer DEF KInv, Holds
  <2>3. fd \in Fds \ Orphans
    BY <2>1 DEF Orphans
  <2>4. Orphans' = Orphans \cup {fd}
    <3>1. \A f \in Fds : Holds(r, f) => f = fd
      BY DEF Holds
    <3> HIDE DEF fd
    <3> QED BY <1>0, <1>9, <2>1, <2>2, <3>1 DEF Orphans
  <2>5. OrphansPristine'
    <3>1. \A f \in Orphans' : Pristine(f)
      <4> HIDE DEF fd
      <4> QED BY <1>3, <1>11, <2>4 DEF KInv, OrphansPristine
    <3> QED BY <1>0, <3>1 DEF OrphansPristine, Pristine
  <2> QED BY <1>0, <1>5, <1>6, <1>7, <1>8, <1>11, <2>3, <2>4, <2>5
          DEF KInv, OrphansCounted, Adds
<1> QED BY <1>0, <1>10, <1>11

(* close() takes the descriptor of its own socket and no other. *)
LEMMA CloseKeeps ==
  ASSUME KernelAssumption, Rules, KInv, NEW o \in Objs, close(o), KTypeOK'
  PROVE  KInv' /\ OrphansCounted
<1> DEFINE fd == jobj[o].sockId
<1>0. /\ KTypeOK /\ NoFd \notin Fds /\ fd \in Fds \cup {NoFd} /\ Live(o)
      /\ accepting[o] = NoObj /\ \A r \in Objs : accepting[r] # o
      /\ accepting' = accepting /\ leaks' = leaks
  BY DEF KInv, KTypeOK, JavaObject, NoFd, Fds, close, Rules, MayCall, Reachable, Live
<1>1. /\ \A y \in Objs \ {o} : jobj'[y] = jobj[y]
      /\ jobj'[o].kind = jobj[o].kind /\ jobj'[o].closed
      /\ jobj'[o].connectedSockets = jobj[o].connectedSockets
  BY <1>0 DEF close, KTypeOK, JavaObject
<1>2. kernel' = IF Open(fd) THEN CloseFd(fd) ELSE kernel
  BY DEF close, closeC, Rules
<1>3. \A f \in Fds : kernel'[f] = IF f = fd THEN ClosedFd ELSE kernel[f]
  <2>1. CASE Open(fd)
    BY <1>0, <1>2, <2>1 DEF CloseFd, Open, KTypeOK
  <2>2. CASE ~Open(fd)
    <3>1. fd = NoFd
      BY <1>0, <2>2 DEF KInv, OwnDescriptor
    <3> QED BY <1>0, <1>2, <2>2, <3>1
  <2> QED BY <2>1, <2>2
<1>4. ~ClosedFd.open
  BY DEF ClosedFd
<1>5. \A y \in Objs \ {o} : Live(y) /\ jobj[y].sockId # NoFd =>
        Open(jobj[y].sockId)' /\ kernel'[jobj[y].sockId] = kernel[jobj[y].sockId]
  <2>1. SUFFICES ASSUME NEW y \in Objs \ {o}, Live(y), jobj[y].sockId # NoFd
                 PROVE  Open(jobj[y].sockId)' /\ kernel'[jobj[y].sockId] = kernel[jobj[y].sockId]
    OBVIOUS
  <2>2. jobj[y].sockId \in Fds /\ Open(jobj[y].sockId)
    BY <1>0, <2>1, HeldIsOpen DEF KInv
  <2>3. jobj[y].sockId # fd
    BY <1>0, <2>1, HoldersDiffer DEF KInv
  <2> QED BY <1>1, <1>3, <2>1, <2>2, <2>3 DEF Open
<1>6. \A y \in Objs : Live(y)' <=> Live(y) /\ y # o
  BY <1>1 DEF Live
<1>7. OwnDescriptor'
  BY <1>1, <1>5, <1>6 DEF KInv, OwnDescriptor
<1>8. ResultInv'
  <2>1. SUFFICES ASSUME NEW q \in Objs, accepting[q] # NoObj
                 PROVE  IsResult(q)'
    BY <1>0 DEF ResultInv
  <2>2. q # o /\ accepting[q] \in Objs /\ accepting[q] # o
    BY <1>0, <2>1 DEF KTypeOK
  <2>3. IsResult(q)
    BY <2>1 DEF KInv, ResultInv
  <2>4. Live(q) /\ jobj'[q] = jobj[q] /\ jobj'[accepting[q]] = jobj[accepting[q]]
    BY <1>1, <2>2, <2>3 DEF IsResult, Live
  <2> QED BY <1>0, <1>5, <2>2, <2>3, <2>4 DEF IsResult, Pristine
<1>9. ListenerInv'
  <2>1. \A f \in Fds : kernel[f].listener \in Objs \cup {NoObj}
    BY <1>0 DEF KTypeOK, Descriptor
  <2>2. \A y \in Objs : /\ jobj'[y].kind = jobj[y].kind
                        /\ jobj'[y].connectedSockets = jobj[y].connectedSockets
    BY <1>1
  <2> QED BY <1>0, <1>3, <1>4, <2>1, <2>2 DEF KInv, ListenerInv
<1>10. FlagsAreTrue'
  <2>1. SUFFICES ASSUME NEW y \in Objs, Live(y)', (accepting[y] = NoObj)'
                 PROVE  FlagTrue(y)'
    BY DEF FlagTrue, FlagsAreTrue
  <2>2. y # o /\ Live(y) /\ jobj'[y] = jobj[y] /\ accepting[y] = NoObj
    BY <1>0, <1>1, <1>6, <2>1
  <2>3. FlagTrue(y)
    BY <2>2 DEF FlagTrue, KInv, FlagsAreTrue
  <2>4. Open(jobj[y].sockId) => jobj[y].sockId # NoFd
    BY <1>0 DEF Open
  <2> QED BY <1>5, <2>2, <2>3, <2>4 DEF FlagTrue
<1>11. \A f \in Fds : f # fd => \A y \in Objs : Holds(y, f)' <=> Holds(y, f)
  BY <1>1, <1>6 DEF Holds
<1>12. Orphans' = Orphans
  <2>1. Holds(o, fd)
    BY <1>0 DEF Holds
  <2> HIDE DEF fd
  <2> QED BY <1>3, <1>4, <1>11, <2>1 DEF Orphans
<1>13. OrphansPristine'
  <2>1. \A f \in Orphans : kernel'[f] = kernel[f]
    BY <1>0, <1>3 DEF Orphans, Holds
  <2> QED BY <1>12, <2>1 DEF KInv, OrphansPristine, Pristine
<1> QED BY <1>0, <1>7, <1>8, <1>9, <1>10, <1>12, <1>13 DEF KInv, OrphansCounted

(* accept() returns: the object holds the connection, its own descriptor   *)
(* is nobody's, and the listener has noted the new one.                    *)
LEMMA AcceptReturnsKeeps ==
  ASSUME KernelAssumption, KInv, NEW r \in Objs, NEW p \in Ports, acceptReturns(r, p),
         KTypeOK'
  PROVE  KInv' /\ OrphansCounted
<1> DEFINE o == accepting[r]
           old == jobj[r].sockId
<1>0. /\ KTypeOK /\ NoFd \notin Fds /\ NoObj \notin Objs /\ old \in Fds \cup {NoFd}
      /\ o \in Objs /\ Dropped(old)
  BY DEF KInv, KTypeOK, JavaObject, NoFd, Fds, KernelAssumption, acceptReturns
<1>1. /\ jobj[r].kind = "tcp" /\ ~jobj[r].closed /\ ~jobj[r].bound /\ ~jobj[r].connected
      /\ jobj[o].kind = "tcp" /\ ~jobj[o].closed /\ accepting[o] = NoObj
      /\ old # NoFd => Pristine(old)
  BY DEF IsResult, KInv, ResultInv, acceptReturns
<1>2. PICK fd \in Fds :
        /\ ~kernel[fd].open /\ HandOver(r, fd)
        /\ jobj' = [jobj EXCEPT ![r].sockId = fd, ![r].port = p,
                                ![o].connectedSockets = @ \cup {fd}]
  BY NumbersAreFds DEF acceptReturns, Notes
<1>3. o # r
  BY <1>0, <1>1
<1>4. /\ jobj'[r].kind = "tcp" /\ ~jobj'[r].closed /\ ~jobj'[r].bound /\ ~jobj'[r].connected
      /\ jobj'[r].sockId = fd /\ jobj'[r].connectedSockets = jobj[r].connectedSockets
      /\ \A y \in Objs \ {r} :
           /\ jobj'[y].kind = jobj[y].kind /\ jobj'[y].sockId = jobj[y].sockId
           /\ jobj'[y].port = jobj[y].port /\ jobj'[y].bound = jobj[y].bound
           /\ jobj'[y].connected = jobj[y].connected /\ jobj'[y].closed = jobj[y].closed
           /\ jobj[y].connectedSockets \subseteq jobj'[y].connectedSockets
      /\ fd \in jobj'[o].connectedSockets
  <2>1. jobj \in [Objs -> JavaObject]
    BY <1>0 DEF KTypeOK
  <2>2. jobj'[r] = [jobj[r] EXCEPT !.sockId = fd, !.port = p]
    BY <1>0, <1>2, <1>3, <2>1
  <2>3. jobj'[o] = [jobj[o] EXCEPT !.connectedSockets = @ \cup {fd}]
    BY <1>0, <1>2, <1>3, <2>1
  <2>4. \A y \in Objs \ {r, o} : jobj'[y] = jobj[y]
    BY <1>0, <1>2, <1>3, <2>1
  <2> HIDE DEF o, old
  <2>5. /\ jobj'[r].kind = jobj[r].kind /\ jobj'[r].closed = jobj[r].closed
        /\ jobj'[r].bound = jobj[r].bound /\ jobj'[r].connected = jobj[r].connected
        /\ jobj'[r].sockId = fd /\ jobj'[r].connectedSockets = jobj[r].connectedSockets
    BY <2>1, <2>2 DEF JavaObject
  <2>6. /\ jobj'[o].kind = jobj[o].kind /\ jobj'[o].sockId = jobj[o].sockId
        /\ jobj'[o].port = jobj[o].port /\ jobj'[o].bound = jobj[o].bound
        /\ jobj'[o].connected = jobj[o].connected /\ jobj'[o].closed = jobj[o].closed
        /\ jobj'[o].connectedSockets = jobj[o].connectedSockets \cup {fd}
    BY <1>0, <2>1, <2>3 DEF JavaObject
  <2> QED BY <1>1, <2>4, <2>5, <2>6
<1>5. /\ \A f \in Fds \ {fd} : kernel'[f] = kernel[f]
      /\ kernel'[fd].open /\ kernel'[fd].owner = r /\ kernel'[fd].listener = o
  <2>1. "tcp" \in Kinds
    BY DEF Kinds
  <2>2. kernel'[fd] = [Made(r, "tcp") EXCEPT !.connected = TRUE, !.listener = o,
                                             !.port = kernel[jobj[o].sockId].port]
    BY <1>0, <1>2 DEF HandOver, KTypeOK
  <2>3. \A f \in Fds \ {fd} : kernel'[f] = kernel[f]
    BY <1>0, <1>2 DEF HandOver, KTypeOK
  <2>4. kernel'[fd].open /\ kernel'[fd].owner = r /\ kernel'[fd].listener = o
    BY <2>1, <2>2, MadeType DEF Descriptor
  <2> QED BY <2>3, <2>4
<1>6. \A y \in Objs : accepting'[y] = IF y = r THEN NoObj ELSE accepting[y]
  BY <1>0 DEF acceptReturns, KTypeOK
<1> HIDE DEF o, old
<1>7. \A y \in Objs : Live(y)' <=> Live(y)
  BY <1>1, <1>4 DEF Live
<1>8. \A y \in Objs \ {r} : Live(y) /\ jobj[y].sockId # NoFd =>
        Open(jobj[y].sockId)' /\ kernel'[jobj[y].sockId] = kernel[jobj[y].sockId]
  <2>1. SUFFICES ASSUME NEW y \in Objs \ {r}, Live(y), jobj[y].sockId # NoFd
                 PROVE  Open(jobj[y].sockId)' /\ kernel'[jobj[y].sockId] = kernel[jobj[y].sockId]
    OBVIOUS
  <2>2. jobj[y].sockId \in Fds /\ Open(jobj[y].sockId)
    BY <1>0, <2>1, HeldIsOpen DEF KInv
  <2>3. kernel'[jobj[y].sockId] = kernel[jobj[y].sockId]
    BY <1>2, <1>5, <2>2 DEF Open
  <2>4. jobj'[y].sockId = jobj[y].sockId
    BY <1>4
  <2> QED BY <2>2, <2>3, <2>4 DEF Open
<1>9. OwnDescriptor'
  <2>1. Open(fd)' /\ kernel'[fd].owner = r
    BY <1>5 DEF Open
  <2> QED BY <1>4, <1>7, <1>8, <2>1 DEF KInv, OwnDescriptor
<1>10. ResultInv'
  <2>1. SUFFICES ASSUME NEW q \in Objs, accepting'[q] # NoObj
                 PROVE  IsResult(q)'
    BY DEF ResultInv
  <2>2. q # r /\ accepting'[q] = accepting[q] /\ accepting[q] \in Objs
    BY <1>0, <1>6, <2>1 DEF KTypeOK
  <2>3. IsResult(q)
    BY <2>1, <2>2 DEF KInv, ResultInv
  <2>4. Live(q) /\ accepting[q] # r
    BY <1>0, <2>2, <2>3 DEF IsResult, Live, o
  <2> QED BY <1>4, <1>6, <1>8, <2>2, <2>3, <2>4 DEF IsResult, Pristine
<1>11. ListenerInv'
  <2>1. SUFFICES ASSUME NEW f \in Fds, kernel'[f].open, kernel'[f].listener # NoObj
                 PROVE  LET l == kernel'[f].listener IN
                        jobj'[l].kind # "none" /\ accepting'[l] = NoObj
                        /\ f \in jobj'[l].connectedSockets
    BY DEF ListenerInv
  <2>2. CASE f = fd
    BY <1>0, <1>1, <1>3, <1>4, <1>5, <1>6, <2>2
  <2>3. CASE f # fd
    <3> DEFINE l == kernel[f].listener
    <3>1. kernel'[f] = kernel[f] /\ l \in Objs
      BY <1>0, <1>5, <2>1, <2>3 DEF KTypeOK, Descriptor
    <3>2. jobj[l].kind # "none" /\ accepting[l] = NoObj /\ f \in jobj[l].connectedSockets
      BY <2>1, <3>1 DEF KInv, ListenerInv
    <3>3. l # r
      BY <1>0, <3>2 DEF o
    <3> QED BY <1>4, <1>6, <3>1, <3>2, <3>3
  <2> QED BY <2>2, <2>3
<1>12. FlagsAreTrue'
  <2>1. SUFFICES ASSUME NEW y \in Objs, Live(y)', (accepting[y] = NoObj)'
                 PROVE  FlagTrue(y)'
    BY DEF FlagTrue, FlagsAreTrue
  <2>2. CASE y = r
    BY <1>4, <2>2 DEF FlagTrue
  <2>3. CASE y # r
    <3>1. Live(y) /\ accepting[y] = NoObj
      BY <1>6, <1>7, <2>1, <2>3
    <3>2. FlagTrue(y)
      BY <3>1 DEF FlagTrue, KInv, FlagsAreTrue
    <3>3. Open(jobj[y].sockId) => jobj[y].sockId # NoFd
      BY <1>0 DEF Open
    <3> QED BY <1>4, <1>8, <2>3, <3>1, <3>2, <3>3 DEF FlagTrue
  <2> QED BY <2>2, <2>3
<1>13. /\ \A y \in Objs \ {r}, f \in Fds : Holds(y, f)' <=> Holds(y, f)
       /\ \A f \in Fds : Holds(r, f)' <=> f = fd
       /\ \A f : Holds(r, f) <=> f = old
       /\ \A y \in Objs : ~Holds(y, fd)
  <2>1. \A y \in Objs : ~Holds(y, fd)
    BY <1>0, <1>2, HeldIsOpen DEF KInv, Holds, Open
  <2> QED BY <1>1, <1>4, <1>7, <2>1 DEF Holds, Live, old
<1>14. CASE old = NoFd
  <2>1. Orphans' = Orphans
    BY <1>0, <1>2, <1>5, <1>13, <1>14 DEF Orphans
  <2>2. OrphansPristine'
    BY <1>2, <1>5, <2>1 DEF KInv, OrphansPristine, Orphans, Pristine
  <2> QED BY <1>0, <1>9, <1>10, <1>11, <1>12, <1>14, <2>1, <2>2 DEF KInv, OrphansCounted, Adds
<1>15. CASE old # NoFd
  <2>1. Holds(r, old) /\ old \in Fds /\ kernel[old].open /\ old # fd
    <3>1. Live(r) /\ jobj[r].sockId = old
      BY <1>1 DEF Live, old
    <3>2. old \in Fds /\ kernel[old].open
      BY <1>0, <1>15, <3>1, HeldIsOpen DEF KInv, Open
    <3> QED BY <1>2, <3>1, <3>2 DEF Holds
  <2>2. \A y \in Objs \ {r} : ~Holds(y, old)
    BY <1>15, <2>1, HoldersDiffer DEF KInv, Holds
  <2>3. old \in Fds \ Orphans
    BY <2>1 DEF Orphans
  <2>4. Orphans' = Orphans \cup {old}
    BY <1>2, <1>5, <1>13, <2>1, <2>2 DEF Orphans
  <2>5. OrphansPristine'
    <3>1. \A f \in Fds : f = old => Pristine(f)'
      BY <1>1, <1>5, <1>15, <2>1 DEF Pristine
    <3>2. \A f \in Orphans : Pristine(f)'
      BY <1>2, <1>5 DEF KInv, OrphansPristine, Orphans, Pristine
    <3> QED BY <2>1, <2>4, <3>1, <3>2 DEF OrphansPristine
  <2> QED BY <1>0, <1>9, <1>10, <1>11, <1>12, <1>15, <2>3, <2>4, <2>5
          DEF KInv, OrphansCounted, Adds
<1> QED BY <1>14, <1>15

-----------------------------------------------------------------------------
(* The induction. *)
LEMMA KInitInv ==
  ASSUME KernelAssumption, KInit
  PROVE  KInv /\ Orphans = {}
<1>1. /\ \A o \in Objs : jobj[o] = NoObject /\ accepting[o] = NoObj
      /\ \A fd \in Fds : kernel[fd] = ClosedFd
  BY DEF KInit
<1>2. Orphans = {}
  BY <1>1 DEF Orphans, ClosedFd
<1>3. OwnDescriptor /\ FlagsAreTrue
  BY <1>1 DEF OwnDescriptor, FlagsAreTrue, Live, NoObject
<1>4. ResultInv /\ ListenerInv
  BY <1>1 DEF ResultInv, ListenerInv, ClosedFd
<1> QED BY <1>2, <1>3, <1>4, InitType DEF KInv, OrphansPristine

LEMMA KNextInv ==
  ASSUME KernelAssumption, Rules, KInv, [KNext]_kvars
  PROVE  KInv' /\ OrphansCounted
<1>1. KTypeOK'
  BY NextType DEF KInv
<1>2. CASE UNCHANGED kvars
  <2>1. \A f : Pristine(f)' <=> Pristine(f)
    BY <1>2 DEF kvars, Pristine
  <2>2. Orphans' = Orphans
    BY <1>2 DEF kvars, Orphans, Holds, Live
  <2>3. OwnDescriptor' /\ FlagsAreTrue'
    BY <1>2 DEF kvars, KInv, OwnDescriptor, FlagsAreTrue, Live, Open
  <2>4. ResultInv' /\ ListenerInv'
    BY <1>2 DEF IsResult, kvars, KInv, ResultInv, ListenerInv, Pristine
  <2>5. leaks' = leaks
    BY <1>2 DEF kvars
  <2> QED BY <1>1, <2>1, <2>2, <2>3, <2>4, <2>5 DEF KInv, OrphansPristine, OrphansCounted
<1>3. CASE KNext
  <2>1. PICK o \in Objs :
           \/ \E k \in Kinds : Construct(o, k)
           \/ \E p \in Ports : ConstructOnPort(o, p)
           \/ OwnCall(o)
           \/ \E result \in Objs : acceptBegins(o, result)
           \/ \E p \in Ports : acceptReturns(o, p)
           \/ acceptThrows(o)
           \/ close(o)
    BY <1>3, NextSplits
  <2>2. CASE \E k \in Kinds : Construct(o, k)
    BY <1>1, <2>2, ConstructKeeps
  <2>3. CASE \E p \in Ports : ConstructOnPort(o, p)
    BY <1>1, <2>3, ConstructOnPortKeeps
  <2>4. CASE OwnCall(o)
    BY <1>1, <2>4, OwnCallKeeps
  <2>5. CASE \E result \in Objs : acceptBegins(o, result)
    BY <1>1, <2>5, AcceptBeginsKeeps
  <2>6. CASE \E p \in Ports : acceptReturns(o, p)
    BY <1>1, <2>6, AcceptReturnsKeeps
  <2>7. CASE acceptThrows(o)
    BY <1>1, <2>7, AcceptThrowsKeeps
  <2>8. CASE close(o)
    BY <1>1, <2>8, CloseKeeps
  <2> QED BY <2>1, <2>2, <2>3, <2>4, <2>5, <2>6, <2>7, <2>8
<1> QED BY <1>2, <1>3

LEMMA KInvariance == Rules => (KSpec => []KInv)
<1> SUFFICES ASSUME Rules PROVE KSpec => []KInv
  OBVIOUS
<1>1. KInit => KInv
  BY KInitInv, KernelAssumption
<1>2. KInv /\ [KNext]_kvars => KInv'
  BY KNextInv, KernelAssumption
<1> QED BY <1>1, <1>2, PTL DEF KSpec

(* On Linux and under the rules a socket that was not closed holds an open *)
(* descriptor that was made for it, however the numbers are reused.        *)
THEOREM DescriptorsAreOwn == Rules => (KSpec => []OwnDescriptor)
<1> SUFFICES ASSUME Rules PROVE KSpec => []OwnDescriptor
  OBVIOUS
<1>1. KInv => OwnDescriptor
  BY DEF KInv
<1> QED BY <1>1, KInvariance, PTL

(* Likewise bound, of a socket of either class, and port and connected, of *)
(* a KernelTCPSocket, say what the kernel knows of the descriptor.         *)
THEOREM FlagsAreTold == Rules => (KSpec => []FlagsAreTrue)
<1> SUFFICES ASSUME Rules PROVE KSpec => []FlagsAreTrue
  OBVIOUS
<1>1. KInv => FlagsAreTrue
  BY DEF KInv
<1> QED BY <1>1, KInvariance, PTL

(* Likewise a listener can send to every open connection it accepted.      *)
THEOREM ListenersServe == Rules => (KSpec => []AcceptedCanBeServed)
<1> SUFFICES ASSUME Rules PROVE KSpec => []AcceptedCanBeServed
  OBVIOUS
<1>1. KInv => AcceptedCanBeServed
  BY KernelAssumption DEF KInv, ListenerInv, AcceptedCanBeServed, Open
<1> QED BY <1>1, KInvariance, PTL

-----------------------------------------------------------------------------
LEMMA FdsAreFinite == KernelAssumption => IsFiniteSet(Fds)
  BY FS_Interval DEF KernelAssumption, Fds

(* The count follows the orphans, because they are never released. *)
LEMMA CountFollows ==
  ASSUME KernelAssumption, Cardinality(Orphans) = leaks, OrphansCounted
  PROVE  Cardinality(Orphans') = leaks'
<1>1. IsFiniteSet(Orphans)
  BY FdsAreFinite, FS_Subset DEF Orphans
<1>2. CASE leaks' = leaks /\ Orphans' = Orphans
  BY <1>2
<1>3. CASE \E fd : Adds(fd)
  <2>1. PICK fd : Adds(fd)
    BY <1>3
  <2>2. CASE fd = NoFd
    BY <2>1, <2>2 DEF Adds, Dropped
  <2>3. CASE fd # NoFd
    <3>1. fd \notin Orphans /\ Orphans' = Orphans \cup {fd} /\ leaks' = leaks + 1
      BY <2>1, <2>3 DEF Adds, Dropped
    <3>2. Cardinality(Orphans \cup {fd}) = Cardinality(Orphans) + 1
      BY <1>1, <3>1, FS_AddElement
    <3> QED BY <3>1, <3>2
  <2> QED BY <2>2, <2>3
<1> QED BY <1>2, <1>3 DEF OrphansCounted

(* On Linux and under the rules only accept() and constructors that throw  *)
(* leave a descriptor behind, one a call, and none of them holds a port or *)
(* a connection.                                                           *)
THEOREM OrphansAreAccounted == Rules => (KSpec => []OrphansAreCounted)
<1> SUFFICES ASSUME Rules PROVE KSpec => []OrphansAreCounted
  OBVIOUS
<1> DEFINE Counted == Cardinality(Orphans) = leaks
<1>1. KInit => KInv /\ Counted
  <2> SUFFICES ASSUME KInit PROVE KInv /\ Counted
    OBVIOUS
  <2>1. Orphans = {} /\ leaks = 0 /\ KInv
    BY KInitInv, KernelAssumption DEF KInit
  <2> QED BY <2>1, FS_EmptySet
<1>2. KInv /\ Counted /\ [KNext]_kvars => KInv' /\ Counted'
  BY KNextInv, CountFollows, KernelAssumption
<1>3. KInv /\ Counted => OrphansAreCounted
  BY DEF KInv, OrphansPristine, Pristine, OrphansAreCounted
<1> HIDE DEF Counted
<1> QED BY <1>1, <1>2, <1>3, PTL DEF KSpec

=============================================================================
