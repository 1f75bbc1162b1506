# Verification of the JNI socket classes

The repository wraps two socket libraries in Java classes: the kernel's BSD
sockets (`KernelUDPSocket`, `KernelTCPSocket`) and Myricom's DBL user-level
network stack (`DBLUDPSocket`, `DBLTCPSocket`). In both a Java object holds
small integers, and native C code turns them into a descriptor, or into entries
of tables that are globals of the C library. Nothing on the C side knows which
Java object an integer belongs to, and nothing on the Java side is told when an
integer stops being good. Whether the two sides agree is what this project is
about.

## The system

| part | state | operations | correct when |
|---|---|---|---|
| DBL sockets: `DBLUDPSocket.java`, `DBLTCPSocket.java`, `dbl_tcp_udp_socket.c` | per object: device, channel and send handle index, `bound`, `connected`, `closed`, `openFlag`, `port`; static `ipInUse`; C globals `devices`, `channels`, `send_handles`, their counters, `ch`, `ret_ch` | constructors, bind, bindAddr, unbind, connect, disconnect, send, receive, joinGroup, leaveGroup, close, the device calls, and listen, accept, send, receive, poll, options for TCP | an index is handed out once and means for ever what the Java fields say; a call acts on the caller's own entry; no legal sequence of calls crashes the JVM |
| Kernel sockets: `KernelUDPSocket.java`, `KernelTCPSocket.java`, `kernel_udp_socket.c`, `kernel_tcp_socket.c` | per object: descriptor number, `bound`, `connected`, `closed`, `connectedSockets`; the process' descriptor table; on Windows `is_init` per library and the WSAStartup count | constructors, bind, connect, disconnect, listen, accept, send, receive, timeouts, close | a live socket keeps a descriptor of its own; flags say what the kernel says; descriptors that are lost are known |
| Addresses: `AbstractUDPSocket.java` | none | `hostToInt`, `hostToString` | the conversions are inverse to each other on dotted quads |
| UDP echo: `ServerSocket`, `ClientSocket`, `DBLTestClient`, `Application.concurrentTest`, `startDbl*` | program counters, datagrams under way, futures | send, receive, wait for a future | each client gets its answer, the program ends |
| TCP ping-pong: `KernelServer`, `KernelClient`, `Application.testTCPKernel` | program counters, connections, streams, futures | connect, accept, send, recv, wait for a future | each client is served, nobody waits for ever |
| Rest: `dbltcp_pingpong.c`, data holders, JNI headers, `Makefile`, empty DBL TCP stubs | none of its own | | |

How they interact: a Java method calls one native method with an integer from a
field, the native reads or writes the C globals or the kernel, and the method
then assigns fields. `tcpAcceptC()` and `acceptC()` write fields of the *new*
Java object themselves, through JNI. Sockets of all classes are used from
thread pools, with no lock anywhere.

What is hard here:

- **indices that outlive what they name**: close, unbind and disconnect do not
  touch the index; `ipInUse` never forgets a closed device; a closed descriptor
  number is handed out again;
- **indices that never named anything**: a fresh object has index 0 three times;
  `bind()` and `tcpAccept()` fill a global instead of the entry they counted;
- **shared state under several sockets**: one device per address, one global `ch`
  for all listeners, one count of WSAStartup() calls per process;
- **failure between two steps**: fields assigned before a native that may throw,
  constructors and `accept()` that throw with a descriptor in hand, `DBL_Safe`
  which ends the process;
- **threads**: table growth by `realloc`, the `ipInUse` check-then-act, and
  `accept()` waiting between its two halves.

`PROJECT.json` lists each of these hazards at its line with the properties that
cover it, or says why none does.

## Modules

**`DBLSockets`** has one action per Java method, including the native it calls.
The flags of `dbl_open()` are bits (`Disabled`), while `deviceEnable()` compares the whole flag.
`jsock` holds the fields of the objects, `devices`, `channels`, `send_handles`
and their counters the C tables together with the state of the library object
behind each entry, `ch` the global channel, `proc` how the JVM ended. A channel entry's `slot` is
`"garbage"` when the table holds memory that was allocated and never written
(after `bindC` and `tcpAcceptC`) and `"handle"` when it holds the channel
(after `bindAddrC`). The operators `createDeviceC`, `bindC`, `sendConnectC`, ...
are the natives; `DBL_Safe` and `Unchecked` say how a native call may end: a
valid handle gives success (or, under `DBL_Safe`, a library failure and `exit`),
an invalid one an error or a crash, an entry outside the table a crash. The
specification imposes no order on the calls.

**`DBLProtocol`** extends it with the rules a caller has to follow (`Rules`),
and with history variables that record what the callers did. Each of its
actions is an action of `DBLSockets` behind the rules in force. The rules are: no
call after the first `close()` on a socket of the address; no call on a socket of the
empty constructor or of `tcpAccept()`; channel calls only after `bindAddr()`;
handle calls only between `connect()` and `disconnect()`; `disconnect()` before
`unbind()`; listen and accept only by whoever called `bind()` last; and no
unconnected datagram below two bytes. None of these is written or checked in the
code; the module shows that together they are enough. They are strong: two of
the repository's own drivers break them. `DBLTestClient` calls `connect()` after
`bind()` and `startDblTcpServer` calls `tcpGetChannelType()` after `bind()`, both
of which hand a garbage entry to the library.

**`KernelSockets`** has both kernel classes over one descriptor table. `jobj`
holds the fields, `kernel` the descriptors (open, port, listening, connected, and
as history the object each was made for and the listener that accepted it),
`accepting` the objects that an unfinished `accept()` has made, `leaks` the
number of descriptors that a method dropped. `accept()` is two actions because
it waits in the kernel in between; every other method is one. `Windows` chooses
the `_WIN32` build. `Disciplined` says that no call is made on a closed socket,
and that a socket waiting in `accept()` is not closed.

**`HandleRace`** takes the natives that grow a table (`createDeviceC`,
`bindAddrC`, `sendConnectC`) and those that only follow an entry (`sendC`,
`receiveFromC`) apart into their statements, for threads that run them at once:
`realloc()`, the store of the pointer, the store of the entry, the read and the
write of the counter, the library call, the `return`; and the constructor's
`containsKey()`, `get()` and `put()` around its native. `holders` says who knows
the address of a table's block, the C global or a thread between `realloc()` and
its store, so that a stale pointer is one that is not in the set. Constructors race
freely: any number of threads may find that `ipInUse` lacks an address before
one of them puts it there. With `Apart` two things do not overlap: two natives that grow the
same table, and the move of a table's block (from `realloc()` to the store of the
pointer) with a native that follows an entry of it. Everything else runs freely:
natives that grow different tables, and natives that follow an entry while their table
is growing. Nothing in the code does what `Apart` says: it is an assumption on the schedule, and
the module says how much locking the callers owe the natives. Without `Apart` TLC breaks `NoFault` in 8 steps,
`IndicesNameOwnObjects` in 16, `NoDeviceIsLost` in 17 and `KeepsPromise` in 24.

**`HandleTables`** is what the tables promise: an index is handed out once and
names one object for ever, and a call that uses an index acts upon the object that
the index was handed out for. `HandleRace` implements it (`KeepsPromise`), where `made[tab][i]`
is the thread whose entry is stored at `i`, from the moment the entry is both
counted and filled by the library. The two happen in one order for devices and in
the other for channels and handles.

**`KernelUDP`** is the traffic of `KernelUDPSocket`: datagrams in a network that
loses, duplicates and reorders them, receive buffers, `send` and `receive` with
their two natives each, timeouts, `SO_REUSEADDR`, `shutdown`, `close`. A
`receive()` is two actions, what it reads before it waits in the kernel and what it
does afterwards, and every other method may happen in between. Natives that fail go on and
fill the packet, with an address that was never written (`Garbage`). `MayCall` is a rule for
the callers, no call on a closed socket: the code does not look at `closed` here.
`ConnectFirst` is what a caller owes the class: connect once, before the socket is bound or
sends, and do not receive after a `connect()` that threw. Without it TLC breaks
`AttributedToSender` in 7 steps. The rule leaves out the use that `src/README.md:23-25`
tries by hand, a socket that is bound to a port first and connected then: what
reached its buffer before the `connect()` is given to the peer. A socket stands for its descriptor, which
`OwnDescriptor` of `KernelSockets` allows on Linux.

**`HostAddr`** has `hostToInt` (of a string and of an `InetAddress`) and
`hostToString` as arithmetic on signed 32-bit integers. `hostToInt2` and the
`SocketAddress` form have the same bodies.

**`UdpEcho`** composes `KernelUDP` and `HostAddr` into `concurrentTest()`: the server,
the clients and the main thread call the actions of `KernelUDP`, the
address that the clients send to has gone through `hostToInt`. The main thread's
sleep orders nothing, so clients may run before the server.

**`TcpPingPong`** composes `KernelSockets` into `testTCPKernel()`: the threads call
its `Construct`, `tcpBind`, `tcpListen`, `acceptBegins`, `acceptReturns`, `tcpConnect`, and the guards
of the two `send()` methods look at the fields that those left. It adds the
streams, which deliver a message in pieces, and the collector: `receiveC()`
waits inside `GetPrimitiveArrayCritical`, a thread that exhausts the heap waits until
nobody is in there, and meanwhile nobody may enter.

The **`MC...`** modules give model values and symmetry for TLC.
**`DBLSocketsProofs`, `DBLProtocolProofs`, `HandleRaceProofs`, `KernelSocketsProofs`,
`KernelUDPProofs`, `HostAddrProofs`, `UdpEchoProofs`, `TcpPingPongProofs`** hold the theorems,
each about the module of its name.

## Runs

| run | what it asks | result |
|---|---|---|
| `dbl_any_order` | with no discipline, does the index bookkeeping stay right? | holds |
| `dbl_enable_refused` | is deviceEnable()'s refusal true? (`DBLUDPSocket.java:131`) | violated |
| `dbl_disciplined` | do the rules exclude crashes and harm to other sockets? | holds |
| `dbl_listen_elsewhere` | does a listener listen on its own channel if others bind in between? (`dbl_tcp_udp_socket.c:325`) | violated |
| `kernel_linux` | does every live socket keep its descriptor, and which descriptors are lost? | holds |
| `handle_race` | how much exclusion do threads that share the C tables need? | `Apart` is enough |
| `udp_traffic` | is the sender told right, and is a timeout kept, whatever races with `receive()`? | holds |
| `udp_timeout_windows` | is a timeout in microseconds kept on Windows? (`KernelUDPSocket.java:98`, `src/README.md:2`) | violated |
| `udp_echo` | is each request answered once and to whom asked; does a client wait for nothing? | holds |
| `tcp_pingpong` | can server and client wait for each other; does the server wait for somebody who is done? | holds |
| `kernel_windows` | the same on Windows (`src/README.md:2`) | violated |
| `kernel_send_refused` | is send(buf, flag) silent only on unconnected sockets? (`KernelTCPSocket.java:85`) | violated |

The safety properties of the passing runs:

- `ChannelsAreNotShared`, `HandlesAreNotShared`: no index is given to two
  sockets, through any binds, unbinds, rebinds, accepts, connects.
- `DevicePerAddress`: the address cache is right for ever, closed devices included.
- `BoundMatchesChannel`: port and device in Java are those of the channel in C.
- `OpenFlagIsTheOpeners`: one socket per device knows the flag it was opened with.
- `NoCrash`: under the rules nothing but a failure the library reports ends the JVM.
- `LinkedThroughOwnChannel`, `ListensOnOwnChannel`: under the rules a linked
  socket sends, and a listener listens, on the channel of its own last bind.
- `OthersAreLeftAlone` (action property): under the rules a device is closed, and
  a channel unbound, only by a call on a socket of that address, or channel.
- `OwnDescriptor`: a live kernel socket holds an open descriptor made for it.
- `OrphansAreCounted`: descriptors nobody holds come from `accept()` (one a
  call) and from constructors that throw, and none holds a port or a connection.
- `FlagsAreTrue`: `bound`, and `connected` of a TCP socket, are so in the kernel.
- `AcceptedCanBeServed`: a listener's list holds every open connection it accepted.
- `NoFault`, `IndicesNameOwnObjects`: under `Apart` no thread follows a freed block or an
  unfilled entry, and each socket has the entries its own calls made.
- `NoDeviceIsLost`: when constructors race for an address, `ipInUse` does not keep them
  from opening it twice, but each opener keeps the device it opened, so it can close it, and
  `ipInUse` names a device of the address. (One device an address is what `DevicePerAddress`
  says of constructors that do not race; it is false of threads.)
- `KeepsPromise` (refinement): the tables implement `HandleTables`.
- `AttributedToSender`: `receive()` names who sent what it returns, although on a connected
  socket it reads a field and asks nobody.
- `TimeoutKept` (liveness): a `receive()` begun under a timeout that `setTimeout()`
  accepted ends: whatever was sent or closed meanwhile. On Linux nothing but the timeout
  ends a `receive()` on a socket that another thread has closed.
- `OneAnswerPerRequest`: over one reused packet and duplicated requests, the server
  answers every request it hears exactly once and to the client that sent it.
- `EveryClientEnds` (liveness): a client waits for ever only if one of its datagrams was lost or
  the server failed. The client has no timeout, so that much is needed.
- `NobodyWaitsForNothing`: while a client waits and neither of its datagrams was lost, its request
  is on its way or with the server, or the answer is on its way, also when the server starts after the
  client or hears a duplicate of the other's request.
- `NoCrossWait`: server and client of one connection are never both in `recv()` with
  nothing under way to the client.
- `ServerWaitsForSomebody`: when the server is in `recv()` and nothing is under way to it, the client it
  serves has yet to send, or a native of that client threw; it never waits for one that is done. The
  server reads once from each connection, so a message that comes in parts cannot hold it. For a client that
  threw it waits for ever, while the main thread goes to `pool.shutdown()`.
- `ExchangesEnd` (liveness): each client that starts gets to its end, unless a native throws
  or a collection is held up for ever. The exception is real: when the server
  waits for a collection before its `accept()`, and client 1 is in `recv()`, nobody moves.

Each has a mutant in `PROJECT.json`: a plausible slip in the code that breaks it.

### Bounds

- `dbl_any_order`: two sockets, two addresses, one port, two entries per table.
  Two sockets are enough for every property about a pair; two channels and two handles
  let a socket bind and link twice or both once, and the accepted socket be the
  second one. The flags are `DBL_OPEN_DISABLED` alone and with another bit, so that a socket may
  keep the wrong one. `dbl_enable_refused` has a flag without that bit.
- `dbl_disciplined`: three sockets, so that one device has two sockets while the
  other address has one. Rebinding needs two channel entries of one socket.
- `kernel_linux`: three objects (two listeners or a listener and a client, and an
  accepted socket) and three descriptors, so that the table is full when an `accept()`
  has its constructor's descriptor and its connection, and numbers are reused.

- `handle_race`: three threads, two of one address, two entries a table: both ways
  through the constructor, two constructors of one address inside it at once, all three tables growing
  at once, an entry followed while its table grows, and a table that moves with an entry in
  it. With three entries a table the run passes, too (2.2 million states).
- `udp_traffic`: two sockets, one more address, one datagram each and one
  duplicate, buffers of one; timeouts of 0, 5 and 1000000, none, one and one that Linux refuses.
  One socket receives. A wrong sender needs a peer and one datagram from elsewhere.
- `udp_echo`: two clients, so that answers can be swapped; one duplicate; `MaxSent` lets
  the server answer every request and duplicate. The Windows rules are a superset for this
  program: they add failures of `receive()`. The server's address has two octets beyond 127.
- `tcp_pingpong`: two clients as in the code, messages in two pieces, so that one `recv()`
  may leave a part behind; descriptors for six sockets and the two that `accept()` leaks.

`MaxDevices`, `MaxChannels`, `MaxHandles` bound tables that the code lets grow;
calls that would go beyond are not taken. `CHECK_DEADLOCK FALSE` in every
configuration: a dead JVM takes no step, and with every object closed and the
bounds used up nothing is left to call.

### Fairness

Threads that can go on do (the scheduler), a timer that has been set runs out, and
a datagram that is neither lost nor stuck behind a full buffer is delivered:
weak fairness of those actions. Nothing makes a native fail, a datagram get lost, a
caller call. In `TcpPingPong` the threads' fairness is strong, because a
collection stops a thread for a while at any place: a thread that waited for one
has what it allocates when it goes on, so it does not wait for one after another at the
same place. A collection that nobody holds up takes place (weak fairness).

## What is proved

`DBLSocketsProofs` proves for every number of sockets, addresses, ports, flags and table entries,
from `ConstantsAssumption` alone, that `Spec` implies the six invariants of
`dbl_any_order`. They are not inductive: an index is fresh only because every
index in use is below its table's counter (`ChannelInv`, `HandleInv`), and a
socket has the right device only because the cache agrees with the device table
(`CacheInv`) and the socket with the cache (`OwnerInv`). `IInv` adds these;
`NextIInv` shows that each action keeps it, grouping the calls that only look an
entry up (`LookUp`).

`DBLProtocolProofs` proves, when all rules are in force (`Disciplined`), that
`PSpec` implies `NoCrash`, `LinkedThroughOwnChannel`, `ListensOnOwnChannel` and
`OthersAreLeftAlone`. The argument: a step of `PSpec` is a step of `Spec`
(`StepIsStep`), so `IInv` is kept. `PInv` adds that the device of an address is
usable until its first `close()` (`DeviceUsable`), that the entry `bindAddr()` filled
stays usable until `unbind()` (`ChannelUsable`), that a linked socket's handle is
connected to its channel (`LinkedInv`), and that `ch` is the last binder's channel
(`BinderInv`). `DeviceIsValid`, `ChannelIsValid`, `HandleIsValid` and
`ListenerIsValid` then say that what a call is about to use is valid, so
no native can crash (`NoCrashStep`). `PTypeOK` needs no rule.

`KernelSocketsProofs` proves `KTypeOK` for every number of objects and descriptors, on
either system and whatever the callers do, and on Linux, for callers that keep the rules
(`Rules`), the other four invariants of `kernel_linux`. None of these is
inductive. What is missing is the object that `accept()` has made and not yet
returned: nobody has called it, its descriptor is untouched and its listener is
not such an object itself (`ResultInv`), so that the descriptor `acceptC()` writes over
is an orphan that holds nothing; and the listener of an accepted descriptor can be
called and has noted it (`ListenerInv`). `KInv` adds both. A constructor and the
first half of `accept()` are one kind of step (`Fresh`), the calls that touch
their own socket and descriptor another (`OwnCall`). Every step leaves the orphans as they
are or adds one and counts it (`OrphansCounted`), because nothing ever closes an
orphan. On Windows a `close()` may take the other sockets down with it, and
`kernel_windows` is the counterexample to `OwnDescriptor`.

`HostAddrProofs` proves for all 2^32 addresses that `hostToString` undoes `hostToInt`
(`RoundTrip`), that the two forms of `hostToInt` agree (`ConversionsAgree`) and that no two
addresses share an int (`Injective`). The argument: an octet sequence that
fits an int is its little-endian value, less 2^32 when the last octet is 128 or
more (`SignedByte`); each shift drops exactly the byte that must become the next
one up; division and remainder give the octets back whatever the sign.

`HandleRaceProofs` proves, for any number of threads, addresses and entries and with
`Apart` in force, the four invariants of `handle_race` and that `RSpec` implements
`HandleTables` (`KeepsPromise`). `Apart` is a hypothesis because without it each of
them is false (see `HandleRace` above); it is about the schedule only. A table in the midst of growing breaks
every plain statement about itself: the block is freed, the entry is not stored, the
counter not advanced, the library object not made. `Separate` says that one thread at most grows a
table, and nobody follows it while its block moves; `StageOf` which statement belongs to which method.
`TablesInv` says what holds of a table that nobody grows (`QuietTable`), and what the thread that
grows it knows at each of its statements (`Growth`). `IndexInv` says that an index that a socket has is of an
entry that the library has filled: such an entry stays as it is while its table grows, and that is why a
thread may follow it then. `OwnerInv` and `CacheInv` tie the indices of the sockets
and `ipInUse` to who stored the entry; they hold for constructors that race, because each counts its own
device and only `put()` writes over what another has put. For the refinement, `StepMaps` takes each
statement to the abstract `HandOut` or `Reach`, to both at once or to a stutter: an index
is handed out where the entry becomes both counted and filled. For a device that is the store of
the counter, for a channel or a handle the library's call, which also reaches the
entry of another table.

`KernelUDPProofs` proves `UTypeOK` on either system and whatever the callers do. With
`ConnectFirst` it proves `AttributedToSender`, which is false without it. What has to be added
(`PeerOf`) is that the kernel's peer, once set, is the Java field that `receive()`
reads instead of asking, and that everything in the receive buffer of a
connected socket is from the peer: it is connected before it has an address, so
nothing can have arrived earlier. `PromisesAreTimed` is the safety half of `TimeoutKept`: on
Linux, after a `setTimeout()` that was not refused, the kernel has a timeout and so has every
`receive()` begun since. `udp_timeout_windows` is the counterexample on Windows.

`UdpEchoProofs` proves that `concurrentTest()` is a caller that `KernelUDP` allows
(`EchoUsesKernelUDP`: the step that sends uses `RoundTrip` of `HostAddrProofs`), and
`OneAnswerPerRequest`, for any number of clients, losses and duplicates, on either
system. `EInv` adds where datagrams may go (`RoutesInv`: from the server to a client or from a
client that has sent to the server, and the packet that is about to be sent back is
addressed to its sender), that nobody is connected (`Unconnected`), so that the
native that reports the sender is the one in use, and that the server is bound before anybody
is submitted (`Started`). `NobodyIsForgotten` is the safety half of `EveryClientEnds`
(`NobodyWaitsForNothing`): each action takes a client's datagram from one place to the next.

`TcpPingPongProofs` proves that `testTCPKernel()` drives its sockets with the methods of
`KernelSockets` and in no other way (`PingPongUsesKernelSockets`: `TSpec` implies
`KSpec`), and `NoCrossWait`, for any number of calls of `accept()` and pieces of a message, on either
system and whatever a native throws. `TInv` needs all of the way to the greeting: a client that
is in the queue was neither greeted nor is served (`QueueInv`), it was not connected before
it was submitted (`SubmitInv`), the listener has noted the number under which `send()`
looks for the connection (`AcceptInv`), so the message is sent and not silently
dropped, and the client has not taken all of it while it still waits (`TurnInv`). A client's own
message is its last act (`ThanksInv`): a stream never holds two, which is `TTypeOK`.
`ServerWaitsForSomebody` (theorem `NobodyDoneIsAwaited`) adds `SentInv`: a client that waits or answers knows that it is
connected, so `send()` does not drop its answer, and no method of another thread takes that from it
(`ConnectionsStay`); and a client that is done and not heard yet has its answer on the way.

Every safety property that a passing run checks is proved, and so are the action property
`OthersAreLeftAlone` and the refinement. The theorems about liveness that one would
want are out of the proof system's reach, like everything that is about fairness: `TimeoutKept`,
`EveryClientEnds` and `ExchangesEnd` are only model-checked. The violations are counterexamples of TLC. No theorem assumes more
of the constants than the `ASSUME` of their module, which TLC evaluates on the runs;
`Disciplined`, `Rules`, `Apart`, `ConnectFirst` and `~Windows` are hypotheses of the
theorems that need them.

## Not modelled

- The contents of datagrams and streams, message lengths beyond the assertion in
  `sendToC`, flags passed through to the library, `setBindFlag`, `setSendFlag`,
  `setRecvMode`, the empty `shutdownC`.
- In `DBLSockets`, two natives running at once: that is `HandleRace`, which leaves
  out `bindC`, TCP and everything that closes. In the other modules, the interior of
  a method, except for waits in the kernel.
- The traffic of DBL sockets: what the library delivers to which device is not to be seen here.
- Of the kernel sockets: multicast membership (`joinGroup`, which only checks `bound`; `leaveGroup` is
  empty and nobody calls its native), the TCP timeouts and `SO_REUSEADDR` of TCP, which no driver calls.
- In `KernelSockets`, `socket()` fails only when the table is full; a descriptor
  that is not bound may be bound whatever the other descriptors are bound to
  (`KernelUDP` has that rule).
- `receiveC` of TCP releases its array with `JNI_ABORT`: on a JVM that hands out copies the
  data would be lost. HotSpot does not, and that is what `TcpPingPong` assumes.
- `KernelServer` and the TCP clients never close; the JVM's end is not modelled.
- No property asks that the two tests end. They do not: the server of `concurrentTest` loops, and
  main waits for it first; a wait in `receiveC()` that holds up a collection is a deadlock (see `ExchangesEnd`); and
  the TCP server's last `accept()` has nobody to wait for.
- The library, the kernel, the network and the collector are modelled from how the code uses them.
- The data holders, generated headers, `Makefile` and empty stubs have no behaviour
  to model. `dbltcp_pingpong.c` and `DBLTestClient` are straight lines of library calls.

## Plan

Done: all modules, and the proofs of every safety property. What remains:

1. The safety half of `ExchangesEnd`: who in `TcpPingPong` may be waiting for whom when nothing moves.
2. What the theorems of `KernelSockets` say of the sockets of `TcpPingPong`, by
   `PingPongUsesKernelSockets`.
