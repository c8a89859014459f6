# Formal model of Distributed-Network

Distributed-Network is a peer-to-peer node in C++20: it reads the other nodes
from `nodes.json`, dials them, agrees with each peer on one connection by a
handshake, keeps the connections alive, and carries packets over them through
edge-triggered epoll reactors. On top of that sit a distance-vector routing
service, a client-facing server, and the beginnings of Raft.

The TLA+ modules in this directory model the parts that move a packet from one
node to another, that decide which connection carries it and when it ends, that
compute routes, and that stop the service's threads. TLC checks them on small
instances; TLAPS proves the central invariants for every instance. Paths
and line numbers refer to the repository (`src/` in `PROJECT.json`).

- [Inventory](#inventory)
- [Modules and how they correspond to the code](#modules-and-how-they-correspond-to-the-code)
- [Runs](#runs)
- [Disagreements found](#disagreements-found)
- [Fairness](#fairness)
- [Proofs](#proofs)
- [Not modelled](#not-modelled)
- [Plan](#plan)

## Inventory

### Components of the peer-to-peer service (`csm-service`)

| component | state | operations | what makes it correct |
|---|---|---|---|
| `RingBuffer` (`csm-utilities`) | start and end offset, byte vector | write, read, hand out windows, advance | never confuses full and empty; returns the bytes written, in order; no window leaves the vector or covers unread bytes |
| `P2PService` (facade) | none of its own: the handlers that tie the others together | accept and connect handlers, ClientInfo, ClientInfoReply, disconnect and destroy handlers, sends by node id | two nodes end up with one connection, known at both ends; a rejected one is closed and never registered |
| `HostsInfoManager` | `m_hosts` (host to node id), `m_nodeIdInfos` (node id to session) | set/clear a host's id, add/remove a registration | a registration belongs to the session it names and ends with it |
| `HostsConnector` | `m_connectingHosts`, the sockets being connected | dial loop, `setHostConnected` | one attempt per host; a host that is lost is dialled again |
| `Acceptor`, `SelectListenner` | pending connections | accept | every accepted socket becomes a session |
| `SessionDispatcher`, `P2PSessionFactory` | relation of sessions to reactors, their sizes, a hand-over queue, the next id | choose a reactor, add, remove | every session reaches a reactor; ids are unique |
| `SlaveReactor`, `SlaveReactorPool` | epoll set, session map, send tasks with an eventfd | add, remove, send, the event loop | the bytes on the wire are whole packets in order; nothing waits for ever |
| `SessionDataDecoder` | tasks of a thread pool, the session's read buffer | append a chunk, take packets | every packet is delivered once, in order, whole |
| `SessionServiceDataProcessor` | queue of handshake and heartbeat packets, one thread | run the packet's handler | one handler at a time |
| `SessionModuleDataProcessor` | queue of module messages | run a module's handler | as above; no handler is registered in the repository |
| `SessionDestroyer` | queue of sessions | tear one down | idempotent, and only of the session named |
| `SessionAliveChecker` | watched sessions with heartbeat counters | add, remove, expire | gives up a session only when the peer is silent |
| `HostsHeartbeatService` | time of the last heartbeat per host | send heartbeats | every registered peer gets them |
| `DistanceVector`, `DistanceVectorService` | neighbours' vectors, own table, sequence numbers of the probes, an event queue | probe, exchange, recompute | distances are those of the network once it is quiet; no routing loop |

### Other parts

| part | contents |
|---|---|
| `ServerService`, `csm-rpc` | the accepting half of the above without a handshake; an HTTP and a TCP RPC server |
| `csm-consensus/csm-raft` | roles, election timer, RequestVote, term and vote with their persistence |
| `csm-stmclog`, `csm-storage` | the state machine log and its RocksDB storage |
| `csm-initializer`, `csm-tool`, `server`, `client` | construction, configuration, `main` |
| `csm-utilities`, `csm-framework` | threads, thread pool, sockets, time, logging |

### How they interact

*Out:* a caller of `P2PService::sendData` finds the session by node id in
`HostsInfoManager`, the reactor by session id in `SessionDispatcher`, queues a
send task and writes the eventfd; the reactor thread sends, or puts the rest in
the session's write buffer and waits for `EPOLLOUT`.

*In:* the reactor thread receives a chunk on `EPOLLIN` and posts it to the
decoder's thread pool; a pool thread appends it to the read buffer under the
session's mutex and takes packets off it; handshake and heartbeat packets go to
the queue of `SessionServiceDataProcessor`, whose thread runs the handlers of
`P2PService`.

*Connections:* the connector's thread dials the hosts without an id and sends
ClientInfo on the new session; the peer's handler registers the session or
rejects it, answers with ClientInfoReply, and the dialling side's handler
registers its own end or rejects it. Whoever rejects, sees the stream end, or
finds the peer silent, queues the session for the destroyer's thread, which
removes it from the checker, the reactor and the registration, and closes it.

### What is hard here

- *Simultaneous dialling.* Both nodes open a connection and both accept the
  other's: four ends, four handlers on two threads, two teardowns.
- *Handlers overlap.* Connector, service data processor and destroyer touch the
  same maps, each access under a lock and none across two accesses. The
  connector works on a copy of the hosts, and uses an iterator after a packet
  handler may have erased its element.
- *Crashes and silence.* A peer may go down at any step of the handshake.
- *Edge-triggered epoll.* What is not received or sent on an edge waits for the
  next one, which may never come.
- *Partial sends and receives.* Packets are split at any byte and must be put
  together again around the end of a ring buffer.
- *A pool of decoder threads* appends chunks of the same session.
- *A session is handed over* from the acceptor to the dispatcher, reactor,
  checker and destroyer, each a thread; between two of them nobody may have it.
- *Routes are hearsay.* A node repeats what its neighbours said, computes in
  place in the order of a hash table, and hears late.
- *Stopping* sets a token and wakes a thread up, which may be anywhere.

`PROJECT.json` lists each hazard at the line where it bites, with the
properties that watch it.

## Modules and how they correspond to the code

| module | models |
|---|---|
| `ByteQueue` | abstract: a bounded FIFO of bytes |
| `RingBuffer` | `csm-utilities/RingBuffer.{h,cpp}`, every operation; refines `ByteQueue` |
| `Handshake` | the connections of any number of nodes: `P2PService`, `HostsConnector`, `HostsInfoManager`, `SessionServiceDataProcessor`, `SessionDestroyer`, timeouts of `SessionAliveChecker` |
| `PacketChannel` | abstract: packets leave in the order they were accepted, each as one piece or not at all |
| `SendPath` | the way out of a session: callers, `SlaveReactor`'s send tasks and `EPOLLOUT`, the write buffer (an instance of `RingBuffer`), the kernel; refines `PacketChannel` |
| `Receive` | the way in: `SlaveReactor::addSession` and `EPOLLIN`, `SessionDataDecoder` on a pool of threads, the read buffer (an instance of `RingBuffer`) |
| `RingBufferTest` | the three tests of `unittest/RingBufferTest.cpp`, on the operations of `RingBuffer` |
| `DistanceVector` | the routing table of a node, `DistanceVector.cpp`, every operation that changes it, as operators on a value |
| `DistanceVectorTest` | the tests of `unittest/DistanceVectorTest.cpp`, on those operators |
| `DistanceVectorService` | nodes that probe each other and exchange vectors: the worker thread of `DistanceVectorService.cpp`, over sessions that come and go |
| `ServerService` | the life of a session at a server: `Acceptor`, `SessionDispatcher`, `SlaveReactor`, `SessionServiceDataProcessor`, `SessionAliveChecker`, `SessionDestroyer` as `ServerService.cpp` ties them together |
| `Shutdown` | start and stop of the threads of both services: `Thread`, `ThreadPool`, and what wakes each owner's thread up |
| `RingBufferProofs`, `SendPathProofs`, `ReceiveProofs`, `HandshakeProofs`, `ShutdownProofs`, `ServerServiceProofs`, `DistanceVectorProofs` | the theorems |
| `SetInduction` | induction over the naturals in the form the proofs use |
| `MC*` | instances for TLC; `MCUnitTests` runs the two unit test programs one after the other |

Definitions marked `mutant` are variants of the one that follows them, each the
way a plausible mistake in the code would look. `PROJECT.json` pairs them with
the properties that find them; no specification uses them.

### RingBuffer

`start`, `end` and `buffer` are `m_startOffset`, `m_endOffset` and `m_buffer`;
two bytes stay unused (`c_reservedSpace`), so that a full buffer differs from an
empty one. A write is the pair `writeData` (or a copy into the window of
`getBufferAndLengthForWrite`) and `increaseUsedSpace`, as all callers use it.
`Contents` is the used bytes in order. `FifoSpec` states the refinement of
`ByteQueue` with `queue <- Contents`.

Sizes are mathematical integers: the property `CapacityKept` (space and data
length are never negative and add up to the capacity) is what makes the code's
unsigned subtractions safe, and `ContinuousSize` shows the value that
`getContinuousData` would wrap as a negative number.

### Handshake

A host of `nodes.json` is identified with the node listening there.
Connection `c` has the ends `<<c, "out">>` and `<<c, "in">>`; an end is a
`P2PSession` and its id. `wire[s]` is what end `s` has still to read, in order,
ended by `Fin`.

| action | code |
|---|---|
| `Snapshot`, `PassOver`, `StartConnect` | a turn of the connector's loop over its copy of the hosts |
| `Connected`, `MarkWaiting`, `Refused` | the outcome of a connect: the connect handler with its ClientInfo, then the timestamp -1 |
| `Accept` | the accept handler |
| `Receive` | a packet or the end of the stream reaches a session |
| `BeginHandler` | the service data processor takes a packet |
| `RegisterClient`, `AnswerClient` | the ClientInfo handler, split where it leaves a lock |
| `HandleReply`, `SetHostId`, `SetHostConnected`, `RegisterServer` | the ClientInfoReply handler, likewise |
| `Destroy`, `DestroyExpired` | the destroy handler; the second is a session torn down before |
| `AliveTimeout` | the alive checker gives a session up |
| `Crash`, `Restart` | the process ends at any point and starts with empty state |

Things to know when comparing with the code:

- `MarkWaiting` comes after the connect handler and uses an iterator that the
  ClientInfoReply handler may have erased meanwhile. The undefined result is a
  choice: nothing, or an entry that exists anew.
- Closing a socket with unread packets resets the connection; the reset may
  overtake packets the peer has not read.
- `-4` replies are dead code (`P2PService.cpp` 676-689, and the `#if 0` at
  707-725) and never sent.
- The destroy handler is one step, although it takes the locks of the checker, the
  reactor and the hosts in turn. A packet handler of the same session comes before
  it or after it as a whole; most interleavings with its parts have the outcome of
  one of the two, but not all are shown: for one, a handler that looks up the peer's
  registration between two of its locks. A packet handler that still holds a
  destroyed session registers it (`P2PService.cpp:767`), which the model has.
- A second teardown of a session still held closes its fd number again
  (`DestroyExpired` is the case in which it is no longer held). That the number
  may be another connection's by then is in `ServerService`, not here.
- A connect that succeeds at once (`HostsConnector.cpp:83-128`) is left out; the
  sockets do not block, and TCP's connect then waits for the peer.
- `PassOver` is also what `MaxConn` turns a further connect into, as if no
  socket could be created.
- A crash ends a handler at any of its steps; `Die` is also the end of the
  process at `P2PService.cpp:54`.
- Heartbeats are a condition on sessions: a session carries them when one of its
  ends is registered at a running node for a host in its list; any other may be
  given up by `AliveTimeout`. Their timing is abstracted.

### SendPath

One session. `pc` is where the reactor thread is: `poll` (in `epoll_wait`),
`swap`, `batch` (`handleSendTasks`), `events`, `flush` and `send` (the two loops
of `EPOLLOUT`). `owed` counts callers between queueing a task and writing the
eventfd. `edge` is a pending edge of the session and `armed` its `EPOLLOUT` in
the mask. The kernel takes as much as it has room for, and reports `EPOLLOUT`
from `EdgeSpace` free bytes on, because Linux does so only when a third of the
send buffer is free. `sent` is every byte the kernel has taken, and is compared
with what was accepted. A byte is `<<packet, index, length>>`, so that a torn,
repeated or overtaken packet shows. `partial` is a history variable: some flush
was not taken in the one `send` that the code's loop assumes.

`sendData` checks `isWaitingDisconnect` and then queues, in one step: handling
the task checks it again. A direct send takes what the kernel has room for in one
step; a reset between two of its `send` calls (line 430) is before it or after it.
In `FlushSend` the byte pointer and the length stay
what they were, as in the code (line 149); bytes past the vector are `Zero`.

`ChannelSpec` states the refinement of `PacketChannel`: `accepted` is `sends`,
`queue` the tasks of `batch` before those of `m_sendTasks`, `stream` what the
kernel has taken and what waits behind it. A caller cannot tell the kernel from the
write buffer, so a flush is a stutter. `Broken` (a flush was taken in part, or the
process has ended) is where the code stops being such a channel, and where the
abstract one promises nothing more.

### Receive

The peer's stream is numbered by byte, so a chunk is an interval and a packet of
the plan knows its bytes. `registered` is how far `addSession` is: the socket is
in epoll before the session is in the map, and an edge in between is dropped.
`HandleEpollIn` is one `recv` of at most `RecvSize` bytes. `lock` is the session's
read buffer mutex, held from the append to the end of the decoding loop, whose
turns are single steps. `Garbage` is the failed assertion on the magic number.
For a header that wraps around, the code decodes a copy already freed; the model
allows the assertion to fail or the copy still to be there. `upTo` and `intact`
are history variables: the last byte appended, and whether every byte up to it
was, in order. Bytes out of order that happen to begin like a header carry any
length and type.

### RingBufferTest

Each action is a loop or a statement of a test; `test` and `phase` say which one
runs, `packets` and `last` are its counters. A call that fails, which the test
would stop at, leaves the test without a step. The bytes of a packet are
numbered, so that a byte out of place shows. The buffer is 71 bytes instead of
32 KiB, chosen so that, as there, a part of a packet too small for a header is
left at the end; the ASSUME of the module says what the sizes must satisfy.

### DistanceVector

A table is a record: `dvInfos` and `neighboursDVInfo` are the two maps of the
class. The operations return the set of results (new table, returned value) they
may have: `recomputeRoutesWithoutLock` relaxes the targets in place, in the order
of an `unordered_set`, and its result depends on that order. `Recomputed` takes
every order where it can matter (`OrderMatters`) and otherwise any one. Two oddities of the code are kept: the
constructor enters itself under the id it has just moved from, and the entry of a neighbour
serves as the cost of its link and as the best route to it (`LinkDistance`).
Node ids are numbers, for only their order matters.

`DistanceVectorTest` gives each test its nodes, its calls and what it expects.
Costs are those of the tests (750 is unreachable).

### DistanceVectorService

One `Round` is an iteration of the worker: `sendDistanceDetect`,
`sendDistanceVector` if `told`, then one event of the queue: none (`RoundIdle`),
a reply (`RoundReply`) or a vector (`RoundVector`).

- The sequence numbers of a neighbour are abstracted to whether it is still
  probed. Line 101 stops probing, for good, a neighbour that owes more than three
  replies, unless a reply to an earlier probe is still to be handled; `silent`
  are those that will not be probed again. `GiveUp` is a neighbour without a
  session that has used up its probes; `GiveUpLate` one whose replies wait behind
  other events.
- Every iteration of the model probes; in the code every second one does, the
  interval of the probes being that of the thread.
- `sendDistanceDetect` leaves its loop at the first neighbour it cannot send to
  (lines 123-128). What it does to those before it, it does; those behind it are not
  looked at (`Reaches`, `ProbedInTurn`).
- `m_isEventTriggerDistanceVectorBoardcast` (`told`) is never reset, so a node
  that has once changed its table sends in every iteration; the interval of 30 s
  of line 296 is never reached, for the timer it looks at is that of the probes.
- Every vector is kept and handled, the older ones first. There is a queue for each
  source where the code has one for all, and an iteration takes its event from any
  of them, which is every order in which events can arrive. `MaxVectors` bounds those
  that wait for a node.
- There is no fairness and nothing is said of *when* a vector or a reply is handled:
  the code's queue grows without bound.
- `DistanceVectorService::handlePacket` is called from nowhere in the
  repository; only `start`, `stop` and `setPacketSender` are. The module composes
  the service as its handlers say it is meant to be.

### ServerService

A client stands for its connection, its session and the session's id. The session
knows the connection by the number of its fd (`fd`), and `Free` numbers are given
out again, the lowest first, as the kernel does. What a session does with its number
it does to the open connection that has it now (`Behind`): `epoll_ctl`, `recv`, `send`
and `close`. `shut` are the connections that were closed, by whichever session;
`robbed` are those that a step of another session registered, unregistered or closed.

| action | code |
|---|---|
| `Connect`, `Beat`, `Leave` | the clients |
| `AcceptorWaits`, `OnConnect`, `Accept` | the acceptor's wait, the listening thread's notification, the loop of accepts on a blocking socket; `lost` are sessions `try_emplace` had no room for |
| `AcceptFails`, `Refuse` | `accept` fails and the acceptor waits again; a connection whose receive buffer cannot be set is closed at once |
| `Dispatch`, `AddToEpoll`, `AddToSessions`, `SetSlaveReactorIndex`, `Watch` | the dispatcher and its callback (`ServerService.cpp:318-354`), step by step |
| `AddFails` | the callback when `EPOLL_CTL_ADD` fails: the number is closed or in the epoll already |
| `ReactorEvent`, `SendTask` | an edge of a session; a reply that is sent |
| `HandleHeartbeat`, `Reply` | the heartbeat handler: counting, then reading the session's reactor index and queueing the answer |
| `Tick`, `Report` | a round of the alive checker, which copies under the lock and reports without it |
| `Destroy`, `RemoveSession`, `RemoveClient`, `Close` | the destroy handler, one step per lock |

- `weak_ptr`s are locked while `Held`: some map, queue or thread has the session.
- Two threads may queue one session for destruction. The second teardown of a
  session that is still held removes its number from epoll and closes it, whoever has
  it now (`ServerService.cpp:81-91`). The session it belonged to finds it gone: its own
  `removeClient` returns before the map (`SlaveReactor.cpp:317-322`), so it stays
  there. `robbed` keeps those sessions, and the safety properties leave them out.
- One epoll has all connections, since all sessions go to the first reactor (see
  `ChosenReactor` below). `EPOLL_CTL_MOD` on a number that is another connection's, and
  bytes that a reply writes to it, are left out.
- The reactor index of a new session is not initialised (`P2PSession.h:83`). A
  thread that reads it before the dispatcher has set it gets any value: it may
  hit the reactor, miss it, or end the process. `strayed` keeps such sessions, and
  the safety properties leave them out.
- `ServerService.cpp:322-324` moves `p2pSession` and copies it into a closure in
  the arguments of one call, in unspecified order. The model takes the copy to
  be made first.
- `ChosenReactor` is the smallest size used as an index
  (`SessionDispatcher.cpp:36-44`).
- How bytes become packets is the business of `Receive`; here a heartbeat is
  decoded when it is received.

### Shutdown

`main` starts all threads, and stops them in the order of `StopOrder`: for each
it sets the token (`asked`) and then wakes the thread up. `pc` is where each
thread is: in its body, waiting, or in the interval between bodies. A thread of
each kind is enough, for the threads of a kind do not interact. Notifying a
thread that is not waiting has no effect (`missed`); a null in a queue, or a
write to the eventfd, stays.

## Runs

All passing runs explore their instance completely.

| run | module | question | bounds |
|---|---|---|---|
| `ring_buffer` | `MCRingBuffer` | do the offsets work, and is it a FIFO? | 6 slots, 4 usable, two byte values: every pair of offsets and every split occurs |
| `pair` | `MCHandshake` | two nodes dialling each other; a refused attempt | 3 sockets, one refusal: both dial, and one dials again |
| `loss` | `MCHandshake` | the same, with a node that lists itself too, and a crash and a silent peer at any step | 2 sockets, one crash, one timeout |
| `unit_tests` | `MCUnitTests` | do the unit tests pass, in every order a recomputation may take? | a buffer of 71 bytes with packets of 21; the clusters of the tests, at most 5 nodes |
| `routes` | `MCDistanceVectorService` | do three nodes in a chain come to rest with anything but the shortest paths? | two vectors waiting for a node, so that an old one is handled after a newer one was sent; one session that ends (and may come back) or one neighbour misjudged; the ends of the chain know each other only by hearsay, which is the shortest instance of counting to infinity |
| `send_path` | `MCSendPath` | what reaches the wire, and when | 3 packets of 1 or 4 bytes; 3 usable bytes of write buffer, 2 of kernel buffer: a packet is sent at once, split, waits, finds no room, or ends the process |
| `receive` | `MCReceive` | what the decoder delivers | 5 usable bytes, headers of 2, at most 4 bytes a `recv`, two threads: chunks split and join packets in every way, wrap, overflow and overtake |
| `server` | `MCServerService` | does a session ever escape everybody, and what does its teardown reach? | 2 clients, 2 fd numbers, 2 reactors, a queue of one, one heartbeat: the queue overflows, a session is queued for destruction twice, the second client gets the first one's number before or after that, teardown overtakes the dispatcher |
| `shutdown` | `Shutdown` | do the threads end, and are nulls mistaken for items? | a thread of each kind, one client, one event; a listening socket that blocks and one that does not |

What they show:

- `ring_buffer`: `CapacityKept`, `ReadDataReadsContents` (a read at an offset
  returns those bytes, through all of its three copies), `WriteWindowIsFree` (the
  window for `recv` stays in the vector and off unread bytes), `WriteAppends`, and
  `FifoSpec` (the refinement).
- `pair`: `OneAttemptPerHost` (a node never has two attempts for one host),
  `PairKeepsConnection` (the tie-break by node id never rejects both
  connections), `RejectedIsClosed` (a rejected connection is closed at both
  ends), `DialledIsLinked` (the nodes end up on one connection and keep it; when each has
  opened one to the other, at least the smaller id is registered on the one that the
  larger opened: see `one_kept` for the larger).
- `loss`: `RegistrationMatches` (a registered session leads to the node it is
  registered for), `HandshakeAgreement` (who registered a connection it opened
  was accepted by a peer that registered it too, until that end is closed),
  `RejectedIsNotRegistered` (a rejected connection, to oneself too, is registered at
  neither end), `OnlyOwnTeardownUnregisters` (a registration ends only with its
  session).
- `send_path`: `WholeUntilPartialFlush` (until a flush is taken in part the
  stream is whole packets, in order of acceptance, through every split by
  `handleSend`), `ChannelSpec` (the bytes that leave are exactly those of the packets
  accepted, less some dropped as a whole), `ArmedWhilePending`, `EventHasData` (the assertion at
  `SlaveReactor.cpp:137`), `PendingIsSent`.
- `receive`: `DeliveredInOrder`, `BufferFollowsDelivered` (no byte is skipped
  or read twice), `NothingStranded` (no whole packet stays in the buffer when no
  thread works on it). They speak of streams whose chunks were all appended, in
  order. With one decoder thread and no overflow every stream is one
  (`OneWorkerCorrect`); with more the code gives no such guarantee.
  `MagicFailsOnlyWrapped`: the assertion on the magic number fails only for a
  header that wraps around, read from a copy already freed, or on a stream with
  bytes lost or out of order.
- `unit_tests`: `PacketsComeBack` (the packets read back are those written, past
  the wrap-around), `RoutesAsExpected` and `ReturnsAsExpected` (the routes,
  advertised pairs and returned values the tests expect, whatever order the hash
  table gives). What the tests expect of the *number* of entries does not hold: see
  `table_sizes`.
- `routes`: `NoMutualRoute` (two nodes that have each other's latest vectors never
  route to a target through each other: poison reverse works), `SettledIsShortest`
  (when no node has anything more to tell or to learn, every distance is that of the
  shortest path over the neighbours still probed: a route of a lost link cannot
  survive as hearsay, and none is missed). That the nodes come to rest is not claimed.
- `server`: `NobodyUnwatched` (a session in a reactor's map is watched, about to
  be, or about to be torn down), `ClosedIsForgotten` (nothing finds a session that was
  torn down, and its connection is closed), `FirstCloseIsOwn` (the first teardown of a
  session closes its own connection and no other, however numbers are used again),
  `PendingIsAccepted` (neither a lost notification nor a failed `accept` loses the
  client), `GoneIsClosed` (the connection of a client that has left is closed in the
  end, whatever its reactor saw). The first two leave out `strayed` and `robbed`
  sessions.
- `shutdown`: `NullIsNotHandled` (the null that wakes a queue's thread up is never
  handled as a session or a packet), `ThreadsEnd` (every thread ends, but for an
  acceptor or destroyer that missed its notification, or an acceptor that blocks
  until one more client comes).

Deadlock is checked in the runs of `RingBuffer`, `Handshake` and
`DistanceVectorService`. The others stop: the bounded traffic is over, the process
or all of its threads have ended, or the tests are done.

## Disagreements found

Three have a run that ends in a counterexample, and an entry in `PROJECT.json`
that quotes the line it contradicts.

| run | property | what happens |
|---|---|---|
| `one_kept` | `OneConnectionKept` | `README.md:8` says the handshake interconnects the nodes while keeping one connection. Two nodes dialling each other both register the connection the other opened; the smaller id gives its own up, and the one kept is registered at its end only: the larger id has no session to send to and does not dial again |
| `phantom_hop` | `UnreachableIsSkipped` | a detour to an unreachable neighbour passes for the link to it: the neighbour becomes its own next hop, until the next probe |
| `table_sizes` | `SizesAsExpected` | the constructor enters itself under the id it has just moved from: a table and every vector have one entry more than `DistanceVectorTest.cpp:105`, `140`, `253` expect, so those tests fail |

Seen while modelling, without a run of their own. In the models that follow
the code they are behaviours, and the properties leave them out by name:

- *Handshake.* A session queued twice for destruction ends the process: the null
  pointer just tested is dereferenced for the log line (`P2PService.cpp:54`,
  `ServerService.cpp:60`). A peer that goes down before it has answered is never
  dialled again: the attempt stays in `m_connectingHosts`
  (`HostsConnector.cpp:141`); so does the one behind a rejected connection, with
  timestamp -1 (`P2PService.cpp:671`). A handler that overlaps the destroyer can
  register a session that no longer exists (`P2PService.cpp:767`).
- *Teardown.* A session torn down twice while it is held closes an fd number that may
  be another connection's by then (`ServerService.cpp:91`); that one's session stays
  in the reactor's map with its fd closed (`SlaveReactor.cpp:317`). `ServerService`
  has it as `robbed`.
- *Send path.* `EPOLLOUT`'s loop sends from the same pointer after a partial send,
  so packets are torn and repeated (`SlaveReactor.cpp:149`). The eventfd is read
  after the queue was swapped, so a task queued in between has lost its wakeup
  (line 370). A packet without room in the write buffer is dropped although
  `sendData` returned 0 (line 386). A flush on a reset connection never returns
  (line 179).
- *Receive.* A header that wraps around is decoded from freed memory
  (`SessionDataDecoder.cpp:153`). A chunk larger than the read buffer's space is
  dropped inside the stream (line 66). An edge between `epoll_ctl` and the map, or
  more than one `recv` of bytes, stays unread until the next arrival
  (`SlaveReactor.cpp:230`, `101`).
- *Ring buffer.* `getContinuousData` reports up to two bytes too few for a wrapped
  buffer and a huge size at the last slot (`RingBuffer.cpp:281`).
- *Dispatcher.* The value `min_element` points at is used as the reactor's index
  (`SessionDispatcher.cpp:36-44`): with one reactor the second session goes to
  reactor 1, which does not exist.
- *Routing.* A neighbour that owes four replies is never probed again and stays
  unreachable when its session is back, where `DistanceVectorService.cpp:104-106` logs
  that it is "currently unreachable"; `DistanceVector.cpp:61` too speaks of a link that
  later takes effect. Two iterations take two events from the queue and each
  neighbour adds three (two vectors and a reply), so the queue grows for ever, replies
  are counted ever later, and a neighbour that has answered every probe is taken for
  unreachable at line 102 while its replies wait.

## Fairness

`Handshake!FairSpec` gives weak fairness to every step of a thread that has
something to do: the threads loop without waiting for anything but their queue.
`Connected` has strong fairness: the connect of a running peer may find the
connector busy elsewhere, and is offered again. Nothing makes a crash, a
refusal, a timeout or a restart happen.

`SendPath!FairSpec` gives weak fairness to the reactor thread, a caller that
still owes the eventfd its write, the destroyer, and the peer's acknowledgements
while the connection is open. It assumes no traffic: neither new calls of
`sendData` nor arriving bytes have fairness, so a lost wakeup is not made good by
luck. `Receive` has no liveness property; the code achieves none without further
arrivals.

`DistanceVectorService` has no fairness. Convergence would need
replies and vectors to be handled in time; the code takes one event an iteration where
each neighbour adds one and a half, so the delay grows without bound and answering
neighbours are given up (line 102). What is checked holds of every state reached.

`ServerService!Fairness` gives weak fairness to the acceptor, the dispatcher, the
heartbeat handler's second half, the alive checker and the destroyer. `Accept` has
strong fairness for each client: `accept` and the setting of the buffer may fail, but
not for ever. Neither
clients nor edges of epoll have any: `GoneIsClosed` holds without an edge.
`Shutdown!FairSpec` gives weak fairness to every thread, the main thread included;
no client has to come and no event has to arrive.

## Proofs

TLAPS 1.4.5 with Z3, Zenon and LS4; every theorem is proved for all values of the
constants that satisfy the named assumptions (`SizeAssumption`, `ByteAssumption` of
`RingBuffer`; `SendAssumption` of `SendPath`; `ReceiveAssumption`, `WorkerAssumption`
of `Receive`; `NodeAssumption`, `HostsAssumption`, `BoundAssumption` of `Handshake`;
`NoClientAssumption`, `FdAssumption`, `SizeAssumption` of `ServerService`; `DistanceAssumption` of
`DistanceVector`, `NodeAssumption`, `CostAssumption` of `DistanceVectorService`).

### RingBufferProofs

The inductive invariant is `IInv`: `TypeOK` and `DataLength <= Size - Reserved`.
The second part is needed: without it `end` could come to within two slots of
`start` and an emptied and a full buffer would look alike. `WrapOnce` reduces
`% Size` to at most one subtraction, after which each case of the offsets is
linear arithmetic.

- `TypeCorrect`: both offsets stay slots.
- `CapacityCorrect`: space and length add up to the capacity, so `space()` never
  wraps.
- `WriteWindowCorrect`: the window handed out for writing is inside the vector and
  free of unread bytes.

What the bytes are follows from the same `IInv`. `ContentsBySlot` says where they
are: the i-th used byte is in slot `At(start, i - 1)`, the offset wrapped once.

- `ReadDataCorrect`: one case per copy of `readData`; in each, the k-th byte copied
  comes from the slot of the byte asked for.
- `WriteAppendsCorrect`: `FreeSlots` says that the slots written are none of the
  used ones as long as the bytes fit in `space()`, so what was there stays
  (`Appended`) whether `writeData` copies once or twice; the same holds of a
  window filled in place.
- `FifoCorrect`: the refinement. A write is `Put` (`PutSimulates`),
  `decreaseUsedSpace` is `Take` (`DecreaseFromIInv`: the branch that starts over
  at slot 0 is taken exactly when nothing is left), `clear` is `Reset`.

### SendPathProofs

For any sizes of the write buffer and of the kernel's, any packet lengths that fit
the buffer, and any number of calls, resets and teardowns. What the write buffer
does is not proved again: `Buffer == INSTANCE RingBufferProofs` brings its
lemmas in, and `WriteAdds` and `DecreaseTakes` say in their terms what a step does
to `Pending`, the number of bytes that wait.

- `TypeCorrect`: `TypeOK`, with `Pending <= Size - 2`.
- `WatchedCorrect`: `ArmedWhilePending`.
- `EventCorrect`: `EventHasData`, which is not inductive. Between `epoll_wait` and
  the handling of the event the batch of send tasks runs, so `IInv` has
  `GotHasData` (what was reported still waits, at each place in between). That
  rests on `ArmedHasData`, since an event is reported only while armed, and this
  one on `FlushHasData`: a flush that is cut short stays armed, and what it has not
  sent of its run is in the buffer. The exception is a run of negative length, which
  `getContinuousData` returns when `start` is in the last slots of the vector and
  `end` in the first ones.

- `WholeCorrect`: `WholeUntilPartialFlush`, from `OInv` on top of that `IInv`.

`OInv` is about the order of the packets. `Stream` is what the kernel was given followed by what waits in the write buffer; `sent`
alone says too little, since the rest of a split packet is in the buffer.

- `InOrder`: the tasks are numbered in order, those of the batch before those that
  came later, and none has a number above the calls made;
- `SentBefore`: the stream's last packet is older than every task;
- `FlushWhole`: a flush has given the kernel nothing of its run or all of it,
  which is what "taken in one go" means in the middle of a flush.

A packet sent directly (`SendNowExtends`) or put behind others
(`SendLaterExtends`) is appended to the stream as a whole or dropped as a whole, and
a flush moves the border between its two parts (`FlushMoves`), leaving it as it is.
`TailInOrder` and `WholeAppend` do the rest: dropping tasks leaves gaps in the
numbers but not in the order.

- `ChannelCorrect`: the refinement of `PacketChannel`. `WholeUntilPartialFlush`
  looks at the stream alone; this also says that a packet is neither made up nor
  sent twice, and stays in its queue until it is sent or dropped.
  `SendData` is `Accept` (`SendDataIsAccept`), `HandleSend` is `Leave` or `Drop`
  (`HandleSendIsLeave`, by the same lemmas about the stream and
  `QueueTail`), the step that tears a packet or ends the process is `Break`, and a
  broken channel stays broken (`BrokenStays`). Swapping the queue is a stutter only
  because the last batch has been used up (`BatchTaken`, of `OInv`).

### ReceiveProofs

For any size of the read buffer, any plan of the peer, any number of decoder
threads, and any way the stream is cut into chunks: all five invariants of the run
(`TypeCorrect`, `DeliveredCorrect`, `FollowsCorrect`, `StrandedCorrect`,
`MagicCorrect`). The inductive invariant is

- `Types`: `TypeOK`, the buffer's own invariant, every byte in the buffer is a byte
  of the stream, and every chunk one that was received;
- `Order`: `DeliveredInOrder`, `BufferFollowsDelivered`, and the last packet
  delivered ends within what was appended;
- `NothingStranded` and `MagicFailsOnlyWrapped` as they are.

`EndOf` is a recursive function: `EndsExist` and `EndsUnique` prove by induction
over sets (below) that there is exactly one function with its equation up to any
packet, and `EndOfEquation` that the one `CHOOSE` picks is it. What the buffer holds after a
write and after a packet is taken off comes from the lemmas of `RingBufferProofs`.
The crux is `NextHeader`: while the stream is in order, the header at
the front of the buffer is that of the packet after the last one delivered, so
`Fields`, which may be anything for other bytes, has one member. A header that is
not complete, or whose packet is not, is left where it is, and then there is no whole
packet in the buffer (`IncompleteIInv`).

Those invariants are about streams whose chunks are appended in order.
`OneWorkerCorrect` says when that is so: if the pool has one thread (`OneWorker`)
and each chunk finds room in the read buffer (`ChunkFits`), the stream stays in
order, so `DeliveredInOrder` speaks of all that is delivered. Both hypotheses are
needed: two threads can append two chunks in the wrong order, and a chunk without
room is dropped. Neither is guaranteed by the code, whose pool has four threads
unless configured otherwise and whose read buffer is half the largest `recv`. The
invariant is `InLine`: what the thread is about to append follows what has been
appended, each task of the pool follows the one before it, and the last one ends
with the last byte received. TLC checked `InLine` on the instance of `receive`
with one thread before it was proved.

### HandshakeProofs

For any number of nodes, any host lists, and any number of sockets and faults.

- `TypeCorrect`: one lemma per action.
- `RegistrationCorrect`, `AgreementCorrect`, `UnregisterCorrect`: from the
  inductive invariant `IInv`.

`RegistrationMatches` and `HandshakeAgreement` are not inductive: they speak of
maps whose entries come from packets written long before. `IInv` follows the
claim "this end was accepted" back through the code: every ClientInfo under way
carries the id of the node that sent it, every reply with result 0 was sent after
its sender registered the session (`GoodPacket`, `GoodArrival`), the handler in
progress (`GoodHandler`) and the connection attempts (`GoodAttempt`) agree with
that, and registrations are of sessions that lead there (`GoodInfo`). `Agreed` is
the core of these parts (the peer's end is registered for this node, or closed)
and stays true once it is: a registration ends only with the closing of its
session, and a closed session stays closed; the lemmas named
`...Kept` say so part by part. `Frame` then disposes of all parts an action does
not write, and one lemma per action is left with the ones it does.
`UnregisterCorrect` is an action property: it needs `IInv` for the session the
destroyer tears down.

- `RejectedCorrect`, `OneAttemptCorrect`: from `OInv`, on top of `IInv`.

`RejectedIsNotRegistered` and `OneAttemptPerHost` are about what must *not* happen
twice, so `OInv` counts and orders:

- `OnceEach`: an end has at most one handshake packet on its stream or in the
  queue, not both;
- `Ordered`: while an end has a packet waiting it does not know the other node
  yet; the opener gets an answer only when the other end's handler is done;
- `RefusedIsNot`: a session whose handler is still at work is not registered, and
  one that was refused, or is queued for that, is registered at neither end;
- `OwnAttempt`: until the answer has been handled the connection is the socket of
  the connector's attempt for that host, so there is no second one.

Most steps only take packets, handlers and claims away (the formulas `...Shrink`),
which keeps all four; the others have a lemma of their own. TLC found no violation of
`OInv` on instances with faults, with refusals and with a node that lists itself before
it was proved.

- `PairCorrect`: `NothingIsLost => (Spec => []PairKeepsConnection)`, from `PInv`, on
  top of `IInv` and `OInv`.

`NothingIsLost` is that no process crashes and no session is given up as silent:
either may take away the connection that the tie-break kept. Refused connects
are allowed, and so is any number of nodes and sockets. The tie-break looks at one
node's maps at a time, so `PInv` has to say what they tell about the peer's:

- `EndsInv`: the order in which the two ends of a connection are torn down. The
  opener's end is, once, by the handler of the reply (`DoomedOnce`, `OpenerEnds`);
  the other end follows when it reads the end of the stream (`OtherFollows`).
- `Firm`: what an opener has registered is open and nobody tears it down; so is what
  the smaller id has registered for a larger one that opened it.
- `Replaced`: a connection that is refused, about to be torn down or torn down
  (`GoingAway`) has another one of the same two nodes that stands and is
  registered where it arrived (`Backed`), and so has every registration.

A handler that refuses a connection, or gives way with the one it opened, has
just seen such a connection in its own map; the rest of the argument is that no
later step takes that one away (`TieFrame`, and a lemma for each action that
registers, refuses or tears down). TLC checked `PInv` on instances with two nodes
and with three before it was proved. A limit of the model carries over: heartbeat
packets are not in it, so a dying session is not torn down once more because somebody
writes a heartbeat to it.

### ShutdownProofs

`NullCorrect`, for any number of clients and events. `NullIsNotHandled` looks at
the moment a thread handles what it took from its queue; the reason it holds is
two steps earlier. `IInv` adds `NullMeansAsked`: where a null is in a queue, or
has been taken from it, the thread's token has been set, because `stop` sets the
token before it puts the null there. A thread that finds its token set handles
nothing.

### ServerServiceProofs

`TypeCorrect`, `WatchedCorrect`, `ForgottenCorrect` and `FirstCloseCorrect`, for any
clients, fd numbers, reactors and sizes of the queue. None of the last three is
inductive: a session could come back into a map after its teardown if the dispatcher
were to add it a second time, or still had to add it, and its number could be that of
two open connections. `IInv` is the conjunction of

- `Types`;
- `HandedOnce`: a session is in the dispatcher's queue, or with the dispatcher,
  once, and only after it was accepted;
- `FreshIsUntouched`: until the dispatcher has put a session into the map nobody
  else has heard of it, so it has not been queued for destruction or closed;
- `Numbered`: open connections have different numbers; a connection is closed only
  once its session was torn down or it was taken away; and epoll names the session
  of its own connection unless both are `robbed`;
- `InOrder`: epoll comes before the map, the index before the checker, and what
  the destroyer is about to close, or has closed, is in neither; for sessions that
  are `Spared`, which are those neither strayed nor robbed;
- `LookedAfter`: `NobodyUnwatched` with the queue of teardowns as a set.

`FirstCloseCorrect` follows from `Numbered`: an open connection that has the number
of a session in its first teardown is that session's own.

There is a lemma per action; `QueueAppend`, `QueueTail` and the like turn the
sequences into sets first. `TypeCorrect` needs that the dispatcher finds a smallest
size (`ChosenIsSize`, by `LeastNatural`).

### DistanceVectorProofs

`TypeCorrect` and `MutualCorrect`, for any set of nodes, links and costs, any order
of the probes, and any sequence of sessions that end and neighbours misjudged.
`NoMutualRoute` speaks of two tables at one moment; `IInv` says what each has on its
own:

- `TableOf`: every entry leads through another node or nowhere, the node has no
  route to itself, and no neighbour's vector has an entry for it;
- `Backed`: a route to a target through another neighbour than the target is one
  that neighbour has told of as reachable.

If p routes to t through n, its vector tells n that t is unreachable; n's route to t
through p would not be backed.

A table is `Backed` between operations only: `SetLink` drops a neighbour's vector and
leaves the routes through it. They go because recomputing comes to *every* target
(`RelaxedAll`): after k relaxations all but `Cardinality(Targets) - k` targets are
backed (`Halfway`), whatever the order, and an entry, once relaxed, stays backed while
others change (`RelaxIs`). `Relaxations` and the loop over the probes are recursive
functions; `IterationExists` (below) gives them their equations.

`AnyOrder` is about the model: where `OrderMatters` is false, every order of
the relaxations has the one result that `Recomputed` takes (`PartlyBestKept`).

### SetInduction

The library's induction theorems take a predicate as a parameter. Here they are
stated for a set of naturals instead (`LeastNatural`, `InductionTo`,
`InductionOverNat`), from the well-foundedness of the naturals. `IterationExists`:
N maps of a set into itself, applied one after the other, are a function.

### Only model-checked

The unit tests (`PacketsComeBack`, `RoutesAsExpected`, `ReturnsAsExpected`) are about
fixed inputs. `SettledIsShortest` compares with a recursive reference over the whole
network. The liveness properties (`RejectedIsClosed`, `DialledIsLinked`, `PendingIsSent`,
`PendingIsAccepted`, `GoneIsClosed`, `ThreadsEnd`) rest on fairness,
which the prover does not handle.

## Not modelled

- *Raft, its metadata, the state machine log and the RocksDB storage.* No
  initialiser creates them (`Initializer` does not use `ConsensusInitializer`), and
  they cannot get past their start: `RocksDBStorage::get` and `set` create the
  column family of the table at every call, which fails from the second call on;
  `Raft.cpp:118` takes `init`'s 0 for an error; `PersistentState::currentTerm`
  returns the term where it should set its argument, and `increaseTerm` adds one
  twice in memory. A model would have no behaviour beyond that, or would be of
  another program.
- *Wire encodings, logging, configuration, socket wrappers and the HTTP server*
  hold no state of interest after start. The header's framing is in `Receive` and
  `RingBufferTest`.
- *Module messages.* No handler is registered in the repository; the thread is in
  `Shutdown`.
- *The reactor's event array with several sessions at once*: `SendPath` and
  `Receive` are about one session; `ServerService` takes the events one by one.
- *Heartbeat timing.* `Handshake` has a condition on sessions instead of the
  heartbeats' intervals; `ServerService` has the alive checker's rounds, without
  time.
- *Finer steps of `Handshake!Destroy`*, a connect that succeeds at once, and the reuse
  of fd numbers in `Handshake`; a reset between two `send` calls of one task in
  `SendPath`; a reply written to a number that is another connection's in
  `ServerService`. Each is explained with its module above.
- *Data races* on `std::string`s that `HostsInfoManager::getHosts` makes possible; a
  copy of the hosts is atomic.
- *A second start* of a service, and destruction while threads still run.

## Plan

Done: everything listed under [Modules](#modules-and-how-they-correspond-to-the-code).
What would add most next:

1. Compositions: `PacketChannel` is implemented by `SendPath`; a counterpart for
   `Receive`, and `Handshake` over both, with the channel broken where it is.
2. `Raft`, when it is wired: term and vote with a crash between two writes, against
   a node whose term never decreases and which votes once per term.
