--------------------------- MODULE ServerService ---------------------------
(***************************************************************************)
(* The life of a session at a server (ServerService.cpp): a client is      *)
(* accepted, dispatched to a slave reactor, watched by the alive checker,  *)
(* answered, and torn down again, each by a thread of its own.  P2PService *)
(* puts the sessions it accepts or opens through the same steps.           *)
(*                                                                         *)
(* A client stands for its connection and its session.  The session knows  *)
(* the connection by the number of its fd only, and a number that has been *)
(* closed is given to the next connection: what a session does with its    *)
(* number it does to the connection that has it now.                       *)
(*                                                                         *)
(* All that clients send are heartbeats; how bytes become packets is the   *)
(* business of module Receive, and how a reply waits in the write buffer   *)
(* that of SendPath.  Here a packet is decoded when it is received.        *)
(***************************************************************************)
EXTENDS Integers, Sequences, FiniteSets, FiniteSetsExt, SequencesExt

CONSTANTS
    Client, NoClient,
    Fd,       \* the numbers the kernel gives to connections
    NoFd,
    Reactors, \* slave_reactor of config.ini
    Capacity, \* of the queue of the session dispatcher
    MaxBeats  \* bound on the heartbeats clients send

ASSUME NoClientAssumption == NoClient \notin Client
ASSUME FdAssumption == Fd \subseteq Nat /\ NoFd \notin Fd
ASSUME SizeAssumption == Reactors \in Nat \ {0} /\ Capacity \in Nat \ {0} /\ MaxBeats \in Nat

VARIABLES
    client,      \* where each client is: "away", "here", "gone" or "refused"
    inbox,       \* the clients with a heartbeat in the receive buffer
    beats,       \* how many heartbeats have been sent
    edge,        \* the connections epoll has an event for
    fd,          \* the number each session was given
    shut,        \* the connections the server has closed
    accepted,    \* the sessions that have been created
    lost,        \* those the dispatcher's queue had no room for
    acceptor,    \* what the acceptor's thread does
    queue,       \* m_p2pSessionsQueue
    dispatching, \* the session the dispatcher hands over and the next step
    sizes,       \* m_slaveReactorSessionSize
    relation,    \* m_sessionIdSlaveReactorIndex
    indexed,     \* the sessions whose m_slaveReactorIndex has been set
    epoll,       \* of each connection in an epoll: the session in its event
    sessions,    \* the sessions in m_p2pSessions of their reactor
    tasks,       \* the sessions with a reply in m_sendTasks
    packets,     \* the sessions with a heartbeat in m_sessionServiceDatas
    handler,     \* the session whose heartbeat is being handled
    news,        \* the sessions with m_recvCount # m_lastRecvCount
    watched,     \* m_sessions of the alive checker
    offline,     \* the sessions it is about to report
    teardowns,   \* m_waitingDestroySessionInfos
    destroyer,   \* the teardown in progress and its next step
    waiting,     \* m_isWaitingDisconnect
    closed,      \* the sessions that have been torn down
    strayed,     \* the sessions whose index was read before it was set
    robbed,      \* those whose connection another session's step took away
    crashed      \* the process has ended

clientVars   == <<client, inbox, beats, edge>>
fdVars       == <<fd, shut, robbed>>
acceptVars   == <<accepted, lost, acceptor>>
dispatchVars == <<queue, dispatching, sizes, relation, indexed>>
reactorVars  == <<epoll, sessions, tasks>>
packetVars   == <<packets, handler, news>>
checkerVars  == <<watched, offline>>
teardownVars == <<teardowns, destroyer, waiting, closed>>
processVars  == <<strayed, crashed>>
vars == <<clientVars, fdVars, acceptVars, dispatchVars, reactorVars, packetVars, checkerVars,
          teardownVars, processVars>>

NoReactor == -1

\* A step of the dispatcher and of the destroyer.
Idle == [session |-> NoClient, step |-> "idle"]

\* The counts of received heartbeats start at 1, the last ones seen at 0.
Init ==
    /\ client = [c \in Client |-> "away"]
    /\ inbox = {} /\ beats = 0 /\ edge = {}
    /\ fd = [s \in Client |-> NoFd] /\ shut = {} /\ robbed = {}
    /\ accepted = {} /\ lost = {} /\ acceptor = "starting"
    /\ queue = <<>> /\ dispatching = Idle
    /\ sizes = [r \in 0..(Reactors - 1) |-> 0]
    /\ relation = [s \in Client |-> NoReactor]
    /\ indexed = {}
    /\ epoll = [c \in Client |-> NoClient] /\ sessions = {} /\ tasks = {}
    /\ packets = {} /\ handler = NoClient
    /\ news = Client
    /\ watched = {} /\ offline = {}
    /\ teardowns = <<>> /\ destroyer = Idle
    /\ waiting = {} /\ closed = {}
    /\ strayed = {} /\ crashed = FALSE

\* A shared_ptr to the session exists: a weak_ptr can be locked.
Held(s) ==
    \/ s \in sessions \cup tasks \cup Range(queue)
    \/ s \in {dispatching.session, handler, destroyer.session}

Open == accepted \ shut

\* The connection that has the number of session s, if there is one.
Behind(s) == {c \in Open : fd[c] = fd[s]}

-----------------------------------------------------------------------------
(***************************************************************************)
(* The clients                                                             *)
(***************************************************************************)

Connect(c) ==
    /\ client[c] = "away"
    /\ client' = [client EXCEPT ![c] = "here"]
    /\ UNCHANGED <<inbox, beats, edge, fdVars, acceptVars, dispatchVars, reactorVars, packetVars,
                   checkerVars, teardownVars, processVars>>

Raise(c) == edge' = IF epoll[c] # NoClient THEN edge \cup {c} ELSE edge

Beat(c) ==
    /\ client[c] = "here" /\ c \notin inbox \cup shut
    /\ beats < MaxBeats
    /\ beats' = beats + 1
    /\ inbox' = inbox \cup {c}
    /\ Raise(c)
    /\ UNCHANGED <<client, fdVars, acceptVars, dispatchVars, reactorVars, packetVars, checkerVars,
                   teardownVars, processVars>>

Leave(c) ==
    /\ client[c] = "here"
    /\ client' = [client EXCEPT ![c] = "gone"]
    /\ Raise(c)
    /\ UNCHANGED <<inbox, beats, fdVars, acceptVars, dispatchVars, reactorVars, packetVars,
                   checkerVars, teardownVars, processVars>>

-----------------------------------------------------------------------------
(***************************************************************************)
(* The listening thread and the acceptor                                   *)
(***************************************************************************)

Pending == {c \in Client : client[c] \in {"here", "gone"}} \ accepted

\* The condition variable has no predicate: a notification finds the acceptor
\* waiting or is lost.
AcceptorWaits ==
    /\ acceptor = "starting"
    /\ acceptor' = "waiting"
    /\ UNCHANGED <<clientVars, fdVars, accepted, lost, dispatchVars, reactorVars, packetVars,
                   checkerVars, teardownVars, processVars>>

\* select reports the listening socket again and again while a connection is
\* pending.
OnConnect ==
    /\ Pending # {}
    /\ acceptor = "waiting"
    /\ acceptor' = "accepting"
    /\ UNCHANGED <<clientVars, fdVars, accepted, lost, dispatchVars, reactorVars, packetVars,
                   checkerVars, teardownVars, processVars>>

\* Mutant: the acceptor's thread ends after a connection.
AcceptorAfterOne == "ended"

\* The listening socket blocks: the acceptor stays in accept.
AcceptorAfter == "accepting"

\* The numbers no open connection has; the lowest of them is the next one.
Free == Fd \ {fd[c] : c \in Open}

\* A session that finds the dispatcher's queue full is dropped, and its fd
\* stays open (the result of try_emplace is not looked at).
Accept(c) ==
    /\ acceptor = "accepting"
    /\ c \in Pending
    /\ acceptor' = AcceptorAfter
    /\ \E n \in Free : (\A m \in Free : n <= m) /\ fd' = [fd EXCEPT ![c] = n]
    /\ accepted' = accepted \cup {c}
    /\ \/ Len(queue) < Capacity /\ queue' = Append(queue, c) /\ UNCHANGED lost
       \/ Len(queue) >= Capacity /\ lost' = lost \cup {c} /\ UNCHANGED queue
    /\ UNCHANGED <<clientVars, shut, robbed, dispatching, sizes, relation, indexed, reactorVars,
                   packetVars, checkerVars, teardownVars, processVars>>

\* After an error of accept the acceptor waits for the next notification.
AcceptFails ==
    /\ acceptor = "accepting"
    /\ Pending # {}
    /\ acceptor' = "starting"
    /\ UNCHANGED <<clientVars, fdVars, accepted, lost, dispatchVars, reactorVars, packetVars,
                   checkerVars, teardownVars, processVars>>

\* A connection whose receive buffer cannot be set is closed at once.
Refuse(c) ==
    /\ acceptor = "accepting"
    /\ c \in Pending
    /\ client' = [client EXCEPT ![c] = "refused"]
    /\ acceptor' = AcceptorAfter
    /\ UNCHANGED <<inbox, beats, edge, fdVars, accepted, lost, dispatchVars, reactorVars,
                   packetVars, checkerVars, teardownVars, processVars>>

-----------------------------------------------------------------------------
(***************************************************************************)
(* The session dispatcher and the callback it runs                         *)
(***************************************************************************)

At(step) == dispatching.step = step
Proceed(step) == dispatching' = [dispatching EXCEPT !.step = step]

\* The reactor is chosen by the smallest size, not by where that size is.
ChosenReactor == Min({sizes[r] : r \in DOMAIN sizes})

Dispatch ==
    /\ At("idle")
    /\ queue # <<>>
    /\ queue' = Tail(queue)
    /\ dispatching' = [session |-> Head(queue), step |-> "epoll"]
    /\ relation' = [relation EXCEPT ![Head(queue)] = ChosenReactor]
    /\ crashed' = (ChosenReactor \notin DOMAIN sizes)
    /\ UNCHANGED <<clientVars, fdVars, acceptVars, sizes, indexed, reactorVars, packetVars,
                   checkerVars, teardownVars, strayed>>

\* What has arrived before raises an event when the fd is added.  All sessions
\* go to the same reactor, the first (see ChosenReactor): one epoll has them all.
AddToEpoll ==
    LET s == dispatching.session
    IN  /\ At("epoll")
        /\ Proceed("sessions")
        /\ \E c \in Behind(s) :
             /\ epoll[c] = NoClient
             /\ epoll' = [epoll EXCEPT ![c] = s]
             /\ edge' = IF c \in inbox \/ client[c] = "gone" THEN edge \cup {c} ELSE edge
             /\ robbed' = IF c = s THEN robbed ELSE robbed \cup {c}
        /\ UNCHANGED <<client, inbox, beats, fd, shut, acceptVars, queue, sizes, relation, indexed,
                       sessions, tasks, packetVars, checkerVars, teardownVars, processVars>>

\* A number that is closed, or in the epoll already, cannot be added: the
\* session is let go.
AddFails ==
    /\ At("epoll")
    /\ \A c \in Behind(dispatching.session) : epoll[c] # NoClient
    /\ sizes' = [sizes EXCEPT ![ChosenReactor] = @ + 1]
    /\ dispatching' = Idle
    /\ UNCHANGED <<clientVars, fdVars, acceptVars, queue, relation, indexed, reactorVars,
                   packetVars, checkerVars, teardownVars, processVars>>

AddToSessions ==
    /\ At("sessions")
    /\ Proceed("index")
    /\ sessions' = sessions \cup {dispatching.session}
    /\ UNCHANGED <<clientVars, fdVars, acceptVars, queue, sizes, relation, indexed, epoll, tasks,
                   packetVars, checkerVars, teardownVars, processVars>>

SetSlaveReactorIndex ==
    /\ At("index")
    /\ Proceed("watch")
    /\ indexed' = indexed \cup {dispatching.session}
    /\ UNCHANGED <<clientVars, fdVars, acceptVars, queue, sizes, relation, reactorVars, packetVars,
                   checkerVars, teardownVars, processVars>>

\* Mutant: a session is not added to the alive checker.
Unsupervised(s) == watched

\* addSession of the alive checker.
Supervised(s) == watched \cup {s}

Watch ==
    /\ At("watch")
    /\ watched' = Supervised(dispatching.session)
    /\ sizes' = [sizes EXCEPT ![ChosenReactor] = @ + 1]
    /\ dispatching' = Idle
    /\ UNCHANGED <<clientVars, fdVars, acceptVars, queue, relation, indexed, reactorVars,
                   packetVars, offline, teardownVars, processVars>>


-----------------------------------------------------------------------------
(***************************************************************************)
(* The slave reactor and the handler of heartbeats                         *)
(***************************************************************************)

TearDown(s, fromChecker) ==
    teardowns' = Append(teardowns, [session |-> s, fromChecker |-> fromChecker])

\* The socket is reported as soon as it is in epoll, and the event of a session
\* that is not in the map is dropped.
EventDropped(s) ==
    /\ s \notin sessions
    /\ UNCHANGED <<inbox, packets, teardowns, waiting>>

Receive(s) ==
    /\ s \in sessions
    /\ \E c \in Behind(s) \cap inbox : inbox' = inbox \ {c}
    /\ packets' = packets \cup {s}
    /\ UNCHANGED <<teardowns, waiting>>

\* A reset is reported whatever is left to read, the end of the stream is read
\* when nothing is left before it; where nothing can be read recv fails.
Disconnect(c, s) ==
    /\ s \in sessions
    /\ \/ client[c] = "gone"
       \/ \A d \in Behind(s) : client[d] = "gone" \/ d \notin inbox
    /\ waiting' = waiting \cup {s}
    /\ TearDown(s, FALSE)
    /\ UNCHANGED <<inbox, packets>>

\* The event names the session, which is read from by its number.  One recv for
\* each edge: an end of the stream behind the bytes is not seen.
ReactorEvent(c) ==
    LET s == epoll[c]
    IN  /\ c \in edge
        /\ edge' = edge \ {c}
        /\ EventDropped(s) \/ Receive(s) \/ Disconnect(c, s)
        /\ UNCHANGED <<client, beats, fdVars, acceptVars, dispatchVars, reactorVars, handler, news,
                       checkerVars, destroyer, closed, processVars>>

\* Writing to a client that has left succeeds, fails, or has a reset reported.
\* Writing to a number nobody has fails without consequences.
SendTask(s) ==
    /\ s \in tasks
    /\ tasks' = tasks \ {s}
    /\ \/ UNCHANGED <<edge, teardowns>>
       \/ /\ s \notin waiting
          /\ \E c \in Behind(s) :
               /\ client[c] = "gone"
               /\ \/ TearDown(s, FALSE) /\ UNCHANGED edge
                  \/ Raise(c) /\ UNCHANGED teardowns
    /\ UNCHANGED <<client, inbox, beats, fdVars, acceptVars, dispatchVars, epoll, sessions,
                   packetVars, checkerVars, destroyer, waiting, closed, processVars>>

HandleHeartbeat(s) ==
    /\ handler = NoClient
    /\ s \in packets
    /\ packets' = packets \ {s}
    /\ \/ ~Held(s) /\ UNCHANGED <<handler, news>>
       \/ Held(s) /\ handler' = s /\ news' = news \cup {s}
    /\ UNCHANGED <<clientVars, fdVars, acceptVars, dispatchVars, reactorVars, checkerVars,
                   teardownVars, processVars>>

\* The index of a session is not initialised: read before it is set it may be
\* that of the reactor, of another one, or of none.
IndexRead(s) ==
    /\ strayed' = IF s \in indexed THEN strayed ELSE strayed \cup {s}
    /\ crashed' \in IF s \in indexed THEN {FALSE} ELSE BOOLEAN

Reply ==
    /\ handler # NoClient
    /\ IndexRead(handler)
    /\ handler' = NoClient
    /\ tasks' = IF handler \in waiting THEN tasks ELSE tasks \cup {handler}
    /\ UNCHANGED <<clientVars, fdVars, acceptVars, dispatchVars, epoll, sessions, packets, news,
                   checkerVars, teardownVars>>

-----------------------------------------------------------------------------
(***************************************************************************)
(* The alive checker and the destroyer                                     *)
(***************************************************************************)

\* The loop over the sessions holds x_sessions.  A heartbeat counted, or a
\* session let go, in the middle of it might as well have been so before or
\* after it, so the loop is one step.
Tick ==
    /\ offline = {}
    /\ watched # {}
    /\ offline' = {s \in watched : Held(s) /\ s \notin news}
    /\ watched' = {s \in watched : Held(s) /\ s \in news}
    /\ news' = news \ watched
    /\ UNCHANGED <<clientVars, fdVars, acceptVars, dispatchVars, reactorVars, packets, handler,
                   teardownVars, processVars>>

\* Mutant: the sessions found offline are not handed to the destroyer.
ReportNothing(s) ==
    /\ s \in offline
    /\ offline' = offline \ {s}
    /\ UNCHANGED <<clientVars, fdVars, acceptVars, dispatchVars, reactorVars, packetVars, watched,
                   teardownVars, processVars>>

\* x_sessions has been released: a session may be queued a second time.
Report(s) ==
    /\ s \in offline
    /\ offline' = offline \ {s}
    /\ TearDown(s, TRUE)
    /\ UNCHANGED <<clientVars, fdVars, acceptVars, dispatchVars, reactorVars, packetVars, watched,
                   destroyer, waiting, closed, processVars>>

\* A session that no longer exists is dereferenced for the log.
Destroy ==
    LET info == Head(teardowns)
    IN  /\ destroyer = Idle
        /\ teardowns # <<>>
        /\ teardowns' = Tail(teardowns)
        /\ crashed' = ~Held(info.session)
        /\ waiting' = IF Held(info.session) THEN waiting \cup {info.session} ELSE waiting
        /\ destroyer' = [session |-> info.session,
                         step |-> IF info.fromChecker THEN "remove" ELSE "unwatch"]
        /\ UNCHANGED <<clientVars, fdVars, acceptVars, dispatchVars, reactorVars, packetVars,
                       checkerVars, closed, strayed>>

\* A session the dispatcher has not yet added is not found.
RemoveSession ==
    /\ destroyer.step = "unwatch"
    /\ destroyer' = [destroyer EXCEPT !.step = "remove"]
    /\ watched' = watched \ {destroyer.session}
    /\ UNCHANGED <<clientVars, fdVars, acceptVars, dispatchVars, reactorVars, packetVars, offline,
                   teardowns, waiting, closed, processVars>>

Registered == {c \in Client : epoll[c] # NoClient}

\* Mutant: the session stays in the map.
KeepClient(s, c) ==
    /\ epoll' = [epoll EXCEPT ![c] = NoClient]
    /\ UNCHANGED <<sessions, shut>>

\* Mutant: the number is closed here as well.
EraseAndClose(s, c) ==
    /\ epoll' = [epoll EXCEPT ![c] = NoClient]
    /\ sessions' = sessions \ {s}
    /\ shut' = shut \cup {c}

\* removeClient of the reactor of the session.
EraseClient(s, c) ==
    /\ epoll' = [epoll EXCEPT ![c] = NoClient]
    /\ sessions' = sessions \ {s}
    /\ UNCHANGED shut

\* A number that is not in the epoll leaves the session in the map.
RemoveClient ==
    LET s == destroyer.session
    IN  /\ destroyer.step = "remove"
        /\ destroyer' = [destroyer EXCEPT !.step = "close"]
        /\ IndexRead(s)
        /\ \/ \E c \in Behind(s) \cap Registered :
                /\ EraseClient(s, c)
                /\ robbed' = IF c = s THEN robbed ELSE robbed \cup {c}
           \/ /\ s \notin indexed \/ Behind(s) \cap Registered = {}
              /\ UNCHANGED <<sessions, epoll, shut, robbed>>
        /\ edge' = {c \in edge : epoll'[c] # NoClient}
        /\ UNCHANGED <<client, inbox, beats, fd, acceptVars, dispatchVars, tasks, packetVars,
                       checkerVars, teardowns, waiting, closed>>

\* A closed connection is no longer in any epoll.
Close ==
    LET s == destroyer.session
    IN  /\ destroyer.step = "close"
        /\ destroyer' = Idle
        /\ relation' = [relation EXCEPT ![s] = NoReactor]
        /\ closed' = closed \cup {s}
        /\ shut' = shut \cup Behind(s)
        /\ robbed' = robbed \cup (Behind(s) \ {s})
        /\ epoll' = [c \in Client |-> IF c \in Behind(s) THEN NoClient ELSE epoll[c]]
        /\ edge' = edge \ Behind(s)
        /\ UNCHANGED <<client, inbox, beats, fd, acceptVars, queue, dispatching, sizes, indexed,
                       sessions, tasks, packetVars, checkerVars, teardowns, waiting, processVars>>

-----------------------------------------------------------------------------
Step(s) ==
    \/ ReactorEvent(s)
    \/ SendTask(s)
    \/ HandleHeartbeat(s)
    \/ Report(s)
    \/ Accept(s)
    \/ Refuse(s)

Dispatcher == Dispatch \/ AddToEpoll \/ AddFails \/ AddToSessions \/ SetSlaveReactorIndex \/ Watch
Destroyer == Destroy \/ RemoveSession \/ RemoveClient \/ Close

Next ==
    /\ ~crashed
    /\ \/ \E c \in Client : Connect(c) \/ Beat(c) \/ Leave(c) \/ Step(c)
       \/ AcceptorWaits \/ OnConnect \/ AcceptFails
       \/ Dispatcher
       \/ Reply
       \/ Tick
       \/ Destroyer

Spec == Init /\ [][Next]_vars

\* Every thread goes on while it has something to do; clients need do nothing.
\* accept does not fail for ever.
Fairness ==
    /\ WF_vars(~crashed /\ AcceptorWaits)
    /\ WF_vars(~crashed /\ OnConnect)
    /\ WF_vars(~crashed /\ Dispatcher)
    /\ WF_vars(~crashed /\ Reply)
    /\ WF_vars(~crashed /\ Tick)
    /\ WF_vars(~crashed /\ Destroyer)
    /\ WF_vars(~crashed /\ \E s \in Client : Report(s))
    /\ \A s \in Client : SF_vars(~crashed /\ Accept(s))

FairSpec == Spec /\ Fairness

-----------------------------------------------------------------------------
(***************************************************************************)
(* Properties                                                              *)
(***************************************************************************)

TypeOK ==
    /\ beats \in 0..MaxBeats
    /\ client \in [Client -> {"away", "here", "gone", "refused"}]
    /\ fd \in [Client -> Fd \cup {NoFd}]
    /\ epoll \in [Client -> Client \cup {NoClient}]
    /\ acceptor \in {"starting", "waiting", "accepting"}
    /\ queue \in Seq(Client)
    /\ dispatching \in [session : Client \cup {NoClient},
                        step : {"idle", "epoll", "sessions", "index", "watch"}]
    /\ sizes \in [0..(Reactors - 1) -> Nat]
    /\ relation \in [Client -> Int]
    /\ \A S \in {inbox, edge, shut, accepted, lost, indexed, sessions, tasks, packets, news,
                 watched, offline, waiting, closed, strayed, robbed} : S \subseteq Client
    /\ handler \in Client \cup {NoClient}
    /\ teardowns \in Seq([session : Client, fromChecker : BOOLEAN])
    /\ destroyer \in [session : Client \cup {NoClient},
                      step : {"idle", "unwatch", "remove", "close"}]
    /\ crashed \in BOOLEAN

\* The dispatcher, the checker, the reactor and the destroyer hand a session
\* over: while the reactor has it, one of them is going to end or to check it.
NobodyUnwatched ==
    \A s \in sessions \ (strayed \cup robbed) :
        \/ s \in watched \cup offline \cup {dispatching.session, destroyer.session}
        \/ \E i \in DOMAIN teardowns : teardowns[i].session = s
        \/ crashed

\* A session that has been torn down is in no map that a packet, an event or
\* the dispatcher would find it in, and its connection is closed, unless its
\* number was another session's to close as well (ServerService.cpp:49-92).
ClosedIsForgotten ==
    \A s \in closed \ (strayed \cup robbed) :
        /\ s \notin sessions
        /\ \A c \in Client : epoll[c] # s
        /\ relation[s] = NoReactor
        /\ s \in shut \ edge

\* The first teardown of a session closes its own connection and no other, as
\* long as nobody has closed that before: a number reaches a connection of
\* another session only by a second teardown (ServerService.cpp:48-92).
FirstCloseIsOwn ==
    [][\A s \in closed' \ (closed \cup robbed) : shut' = shut \cup {s}]_vars

\* A client that connects is accepted, although the notification of the
\* listening thread may be lost (SelectListenner.cpp, Acceptor.cpp:27-78).
PendingIsAccepted ==
    \A c \in Client : (c \in Pending) ~> (c \in accepted \/ client[c] = "refused" \/ crashed)

\* The fd of a client that has left is closed, whether or not its reactor saw
\* the end of the stream: the alive checker finds it silent.
GoneIsClosed ==
    \A c \in Client :
        (client[c] = "gone") ~> (c \in shut \cup lost \/ client[c] = "refused" \/ crashed)
=============================================================================
