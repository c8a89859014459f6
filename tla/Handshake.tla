------------------------------ MODULE Handshake ------------------------------
(***************************************************************************)
(* How nodes find, register and lose each other: the P2PService facade      *)
(* (csm-service/service/P2PService.cpp) with HostsInfoManager, the          *)
(* HostsConnector thread, the acceptor, the single SessionServiceData-      *)
(* Processor thread that runs the ClientInfo and ClientInfoReply handlers,  *)
(* the SessionDestroyer thread and the timeout of the SessionAliveChecker.  *)
(*                                                                          *)
(* A host of nodes.json is identified with the node that listens on it.     *)
(* Connection c has an end <<c, "out">> at the node that opened it and an   *)
(* end <<c, "in">> at the node that accepts it; the end stands for the      *)
(* P2PSession and its session id.  Reactor, decoder and heartbeat details   *)
(* are abstracted: a packet of a session arrives once and in order.         *)
(***************************************************************************)
EXTENDS Integers, Sequences, FiniteSets

CONSTANTS
  Node,          \* node ids; the handlers compare them with <
  Hosts,         \* Hosts[n]: the nodes listed in n's nodes.json
  MaxConn,       \* bound: sockets opened by all connectors together
  MaxFault       \* bound: MaxFault[k] faults of each kind k

FaultKind == {"crash", "refused", "timeout"}

ASSUME NodeAssumption  == Node \subseteq Nat \ {0}
ASSUME HostsAssumption == Hosts \in [Node -> SUBSET Node]
ASSUME BoundAssumption == MaxConn \in Nat /\ MaxFault \in [FaultKind -> Nat]

NoNode == 0        \* the empty node id ""
NoConn == 0        \* no socket
Conn   == 1 .. MaxConn
Session == Conn \X {"out", "in"}
NoSession == <<NoConn, "out">>

VARIABLES
  up,            \* the processes that run
  from, to,      \* the node that opened connection c, the host it dialled
  opened,        \* connections opened so far
  sess,          \* sess[s]: "none", "open" or "closed" (destroyed)
  nodeId,        \* P2PSession::m_nodeId of session s
  wire,          \* what session s has still to read, in order
  hostId,        \* HostsInfoManager::m_hosts[h].first at node n
  infos,         \* HostsInfoManager::m_nodeIdInfos[id] at node n
  connecting,    \* HostsConnector::m_connectingHosts[h] at node n
  todo,          \* hosts the connector's loop has still to visit, ids unset
                 \* in the copy of m_hosts the loop works on
  marking,       \* the host whose connect handler the connector has run and
                 \* whose timestamp it is about to set to -1
  packets,       \* queue of the service data processor
  handler,       \* the packet handler in progress on that thread
  destroy,       \* queue of the session destroyer
  watched,       \* sessions the alive checker of their node looks at
  faults         \* faults so far

nodeVars == <<hostId, infos, connecting, todo, marking, packets, handler, destroy>>
connVars == <<from, to, opened>>
sessVars == <<sess, nodeId, wire, watched>>
vars     == <<up, connVars, sessVars, nodeVars, faults>>

-----------------------------------------------------------------------------
(* Packets, queue entries and who a session belongs to.                    *)

ClientInfo(id)              == [kind |-> "ClientInfo", id |-> id, result |-> 0]
ClientInfoReply(id, result) == [kind |-> "ClientInfoReply", id |-> id, result |-> result]
Fin                         == [kind |-> "Fin", id |-> NoNode, result |-> 0]

Result == {0, -2, -3}
Packet == [kind : {"ClientInfo", "ClientInfoReply"}, id : Node, result : Result]
Arrival == [session : Session, packet : Packet]      \* SessionServiceData

\* SessionDestoryInfo: 0 is a broken socket or a silent peer, -2, -3 and -4
\* a connection the handshake rejected.
Flag == {0, -2, -3, -4}
Teardown == [session : Session, flag : Flag, fromChecker : BOOLEAN]

Step == {"register", "answer", "reply", "setHostId", "setHostConnected", "addInfo"}
Idle == [session |-> NoSession, id |-> NoNode, result |-> 0, step |-> "idle"]
Busy == [session : Session, id : Node, result : Result, step : Step]

NotConnecting == [fd |-> NoConn, waiting |-> FALSE]
\* "waiting" is the timestamp -1: connected, the ClientInfoReply is awaited.
Attempt == [fd : Conn \cup {NoConn}, waiting : BOOLEAN]

Peer(s)  == <<s[1], IF s[2] = "out" THEN "in" ELSE "out">>
Owner(s) == IF s[2] = "out" THEN from[s[1]] ELSE to[s[1]]
SessionsOf(n) == {s \in Session : s[1] <= opened /\ Owner(s) = n}

\* P2PSession::peerHostEndPointInfo: unset in an accepted session.
PeerHost(s) == IF s[2] = "out" THEN to[s[1]] ELSE NoNode

\* A session a handler holds a shared_ptr to outlives its removal.
Held(s) == \E n \in Node : handler[n].step # "idle" /\ handler[n].session = s

-----------------------------------------------------------------------------
Init ==
  /\ up = Node
  /\ from = [c \in Conn |-> NoNode]
  /\ to = [c \in Conn |-> NoNode]
  /\ opened = 0
  /\ sess = [s \in Session |-> "none"]
  /\ nodeId = [s \in Session |-> NoNode]
  /\ wire = [s \in Session |-> << >>]
  /\ hostId = [n \in Node |-> [h \in Node |-> NoNode]]
  /\ infos = [n \in Node |-> [m \in Node |-> NoSession]]
  /\ connecting = [n \in Node |-> [h \in Node |-> NotConnecting]]
  /\ todo = [n \in Node |-> {}]
  /\ marking = [n \in Node |-> NoNode]
  /\ packets = [n \in Node |-> << >>]
  /\ handler = [n \in Node |-> Idle]
  /\ destroy = [n \in Node |-> << >>]
  /\ watched = {}
  /\ faults = [k \in FaultKind |-> 0]

-----------------------------------------------------------------------------
(* HostsConnector's thread: copy the hosts, dial those that are neither     *)
(* connected nor being connected, then select on the sockets it opened.     *)

Snapshot(n) ==
  /\ n \in up /\ todo[n] = {} /\ marking[n] = NoNode
  /\ todo' = [todo EXCEPT ![n] = {h \in Hosts[n] : hostId[n][h] = NoNode}]
  /\ UNCHANGED <<up, connVars, sessVars, hostId, infos, connecting, marking,
                 packets, handler, destroy, faults>>

StillDialling(n, h)  == connecting[n][h].fd # NoConn /\ ~connecting[n][h].waiting \* mutant
BeingConnected(n, h) == connecting[n][h] # NotConnecting

\* A host that is being connected is passed over; so is one for which no
\* socket can be created, which is how the bound MaxConn shows.
PassOver(n, h) ==
  /\ n \in up /\ h \in todo[n]
  /\ BeingConnected(n, h) \/ opened = MaxConn
  /\ todo' = [todo EXCEPT ![n] = @ \ {h}]
  /\ UNCHANGED <<up, connVars, sessVars, hostId, infos, connecting, marking,
                 packets, handler, destroy, faults>>

StartConnect(n, h) ==
  /\ n \in up /\ h \in todo[n]
  /\ ~BeingConnected(n, h)
  /\ opened < MaxConn
  /\ opened' = opened + 1
  /\ from' = [from EXCEPT ![opened + 1] = n]
  /\ to' = [to EXCEPT ![opened + 1] = h]
  /\ connecting' = [connecting EXCEPT ![n][h] = [fd |-> opened + 1, waiting |-> FALSE]]
  /\ todo' = [todo EXCEPT ![n] = @ \ {h}]
  /\ UNCHANGED <<up, sessVars, hostId, infos, marking, packets, handler,
                 destroy, faults>>

\* The connector is in select, with a connect to h still in progress.
Selecting(n, h) ==
  /\ n \in up /\ todo[n] = {} /\ marking[n] = NoNode
  /\ connecting[n][h].fd # NoConn
  /\ ~connecting[n][h].waiting

\* The socket is connected: create the session, hand it to the reactor and to
\* the alive checker, send ClientInfo (the connect handler).
Connected(n, h) ==
  LET c == connecting[n][h].fd
  IN  /\ Selecting(n, h)
      /\ h \in up
      /\ sess' = [sess EXCEPT ![<<c, "out">>] = "open"]
      /\ watched' = watched \cup {<<c, "out">>}
      /\ wire' = [wire EXCEPT ![<<c, "in">>] = Append(@, ClientInfo(n))]
      /\ marking' = [marking EXCEPT ![n] = h]
      /\ UNCHANGED <<up, connVars, nodeId, hostId, infos, connecting, todo,
                     packets, handler, destroy, faults>>

\* Back from the handler: m_connectingHosts[iter->first].second = -1.  When
\* the reply has erased the entry meanwhile, the iterator is dangling: the
\* write creates the host's entry anew or one of no host.
MarkWaiting(n) ==
  LET h == marking[n]
  IN  /\ n \in up /\ h # NoNode
      /\ marking' = [marking EXCEPT ![n] = NoNode]
      /\ \/ connecting' = [connecting EXCEPT ![n][h].waiting = TRUE]
         \/ connecting[n][h] = NotConnecting /\ UNCHANGED connecting
      /\ UNCHANGED <<up, connVars, sessVars, hostId, infos, todo, packets,
                     handler, destroy, faults>>

\* connect, SO_ERROR or the 20 s limit reports failure: forget the attempt.
Refused(n, h) ==
  /\ Selecting(n, h)
  /\ h \in up => faults["refused"] < MaxFault["refused"]
  /\ faults' = IF h \in up THEN [faults EXCEPT !["refused"] = @ + 1] ELSE faults
  /\ connecting' = [connecting EXCEPT ![n][h] = NotConnecting]
  /\ UNCHANGED <<up, connVars, sessVars, hostId, infos, todo, marking, packets,
                 handler, destroy>>

-----------------------------------------------------------------------------
(* The acceptor and the reactors.                                          *)

Accept(c) ==
  /\ c <= opened /\ to[c] \in up
  /\ sess[<<c, "out">>] # "none" /\ sess[<<c, "in">>] = "none"
  /\ sess' = [sess EXCEPT ![<<c, "in">>] = "open"]
  /\ watched' = watched \cup {<<c, "in">>}
  /\ UNCHANGED <<up, connVars, nodeId, wire, nodeVars, faults>>

\* SessionDestroyer::addSession, which does not look for the session first.
KeepOpen(n, s, flag, fromChecker) == UNCHANGED destroy       \* mutant
TearDown(n, s, flag, fromChecker) ==
  destroy' = [destroy EXCEPT ![n] =
    Append(@, [session |-> s, flag |-> flag, fromChecker |-> fromChecker])]

\* The reactor reads a packet, which the decoder queues for the service
\* thread, or finds the socket closed and has the session destroyed.
Receive(s) ==
  /\ sess[s] = "open" /\ wire[s] # << >>
  /\ wire' = [wire EXCEPT ![s] = Tail(@)]
  /\ LET n == Owner(s)
     IN  IF Head(wire[s]) = Fin
           THEN TearDown(n, s, 0, FALSE) /\ UNCHANGED packets
           ELSE /\ packets' = [packets EXCEPT ![n] =
                     Append(@, [session |-> s, packet |-> Head(wire[s])])]
                /\ UNCHANGED destroy
  /\ UNCHANGED <<up, connVars, sess, nodeId, watched, hostId, infos, connecting,
                 todo, marking, handler, faults>>

-----------------------------------------------------------------------------
(* The service data processor: one packet handler at a time.  Each access   *)
(* to the state shared with the connector and the destroyer is a step.      *)

IgnoreNodeId(s, id) == UNCHANGED nodeId                      \* mutant
SetNodeId(s, id)    == nodeId' = [nodeId EXCEPT ![s] = id]

\* Take the next packet; drop it when its session is gone, else learn the
\* node id of the other side.
BeginHandler(n) ==
  /\ n \in up /\ handler[n] = Idle /\ packets[n] # << >>
  /\ LET s == Head(packets[n]).session
         p == Head(packets[n]).packet
     IN  IF sess[s] = "closed"
           THEN UNCHANGED <<nodeId, handler>>
           ELSE /\ SetNodeId(s, p.id)
                /\ handler' = [handler EXCEPT ![n] =
                     [session |-> s, id |-> p.id, result |-> p.result,
                      step |-> IF p.kind = "ClientInfo" THEN "register" ELSE "reply"]]
  /\ packets' = [packets EXCEPT ![n] = Tail(@)]
  /\ UNCHANGED <<up, connVars, sess, wire, watched, hostId, infos, connecting,
                 todo, marking, destroy, faults>>

AtStep(n, step) == n \in up /\ handler[n].step = step

GoTo(n, step) == handler' = [handler EXCEPT ![n].step = step]
Return(n)     == handler' = [handler EXCEPT ![n] = Idle]

\* addHostIdInfo(id, session): an id that is known keeps its session.
ReplaceHostIdInfo(n, id, s) == infos' = [infos EXCEPT ![n][id] = s]   \* mutant
AddHostIdInfo(n, id, s) ==
  infos' = IF infos[n][id] = NoSession THEN [infos EXCEPT ![n][id] = s] ELSE infos

\* Mutant: the -1 of addHostIdInfo is handed on as the reply's result.
AddResult(n, id)   == IF id = n THEN -2 ELSE IF infos[n][id] = NoSession THEN 0 ELSE -1

\* The id is one's own (-2), new (0), or known (-3).
AcceptAll(n, id)   == IF id = n THEN -2 ELSE 0               \* mutant
ReplyResult(n, id) == IF id = n THEN -2 ELSE IF infos[n][id] = NoSession THEN 0 ELSE -3

\* ClientInfo: register the client under its id.
RegisterClient(n) ==
  LET id == handler[n].id
  IN  /\ AtStep(n, "register")
      /\ IF id = n THEN UNCHANGED infos ELSE AddHostIdInfo(n, id, handler[n].session)
      /\ handler' = [handler EXCEPT ![n].result = ReplyResult(n, id), ![n].step = "answer"]
      /\ UNCHANGED <<up, connVars, sessVars, hostId, connecting, todo, marking,
                     packets, destroy, faults>>

\* sendData fails for a session that is gone; what a closed peer is sent is lost.
Send(s, p) ==
  wire' = IF sess[s] = "open" /\ sess[Peer(s)] # "closed"
            THEN [wire EXCEPT ![Peer(s)] = Append(@, p)]
            ELSE wire

AnswerClient(n) ==
  /\ AtStep(n, "answer")
  /\ Send(handler[n].session, ClientInfoReply(n, handler[n].result))
  /\ Return(n)
  /\ UNCHANGED <<up, connVars, sess, nodeId, watched, hostId, infos, connecting,
                 todo, marking, packets, destroy, faults>>

BothGiveWay(n, id) == TRUE                                   \* mutant
GivesWay(n, id)    == n < id

\* ClientInfoReply: a rejected connection is torn down.  An accepted one is
\* torn down, by the smaller id only, when the peer's own connection has been
\* registered meanwhile; otherwise it is going to be registered.
HandleReply(n) ==
  LET s == handler[n].session
      id == handler[n].id
      result == handler[n].result
      known == infos[n][id] # NoSession
  IN  /\ AtStep(n, "reply")
      /\ \/ result # 0 /\ TearDown(n, s, result, FALSE) /\ Return(n)
         \/ /\ result = 0 /\ known /\ GivesWay(n, id)
            /\ TearDown(n, s, -4, FALSE) /\ Return(n)
         \/ /\ result = 0 /\ known /\ ~GivesWay(n, id)
            /\ Return(n) /\ UNCHANGED destroy
         \/ /\ result = 0 /\ ~known
            /\ GoTo(n, "setHostId") /\ UNCHANGED destroy
      /\ UNCHANGED <<up, connVars, sessVars, hostId, infos, connecting, todo,
                     marking, packets, faults>>

\* setHostId: only the connector's sessions have a host, and get replies.
SetHostId(n) ==
  /\ AtStep(n, "setHostId")
  /\ hostId' = [hostId EXCEPT ![n][PeerHost(handler[n].session)] = handler[n].id]
  /\ GoTo(n, "setHostConnected")
  /\ UNCHANGED <<up, connVars, sessVars, infos, connecting, todo, marking,
                 packets, destroy, faults>>

\* setHostConnected erases the attempt; without one the handler gives up.
SetHostConnected(n) ==
  LET h == PeerHost(handler[n].session)
  IN  /\ AtStep(n, "setHostConnected")
      /\ IF connecting[n][h] = NotConnecting
           THEN Return(n) /\ UNCHANGED connecting
           ELSE /\ connecting' = [connecting EXCEPT ![n][h] = NotConnecting]
                /\ GoTo(n, "addInfo")
      /\ UNCHANGED <<up, connVars, sessVars, hostId, infos, todo, marking,
                     packets, destroy, faults>>

RegisterServer(n) ==
  /\ AtStep(n, "addInfo")
  /\ AddHostIdInfo(n, handler[n].id, handler[n].session)
  /\ Return(n)
  /\ UNCHANGED <<up, connVars, sessVars, hostId, connecting, todo, marking,
                 packets, destroy, faults>>

-----------------------------------------------------------------------------
(* The destroyer, the alive checker and the end of a process.              *)

\* close() on the sessions S: the other ends will read the end of the stream;
\* where unread bytes were dropped they may get a reset, which overtakes what
\* they had still to read.
CloseSockets(S) ==
  /\ sess' = [s \in Session |-> IF s \in S THEN "closed" ELSE sess[s]]
  /\ \E reset \in SUBSET {Peer(s) : s \in {t \in S : wire[t] # << >>}} :
       wire' = [s \in Session |->
         CASE s \in S -> << >>
           [] s \notin S /\ Peer(s) \in S /\ sess[s] # "closed" ->
                IF s \in reset THEN <<Fin>> ELSE Append(wire[s], Fin)
           [] OTHER -> wire[s]]

\* The process of n ends: its state is gone, the kernel closes its sockets,
\* those still in the accept queue too.
Die(n) ==
  LET gone == {s \in SessionsOf(n) :
                 sess[s] = "open" \/ (sess[s] = "none" /\ sess[Peer(s)] # "none")}
  IN  /\ up' = up \ {n}
      /\ CloseSockets(gone)
      /\ watched' = watched \ gone
      /\ hostId' = [hostId EXCEPT ![n] = [h \in Node |-> NoNode]]
      /\ infos' = [infos EXCEPT ![n] = [m \in Node |-> NoSession]]
      /\ connecting' = [connecting EXCEPT ![n] = [h \in Node |-> NotConnecting]]
      /\ todo' = [todo EXCEPT ![n] = {}]
      /\ marking' = [marking EXCEPT ![n] = NoNode]
      /\ packets' = [packets EXCEPT ![n] = << >>]
      /\ handler' = [handler EXCEPT ![n] = Idle]
      /\ destroy' = [destroy EXCEPT ![n] = << >>]
      /\ UNCHANGED <<connVars, nodeId>>

\* removeHostIdInfo(nodeId, session): only the registered session is removed.
RemoveAnyHostIdInfo(n, id, s) ==                             \* mutant
  infos' = IF id # NoNode THEN [infos EXCEPT ![n][id] = NoSession] ELSE infos
RemoveHostIdInfo(n, id, s) ==
  infos' = IF id # NoNode /\ infos[n][id] = s
             THEN [infos EXCEPT ![n][id] = NoSession] ELSE infos

\* disconnectClient: only a broken connection to another node or a parallel
\* duplicate is unregistered; only the break of a connection this node opened
\* makes its host unconnected.
DisconnectClient(n, s, flag) ==
  LET id == nodeId[s]
      broken == flag = 0 /\ id # n
  IN  /\ IF broken \/ flag = -4 THEN RemoveHostIdInfo(n, id, s) ELSE UNCHANGED infos
      /\ hostId' = IF broken /\ PeerHost(s) \in Hosts[n]
                     THEN [hostId EXCEPT ![n][PeerHost(s)] = NoNode] ELSE hostId

\* The destroy handler, for a session that still exists.  The code takes the
\* locks of the checker, the reactor and the hosts in turn; here it is one step,
\* which a packet handler of the same session comes before or after.
Destroy(n) ==
  LET d == Head(destroy[n])
  IN  /\ n \in up /\ destroy[n] # << >>
      /\ sess[d.session] = "open" \/ Held(d.session)
      /\ watched' = IF d.fromChecker THEN watched ELSE watched \ {d.session}
      /\ DisconnectClient(n, d.session, d.flag)
      /\ CloseSockets(IF sess[d.session] = "open" THEN {d.session} ELSE {})
      /\ destroy' = [destroy EXCEPT ![n] = Tail(@)]
      /\ UNCHANGED <<up, connVars, nodeId, connecting, todo, marking, packets,
                     handler, faults>>

\* The destroy handler, for a session already destroyed: reporting that, it
\* dereferences the null pointer it has just tested for.
DestroyExpired(n) ==
  LET s == Head(destroy[n]).session
  IN  /\ n \in up /\ destroy[n] # << >>
      /\ sess[s] = "closed" /\ ~Held(s)
      /\ Die(n)
      /\ UNCHANGED faults

\* Each end gets a heartbeat or the reply to one within every period of the
\* alive checker when one of the ends sends them: it has the other's id set
\* for a host and the session registered for that id.
Heartbeats(s) ==
  \E e \in {s, Peer(s)} :
    LET n == Owner(e)
    IN  /\ sess[e] = "open" /\ n \in up
        /\ \E h \in Hosts[n] :
             hostId[n][h] \notin {NoNode, n} /\ infos[n][hostId[n][h]] = e

AliveTimeout(s) ==
  /\ faults["timeout"] < MaxFault["timeout"]
  /\ s \in watched /\ ~Heartbeats(s)
  /\ faults' = [faults EXCEPT !["timeout"] = @ + 1]
  /\ watched' = watched \ {s}
  /\ TearDown(Owner(s), s, 0, TRUE)
  /\ UNCHANGED <<up, connVars, sess, nodeId, wire, hostId, infos, connecting,
                 todo, marking, packets, handler>>

Crash(n) ==
  /\ n \in up
  /\ faults["crash"] < MaxFault["crash"]
  /\ Die(n)
  /\ faults' = [faults EXCEPT !["crash"] = @ + 1]

Restart(n) ==
  /\ n \notin up
  /\ up' = up \cup {n}
  /\ UNCHANGED <<connVars, sessVars, nodeVars, faults>>

-----------------------------------------------------------------------------
Connector(n) ==
  \/ Snapshot(n)
  \/ MarkWaiting(n)
  \/ \E h \in Hosts[n] : PassOver(n, h) \/ StartConnect(n, h) \/ Connected(n, h)

Processor(n) ==
  \/ BeginHandler(n) \/ RegisterClient(n) \/ AnswerClient(n) \/ HandleReply(n)
  \/ SetHostId(n) \/ SetHostConnected(n) \/ RegisterServer(n)

Destroyer(n) == Destroy(n) \/ DestroyExpired(n)

Next ==
  \/ \E n \in Node : Connector(n) \/ Processor(n) \/ Destroyer(n)
  \/ \E n \in Node : Crash(n) \/ Restart(n) \/ \E h \in Hosts[n] : Refused(n, h)
  \/ \E c \in Conn : Accept(c)
  \/ \E s \in Session : Receive(s) \/ AliveTimeout(s)

Spec == Init /\ [][Next]_vars

\* Every thread of a process that runs keeps taking its steps.
Fairness ==
  /\ \A n \in Node : /\ WF_vars(Snapshot(n)) /\ WF_vars(MarkWaiting(n))
                     /\ WF_vars(Processor(n)) /\ WF_vars(Destroyer(n))
                     /\ \A h \in Hosts[n] : /\ WF_vars(PassOver(n, h) \/ StartConnect(n, h))
                                            /\ SF_vars(Connected(n, h))
  /\ \A c \in Conn : WF_vars(Accept(c))
  /\ \A s \in Session : WF_vars(Receive(s))

FairSpec == Spec /\ Fairness

-----------------------------------------------------------------------------
(* Properties.                                                             *)

\* Packets, handlers and the destroyer's queue carry only the results the
\* handlers tell apart (P2PService.cpp:657-700, 870-917), and the maps lead only
\* to sessions and nodes that exist.
TypeOK ==
  /\ up \subseteq Node
  /\ opened \in 0 .. MaxConn
  /\ from \in [Conn -> Node \cup {NoNode}]
  /\ to \in [Conn -> Node \cup {NoNode}]
  /\ \A c \in 1 .. opened : from[c] \in Node /\ to[c] \in Node
  /\ sess \in [Session -> {"none", "open", "closed"}]
  /\ nodeId \in [Session -> Node \cup {NoNode}]
  /\ wire \in [Session -> Seq(Packet \cup {Fin})]
  /\ hostId \in [Node -> [Node -> Node \cup {NoNode}]]
  /\ infos \in [Node -> [Node -> Session \cup {NoSession}]]
  /\ connecting \in [Node -> [Node -> Attempt]]
  /\ todo \in [Node -> SUBSET Node]
  /\ marking \in [Node -> Node \cup {NoNode}]
  /\ packets \in [Node -> Seq(Arrival)]
  /\ handler \in [Node -> Busy \cup {Idle}]
  /\ destroy \in [Node -> Seq(Teardown)]
  /\ watched \subseteq Session
  /\ faults \in [FaultKind -> Nat]

\* A registered session leads to the node it is registered for: another node,
\* whose id the session has learnt (P2PService.cpp:586, 609, 662, 767).
RegistrationMatches ==
  \A n, m \in Node : infos[n][m] # NoSession =>
    LET s == infos[n][m]
    IN  /\ s \in SessionsOf(n)
        /\ Owner(Peer(s)) = m /\ m # n
        /\ nodeId[s] = m

\* The two ends agree: a node that registered a connection it opened was
\* answered by a node that registered the same connection and has kept it
\* registered as long as its own end exists (P2PService.cpp:609, 703-771).
HandshakeAgreement ==
  \A n, m \in Node : \A c \in Conn :
    infos[n][m] = <<c, "out">> =>
      infos[m][n] = <<c, "in">> \/ sess[<<c, "in">>] = "closed"

\* Sessions of n whose connection the other side has rejected, as far as the
\* rejection has got: on the wire, queued, in the handler, at the destroyer.
Rejected(n) ==
  {s \in SessionsOf(n) :
    \/ \E i \in 1 .. Len(wire[s]) : wire[s][i].result # 0
    \/ \E i \in 1 .. Len(packets[n]) : /\ packets[n][i].session = s
                                       /\ packets[n][i].packet.result # 0
    \/ handler[n].session = s /\ handler[n].step = "reply" /\ handler[n].result # 0
    \/ \E i \in 1 .. Len(destroy[n]) : /\ destroy[n][i].session = s
                                       /\ destroy[n][i].flag \in {-2, -3}}

\* A connection rejected as a duplicate or as one to oneself is registered
\* at neither end, so tearing it down (which unregisters nothing for these
\* flags, P2PService.cpp:899-904) leaves no registration behind.
RejectedIsNotRegistered ==
  \A n \in Node : \A s \in Rejected(n) : \A a, b \in Node :
    infos[a][b] \notin {s, Peer(s)}

\* The connector never has two unanswered connections to one host
\* (HostsConnector.cpp:39-50).
OneAttemptPerHost ==
  \A c, d \in Conn :
    /\ c # d /\ {c, d} \subseteq 1 .. opened
    /\ from[c] = from[d] /\ to[c] = to[d]
    => ~ \A e \in {c, d} : /\ sess[<<e, "out">>] = "open"
                            /\ nodeId[<<e, "out">>] = NoNode

\* A registration ends only with the session that is registered: tearing down
\* a duplicate never unregisters the connection that is kept, and no handler
\* replaces one registered session by another (P2PService.cpp:870-917,
\* HostsInfoManager.cpp:82-119).
OnlyOwnTeardownUnregisters ==
  [][\A n, m \in Node :
       infos[n][m] # NoSession /\ infos'[n][m] # infos[n][m] =>
         infos'[n][m] = NoSession /\ sess'[infos[n][m]] = "closed"]_vars

\* Unless a process crashes or a session is given up as silent, two nodes that
\* connect to each other at the same time never reject both connections: when
\* one has been torn down, another one of the same two nodes is up or being
\* set up, and nobody is about to tear that one down.
PairKeepsConnection ==
  \A c \in 1 .. opened :
    sess[<<c, "out">>] = "closed" /\ from[c] # to[c] =>
      \E d \in 1 .. opened :
        /\ {from[d], to[d]} = {from[c], to[c]}
        /\ sess[<<d, "out">>] = "open" /\ sess[<<d, "in">>] # "closed"
        /\ \A n \in Node : \A i \in 1 .. Len(destroy[n]) :
             destroy[n][i].session[1] # d

\* A rejected connection does not linger: both ends end up destroyed
\* (P2PService.cpp:671-695 at the opener, the end of the stream at the other).
RejectedIsClosed ==
  \A s \in Session :
    (\E n \in Node : s \in Rejected(n)) ~>
      (sess[s] = "closed" /\ sess[Peer(s)] \in {"none", "closed"})

\* Two nodes use the same, existing connection.
Linked(n, m) ==
  \E c \in Conn : \E s \in {<<c, "in">>, <<c, "out">>} :
    /\ infos[n][m] = s /\ infos[m][n] = Peer(s)
    /\ sess[s] = "open" /\ sess[Peer(s)] = "open"

\* Both nodes dialled: the connection the larger id opened is the one that is
\* kept, and the smaller id at least is registered on it.
KeptBySmaller(n, m) ==
  \E c, d \in 1 .. opened :
    /\ {<<from[c], to[c]>>, <<from[d], to[d]>>} = {<<n, m>>, <<m, n>>}
    /\ from[c] > to[c] /\ infos[to[c]][from[c]] = <<c, "in">>
    /\ sess[<<c, "in">>] = "open" /\ sess[<<c, "out">>] = "open"

\* As long as nothing fails for good, a node and the one it is to dial end up
\* using one connection and keep it; when both dial, the smaller id does
\* (P2PService.cpp:553-790, HostsConnector.cpp:28-150).
DialledIsLinked ==
  \A n, m \in Node : m \in Hosts[n] \ {n} => <>[](Linked(n, m) \/ KeptBySmaller(n, m))

-----------------------------------------------------------------------------
(* What the README of the repository says.                                 *)

\* Nothing is on its way or in progress at the handshake level.
Quiet ==
  /\ \A s \in Session : wire[s] = << >>
  /\ \A n \in Node : /\ packets[n] = << >> /\ handler[n] = Idle /\ destroy[n] = << >>
                      /\ marking[n] = NoNode
  /\ \A c \in 1 .. opened : sess[<<c, "in">>] = "none" => sess[<<c, "out">>] = "none"

\* README.md:8: the handshake makes nodes interconnect and keeps just one
\* connection.  When it is over, two nodes of which one has connected to the
\* other use the same connection.
OneConnectionKept ==
  Quiet => \A c \in 1 .. opened :
    sess[<<c, "out">>] = "open" /\ from[c] # to[c] => Linked(from[c], to[c])
=============================================================================
