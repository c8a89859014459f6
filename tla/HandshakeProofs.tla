--------------------------- MODULE HandshakeProofs ---------------------------
(***************************************************************************)
(* What holds of the handshake for every set of nodes, every nodes.json,    *)
(* every number of connections and faults.                                  *)
(*                                                                          *)
(* First the type invariant.  Then the inductive invariant IInv: what the   *)
(* packets in flight, the queued packets, the handlers in progress and the  *)
(* registrations say about the connection they belong to.  Each of these    *)
(* statements can only become truer as a step extends the history (the      *)
(* formulas ...Kept), so that an action has to establish it only for what   *)
(* the action writes (the lemma Frame).  Then OInv, on top of it: how far   *)
(* the two ends of a connection have got, and who still claims it; most     *)
(* steps only take from what OInv forbids (the formulas ...Shrink).  Last   *)
(* PInv, on top of both, for runs in which no process crashes and no        *)
(* session is given up as silent: the order in which the two ends of a      *)
(* connection are torn down, and the other connection of the same nodes     *)
(* that is up whenever one goes away (the lemma TieFrame).                  *)
(***************************************************************************)
EXTENDS Handshake, TLAPS

-----------------------------------------------------------------------------
(* Types.                                                                  *)

\* Append to one of a family of sequences.
LEMMA AppendField ==
  ASSUME NEW S, NEW T, NEW f \in [S -> Seq(T)], NEW k, NEW e \in T
  PROVE  [f EXCEPT ![k] = Append(@, e)] \in [S -> Seq(T)]
<1>1. ASSUME NEW j \in S PROVE Append(f[j], e) \in Seq(T)
  OBVIOUS
<1> QED
  BY <1>1

\* What is left when the head of a queue is taken.
LEMMA HeadTail ==
  ASSUME NEW T, NEW q \in Seq(T), q # << >>
  PROVE  Head(q) \in T /\ Tail(q) \in Seq(T)
  OBVIOUS

\* The types hold initially and every action preserves them.
LEMMA InitTypeOK == Init => TypeOK
  BY NodeAssumption, BoundAssumption
  DEF Init, TypeOK, Session, Conn, NoConn, NoNode, NoSession, NotConnecting, Attempt, Idle

\* Copying the hosts.
LEMMA SnapshotType == ASSUME TypeOK, NEW n \in Node, Snapshot(n) PROVE TypeOK'
  BY HostsAssumption DEF TypeOK, Snapshot, connVars, sessVars

\* Passing over a host.
LEMMA PassOverType ==
  ASSUME TypeOK, NEW n \in Node, NEW h \in Hosts[n], PassOver(n, h) PROVE TypeOK'
  BY HostsAssumption DEF TypeOK, PassOver, connVars, sessVars

\* Opening a socket.
LEMMA StartConnectType ==
  ASSUME TypeOK, NEW n \in Node, NEW h \in Hosts[n], StartConnect(n, h) PROVE TypeOK'
<1>1. h \in Node /\ opened + 1 \in Conn /\ MaxConn \in Nat
  BY HostsAssumption, BoundAssumption DEF StartConnect, TypeOK, Conn
<1>2. [fd |-> opened + 1, waiting |-> FALSE] \in Attempt
  BY <1>1 DEF Attempt
<1>3. connecting' \in [Node -> [Node -> Attempt]]
  BY <1>1, <1>2 DEF StartConnect, TypeOK
<1>4. /\ opened' \in 0 .. MaxConn
      /\ from' \in [Conn -> Node \cup {NoNode}] /\ to' \in [Conn -> Node \cup {NoNode}]
      /\ \A c \in 1 .. opened' : from'[c] \in Node /\ to'[c] \in Node
  BY <1>1 DEF StartConnect, TypeOK, Conn
<1>5. todo' \in [Node -> SUBSET Node]
  BY DEF StartConnect, TypeOK
<1> QED
  BY <1>3, <1>4, <1>5 DEF StartConnect, TypeOK, sessVars

\* The connect handler.
LEMMA ConnectedType ==
  ASSUME TypeOK, NEW n \in Node, NEW h \in Hosts[n], Connected(n, h) PROVE TypeOK'
<1> DEFINE c == connecting[n][h].fd
<1>1. h \in Node /\ c \in Conn
  BY HostsAssumption DEF Connected, Selecting, TypeOK, Attempt
<1>2. <<c, "out">> \in Session /\ <<c, "in">> \in Session
  BY <1>1 DEF Session
<1>3. ClientInfo(n) \in Packet \cup {Fin}
  BY DEF ClientInfo, Packet, Result
<1> HIDE DEF c
<1>4. wire' = [wire EXCEPT ![<<c, "in">>] = Append(@, ClientInfo(n))]
  BY DEF Connected, c
<1>5. wire' \in [Session -> Seq(Packet \cup {Fin})]
  BY <1>2, <1>3, <1>4 DEF TypeOK
<1>6. sess' \in [Session -> {"none", "open", "closed"}] /\ watched' \subseteq Session
  BY <1>2 DEF Connected, TypeOK, c
<1>7. marking' \in [Node -> Node \cup {NoNode}]
  BY <1>1 DEF Connected, TypeOK
<1> QED
  BY <1>5, <1>6, <1>7 DEF Connected, TypeOK, connVars

\* Setting the timestamp to -1.
LEMMA MarkWaitingType == ASSUME TypeOK, NEW n \in Node, MarkWaiting(n) PROVE TypeOK'
<1>1. connecting' \in [Node -> [Node -> Attempt]]
  <2>1. CASE connecting' = [connecting EXCEPT ![n][marking[n]].waiting = TRUE]
    <3>1. marking[n] \in Node
      BY DEF MarkWaiting, TypeOK
    <3>2. connecting[n][marking[n]] \in Attempt
      BY <3>1 DEF TypeOK
    <3>3. [connecting[n][marking[n]] EXCEPT !.waiting = TRUE] \in Attempt
      BY <3>2 DEF Attempt
    <3> QED
      BY <2>1, <3>1, <3>3 DEF TypeOK
  <2> QED
    BY <2>1 DEF MarkWaiting, TypeOK
<1> QED
  BY <1>1 DEF MarkWaiting, TypeOK, connVars, sessVars

\* The absent attempt is an attempt.
LEMMA NotConnectingType == NotConnecting \in Attempt
  BY DEF NotConnecting, Attempt, NoConn

\* A connect that fails.
LEMMA RefusedType ==
  ASSUME TypeOK, NEW n \in Node, NEW h \in Hosts[n], Refused(n, h) PROVE TypeOK'
<1>1. connecting' \in [Node -> [Node -> Attempt]]
  BY NotConnectingType DEF Refused, TypeOK
<1>2. faults' \in [FaultKind -> Nat]
  BY DEF Refused, TypeOK, FaultKind
<1> QED
  BY <1>1, <1>2 DEF Refused, TypeOK, connVars, sessVars

\* The acceptor.
LEMMA AcceptType == ASSUME TypeOK, NEW c \in Conn, Accept(c) PROVE TypeOK'
<1>1. <<c, "in">> \in Session
  BY DEF Session
<1> QED
  BY <1>1 DEF Accept, TypeOK, connVars, nodeVars

\* Queueing a session for the destroyer.
LEMMA TearDownType ==
  ASSUME TypeOK, NEW n, NEW s \in Session, NEW flag \in Flag,
         NEW b \in BOOLEAN, TearDown(n, s, flag, b)
  PROVE  destroy' \in [Node -> Seq(Teardown)]
<1> DEFINE e == [session |-> s, flag |-> flag, fromChecker |-> b]
<1>1. e \in Teardown
  BY DEF Teardown
<1>2. destroy \in [Node -> Seq(Teardown)]
  BY DEF TypeOK
<1>3. destroy' = [destroy EXCEPT ![n] = Append(@, e)]
  BY DEF TearDown
<1> HIDE DEF e
<1> QED
  BY <1>1, <1>2, <1>3, AppendField

\* sendData.
LEMMA SendType ==
  ASSUME TypeOK, NEW s \in Session, NEW p \in Packet, Send(s, p)
  PROVE  wire' \in [Session -> Seq(Packet \cup {Fin})]
<1>1. wire \in [Session -> Seq(Packet \cup {Fin})] /\ p \in Packet \cup {Fin}
  BY DEF TypeOK
<1>2. wire' = wire \/ wire' = [wire EXCEPT ![Peer(s)] = Append(@, p)]
  BY DEF Send
<1>3. ASSUME NEW t \in Session PROVE Append(wire[t], p) \in Seq(Packet \cup {Fin})
  BY <1>1
<1> QED
  BY <1>1, <1>2, <1>3

\* The end of the stream is no packet.
LEMMA FinIsNoPacket == Fin \notin Packet
  BY DEF Fin, Packet

\* The reactor and the decoder.
LEMMA ReceiveType == ASSUME TypeOK, NEW s \in Session, Receive(s) PROVE TypeOK'
<1> DEFINE n == Owner(s)
<1>1. wire' \in [Session -> Seq(Packet \cup {Fin})]
  BY DEF Receive, TypeOK
<1>2. packets' \in [Node -> Seq(Arrival)]
  <2>1. CASE Head(wire[s]) = Fin
    BY <2>1 DEF Receive, TypeOK
  <2>2. CASE Head(wire[s]) # Fin
    <3>1. Head(wire[s]) \in Packet
      BY <2>2 DEF Receive, TypeOK
    <3>2. [session |-> s, packet |-> Head(wire[s])] \in Arrival
      BY <3>1 DEF Arrival
    <3> DEFINE e == [session |-> s, packet |-> Head(wire[s])]
    <3>3. packets' = [packets EXCEPT ![n] = Append(@, e)]
      BY <2>2 DEF Receive
    <3>4. packets \in [Node -> Seq(Arrival)] /\ e \in Arrival
      BY <3>2 DEF TypeOK
    <3> HIDE DEF e
    <3> QED
      BY <3>3, <3>4, AppendField
  <2> QED
    BY <2>1, <2>2
<1>3. destroy' \in [Node -> Seq(Teardown)]
  <2>1. UNCHANGED destroy \/ TearDown(n, s, 0, FALSE)
    BY DEF Receive
  <2>2. 0 \in Flag /\ destroy \in [Node -> Seq(Teardown)]
    BY DEF Flag, TypeOK
  <2> QED
    BY <2>1, <2>2, TearDownType
<1> QED
  BY <1>1, <1>2, <1>3 DEF Receive, TypeOK, connVars

\* A handler takes a packet.
LEMMA BeginHandlerType == ASSUME TypeOK, NEW n \in Node, BeginHandler(n) PROVE TypeOK'
<1> DEFINE s == Head(packets[n]).session
           p == Head(packets[n]).packet
<1>1. Head(packets[n]) \in Arrival
  BY DEF BeginHandler, TypeOK
<1>2. s \in Session /\ p \in Packet /\ p.id \in Node /\ p.result \in Result
  BY <1>1 DEF Arrival, Packet
<1>3. packets' \in [Node -> Seq(Arrival)]
  BY DEF BeginHandler, TypeOK
<1>4. [session |-> s, id |-> p.id, result |-> p.result,
       step |-> IF p.kind = "ClientInfo" THEN "register" ELSE "reply"] \in Busy
  BY <1>2 DEF Busy, Step
<1>5. handler' \in [Node -> Busy \cup {Idle}]
  <2>1. \/ UNCHANGED handler
        \/ handler' = [handler EXCEPT ![n] =
             [session |-> s, id |-> p.id, result |-> p.result,
              step |-> IF p.kind = "ClientInfo" THEN "register" ELSE "reply"]]
    BY DEF BeginHandler
  <2>2. handler \in [Node -> Busy \cup {Idle}]
    BY DEF TypeOK
  <2> HIDE DEF s, p
  <2> QED
    BY <1>4, <2>1, <2>2
<1>6. nodeId' \in [Session -> Node \cup {NoNode}]
  BY <1>2 DEF BeginHandler, TypeOK, SetNodeId
<1> QED
  BY <1>3, <1>5, <1>6 DEF BeginHandler, TypeOK, connVars

\* A handler that is at one of its steps is busy.
LEMMA AtStepBusy ==
  ASSUME TypeOK, NEW n \in Node, NEW step \in Step, AtStep(n, step)
  PROVE  /\ handler[n] \in Busy
         /\ handler[n].session \in Session /\ handler[n].id \in Node
         /\ handler[n].result \in Result
<1>1. Idle.step \notin Step
  BY DEF Idle, Step
<1>2. handler[n] \in Busy
  BY <1>1 DEF AtStep, TypeOK
<1> QED
  BY <1>2 DEF Busy

\* A handler returns.
LEMMA ReturnType ==
  ASSUME TypeOK, NEW n \in Node, Return(n) PROVE handler' \in [Node -> Busy \cup {Idle}]
  BY DEF Return, TypeOK

\* A handler goes on.
LEMMA GoToType ==
  ASSUME TypeOK, NEW n \in Node, NEW step \in Step, handler[n] \in Busy, GoTo(n, step)
  PROVE  handler' \in [Node -> Busy \cup {Idle}]
<1>1. [handler[n] EXCEPT !.step = step] \in Busy
  BY DEF Busy
<1> QED
  BY <1>1 DEF GoTo, TypeOK

\* addHostIdInfo.
LEMMA AddHostIdInfoType ==
  ASSUME TypeOK, NEW n \in Node, NEW id \in Node, NEW s \in Session, AddHostIdInfo(n, id, s)
  PROVE  infos' \in [Node -> [Node -> Session \cup {NoSession}]]
  BY DEF AddHostIdInfo, TypeOK

\* The ClientInfo handler registers.
LEMMA RegisterClientType == ASSUME TypeOK, NEW n \in Node, RegisterClient(n) PROVE TypeOK'
<1>1. /\ handler[n] \in Busy /\ handler[n].session \in Session /\ handler[n].id \in Node
  BY AtStepBusy DEF RegisterClient, Step
<1>2. ReplyResult(n, handler[n].id) \in Result
  BY DEF ReplyResult, Result
<1>3. [handler[n] EXCEPT !.result = ReplyResult(n, handler[n].id), !.step = "answer"] \in Busy
  BY <1>1, <1>2 DEF Busy, Step
<1>4. handler' \in [Node -> Busy \cup {Idle}]
  BY <1>3 DEF RegisterClient, TypeOK
<1>5. infos' \in [Node -> [Node -> Session \cup {NoSession}]]
  BY <1>1, AddHostIdInfoType DEF RegisterClient, TypeOK
<1> QED
  BY <1>4, <1>5 DEF RegisterClient, TypeOK, connVars, sessVars

\* The ClientInfo handler answers.
LEMMA AnswerClientType == ASSUME TypeOK, NEW n \in Node, AnswerClient(n) PROVE TypeOK'
<1>1. /\ handler[n].session \in Session /\ handler[n].result \in Result
  BY AtStepBusy DEF AnswerClient, Step
<1>2. ClientInfoReply(n, handler[n].result) \in Packet
  BY <1>1 DEF ClientInfoReply, Packet
<1>3. wire' \in [Session -> Seq(Packet \cup {Fin})]
  BY <1>1, <1>2, SendType DEF AnswerClient
<1>4. handler' \in [Node -> Busy \cup {Idle}]
  BY ReturnType DEF AnswerClient
<1> QED
  BY <1>3, <1>4 DEF AnswerClient, TypeOK, connVars

\* The ClientInfoReply handler decides.
LEMMA HandleReplyType == ASSUME TypeOK, NEW n \in Node, HandleReply(n) PROVE TypeOK'
<1>1. /\ handler[n] \in Busy /\ handler[n].session \in Session
      /\ handler[n].result \in Result
  BY AtStepBusy DEF HandleReply, Step
<1>2. handler[n].result \in Flag /\ -4 \in Flag
  BY <1>1 DEF Result, Flag
<1>3. destroy' \in [Node -> Seq(Teardown)]
  BY <1>1, <1>2, TearDownType DEF HandleReply, TypeOK
<1>4. handler' \in [Node -> Busy \cup {Idle}]
  BY <1>1, ReturnType, GoToType DEF HandleReply, Step
<1> QED
  BY <1>3, <1>4 DEF HandleReply, TypeOK, connVars, sessVars

\* setHostId.
LEMMA SetHostIdType == ASSUME TypeOK, NEW n \in Node, SetHostId(n) PROVE TypeOK'
<1>1. handler[n] \in Busy /\ handler[n].id \in Node
  BY AtStepBusy DEF SetHostId, Step
<1>2. handler' \in [Node -> Busy \cup {Idle}]
  BY <1>1, GoToType DEF SetHostId, Step
<1>3. hostId' \in [Node -> [Node -> Node \cup {NoNode}]]
  BY <1>1 DEF SetHostId, TypeOK
<1> QED
  BY <1>2, <1>3 DEF SetHostId, TypeOK, connVars, sessVars

\* setHostConnected.
LEMMA SetHostConnectedType == ASSUME TypeOK, NEW n \in Node, SetHostConnected(n) PROVE TypeOK'
<1>1. handler[n] \in Busy
  BY AtStepBusy DEF SetHostConnected, Step
<1>2. handler' \in [Node -> Busy \cup {Idle}]
  BY <1>1, ReturnType, GoToType DEF SetHostConnected, Step
<1>3. connecting' \in [Node -> [Node -> Attempt]]
  <2>1. connecting \in [Node -> [Node -> Attempt]]
    BY DEF TypeOK
  <2>2. \/ UNCHANGED connecting
        \/ connecting' = [connecting EXCEPT ![n][PeerHost(handler[n].session)] = NotConnecting]
    BY DEF SetHostConnected
  <2> QED
    BY <2>1, <2>2, NotConnectingType
<1> QED
  BY <1>2, <1>3 DEF SetHostConnected, TypeOK, connVars, sessVars

\* The ClientInfoReply handler registers.
LEMMA RegisterServerType == ASSUME TypeOK, NEW n \in Node, RegisterServer(n) PROVE TypeOK'
<1>1. /\ handler[n].session \in Session /\ handler[n].id \in Node
  BY AtStepBusy DEF RegisterServer, Step
<1>2. infos' \in [Node -> [Node -> Session \cup {NoSession}]]
  BY <1>1, AddHostIdInfoType DEF RegisterServer
<1>3. handler' \in [Node -> Busy \cup {Idle}]
  BY ReturnType DEF RegisterServer
<1> QED
  BY <1>2, <1>3 DEF RegisterServer, TypeOK, connVars, sessVars

\* close() and what the peers read of it.
LEMMA CloseSocketsType ==
  ASSUME TypeOK, NEW S \in SUBSET Session, CloseSockets(S)
  PROVE  /\ sess' \in [Session -> {"none", "open", "closed"}]
         /\ wire' \in [Session -> Seq(Packet \cup {Fin})]
<1>1. PICK reset \in SUBSET {Peer(s) : s \in {t \in S : wire[t] # << >>}} :
       wire' = [s \in Session |->
         CASE s \in S -> << >>
           [] s \notin S /\ Peer(s) \in S /\ sess[s] # "closed" ->
                IF s \in reset THEN <<Fin>> ELSE Append(wire[s], Fin)
           [] OTHER -> wire[s]]
  BY DEF CloseSockets
<1>2. ASSUME NEW s \in Session PROVE wire'[s] \in Seq(Packet \cup {Fin})
  <2>1. wire[s] \in Seq(Packet \cup {Fin})
    BY DEF TypeOK
  <2>2. \/ wire'[s] = << >> \/ wire'[s] = <<Fin>>
        \/ wire'[s] = Append(wire[s], Fin) \/ wire'[s] = wire[s]
    BY <1>1
  <2>3. << >> \in Seq(Packet \cup {Fin}) /\ <<Fin>> \in Seq(Packet \cup {Fin})
    OBVIOUS
  <2>4. Append(wire[s], Fin) \in Seq(Packet \cup {Fin})
    BY <2>1
  <2> QED
    BY <2>1, <2>2, <2>3, <2>4
<1> QED
  BY <1>1, <1>2 DEF CloseSockets, TypeOK

\* The end of a process.
LEMMA DieType ==
  ASSUME TypeOK, NEW n \in Node, Die(n), faults' \in [FaultKind -> Nat] PROVE TypeOK'
<1> DEFINE gone == {s \in SessionsOf(n) :
                      sess[s] = "open" \/ (sess[s] = "none" /\ sess[Peer(s)] # "none")}
<1>1. gone \in SUBSET Session
  BY DEF SessionsOf
<1>2. CloseSockets(gone) /\ watched' = watched \ gone
  BY DEF Die
<1> HIDE DEF gone
<1>3. /\ sess' \in [Session -> {"none", "open", "closed"}]
      /\ wire' \in [Session -> Seq(Packet \cup {Fin})]
  BY <1>1, <1>2, CloseSocketsType
<1>4. watched' \subseteq Session
  BY <1>2 DEF TypeOK
<1>5. connecting' \in [Node -> [Node -> Attempt]]
  BY NotConnectingType DEF Die, TypeOK
<1>6. /\ up' \subseteq Node
      /\ hostId' \in [Node -> [Node -> Node \cup {NoNode}]]
      /\ infos' \in [Node -> [Node -> Session \cup {NoSession}]]
      /\ todo' \in [Node -> SUBSET Node]
      /\ marking' \in [Node -> Node \cup {NoNode}]
  BY DEF Die, TypeOK
<1>7. /\ packets' \in [Node -> Seq(Arrival)]
      /\ handler' \in [Node -> Busy \cup {Idle}]
      /\ destroy' \in [Node -> Seq(Teardown)]
  BY DEF Die, TypeOK
<1> QED
  BY <1>3, <1>4, <1>5, <1>6, <1>7 DEF Die, TypeOK, connVars

\* The destroy handler.
LEMMA DestroyType == ASSUME TypeOK, NEW n \in Node, Destroy(n) PROVE TypeOK'
<1> DEFINE d == Head(destroy[n])
<1>1. d \in Teardown /\ d.session \in Session
  <2>1. destroy[n] \in Seq(Teardown) /\ destroy[n] # << >>
    BY DEF Destroy, TypeOK
  <2>2. d \in Teardown
    BY <2>1, HeadTail
  <2> QED
    BY <2>2 DEF Teardown
<1>2. CloseSockets(IF sess[d.session] = "open" THEN {d.session} ELSE {})
  BY DEF Destroy
<1>3. /\ sess' \in [Session -> {"none", "open", "closed"}]
      /\ wire' \in [Session -> Seq(Packet \cup {Fin})]
  BY <1>1, <1>2, CloseSocketsType
<1>4. /\ infos' \in [Node -> [Node -> Session \cup {NoSession}]]
      /\ hostId' \in [Node -> [Node -> Node \cup {NoNode}]]
  <2> DEFINE id == nodeId[d.session]
             h == PeerHost(d.session)
  <2>1. /\ infos \in [Node -> [Node -> Session \cup {NoSession}]]
        /\ hostId \in [Node -> [Node -> Node \cup {NoNode}]]
    BY DEF TypeOK
  <2>2. /\ \/ UNCHANGED infos
           \/ infos' = [infos EXCEPT ![n][id] = NoSession]
        /\ \/ UNCHANGED hostId
           \/ hostId' = [hostId EXCEPT ![n][h] = NoNode]
    BY DEF Destroy, DisconnectClient, RemoveHostIdInfo
  <2> HIDE DEF id, h
  <2>3. infos' \in [Node -> [Node -> Session \cup {NoSession}]]
    BY <2>1, <2>2
  <2>4. hostId' \in [Node -> [Node -> Node \cup {NoNode}]]
    <3>1. ASSUME NEW a \in Node
          PROVE  [hostId[a] EXCEPT ![h] = NoNode] \in [Node -> Node \cup {NoNode}]
      BY <2>1
    <3> QED
      BY <2>1, <2>2, <3>1
  <2> QED
    BY <2>3, <2>4
<1>5. destroy' \in [Node -> Seq(Teardown)] /\ watched' \subseteq Session
  BY DEF Destroy, TypeOK
<1> QED
  BY <1>3, <1>4, <1>5 DEF Destroy, TypeOK, connVars

\* The destroy handler on an expired session.
LEMMA DestroyExpiredType == ASSUME TypeOK, NEW n \in Node, DestroyExpired(n) PROVE TypeOK'
<1>1. faults' \in [FaultKind -> Nat]
  BY DEF DestroyExpired, TypeOK
<1> QED
  BY <1>1, DieType DEF DestroyExpired

\* The alive checker gives a session up.
LEMMA AliveTimeoutType == ASSUME TypeOK, NEW s \in Session, AliveTimeout(s) PROVE TypeOK'
<1>1. destroy' \in [Node -> Seq(Teardown)]
  <2>1. TearDown(Owner(s), s, 0, TRUE) /\ 0 \in Flag
    BY DEF AliveTimeout, Flag
  <2> QED
    BY <2>1, TearDownType
<1>2. faults' \in [FaultKind -> Nat] /\ watched' \subseteq Session
  BY DEF AliveTimeout, TypeOK, FaultKind
<1> QED
  BY <1>1, <1>2 DEF AliveTimeout, TypeOK, connVars

\* A crash.
LEMMA CrashType == ASSUME TypeOK, NEW n \in Node, Crash(n) PROVE TypeOK'
<1>1. faults' \in [FaultKind -> Nat]
  BY DEF Crash, TypeOK, FaultKind
<1> QED
  BY <1>1, DieType DEF Crash

\* A restart.
LEMMA RestartType == ASSUME TypeOK, NEW n \in Node, Restart(n) PROVE TypeOK'
  BY DEF Restart, TypeOK, connVars, sessVars, nodeVars

\* Every step preserves the types.
LEMMA NextTypeOK == TypeOK /\ [Next]_vars => TypeOK'
<1> SUFFICES ASSUME TypeOK, [Next]_vars PROVE TypeOK'
  OBVIOUS
<1>1. ASSUME NEW n \in Node, Connector(n) PROVE TypeOK'
  BY <1>1, SnapshotType, MarkWaitingType, PassOverType, StartConnectType, ConnectedType
  DEF Connector
<1>2. ASSUME NEW n \in Node, Processor(n) PROVE TypeOK'
  BY <1>2, BeginHandlerType, RegisterClientType, AnswerClientType, HandleReplyType,
     SetHostIdType, SetHostConnectedType, RegisterServerType
  DEF Processor
<1>3. ASSUME NEW n \in Node, Destroyer(n) PROVE TypeOK'
  BY <1>3, DestroyType, DestroyExpiredType DEF Destroyer
<1>4. ASSUME NEW n \in Node, Crash(n) \/ Restart(n) \/ \E h \in Hosts[n] : Refused(n, h)
      PROVE  TypeOK'
  BY <1>4, CrashType, RestartType, RefusedType
<1>5. ASSUME NEW c \in Conn, Accept(c) PROVE TypeOK'
  BY <1>5, AcceptType
<1>6. ASSUME NEW s \in Session, Receive(s) \/ AliveTimeout(s) PROVE TypeOK'
  BY <1>6, ReceiveType, AliveTimeoutType
<1>7. CASE UNCHANGED vars
  BY <1>7 DEF vars, connVars, sessVars, nodeVars, TypeOK
<1> QED
  BY <1>1, <1>2, <1>3, <1>4, <1>5, <1>6, <1>7 DEF Next

\* Every variable keeps its type whatever the nodes, hosts, faults and bounds.
THEOREM TypeCorrect == Spec => []TypeOK
  BY InitTypeOK, NextTypeOK, PTL DEF Spec

-----------------------------------------------------------------------------
(* The inductive invariant.                                                *)

\* The other end of s has registered the connection, or is closed.
Agreed(s) ==
  LET m == Owner(Peer(s))
  IN  infos[m][Owner(s)] = Peer(s) \/ sess[Peer(s)] = "closed"

\* The packets session s may have to read: they name the node at the other
\* end; ClientInfo goes to the accepting end, the reply back; a connection is
\* accepted only from another node and only once it is registered.
GoodPacket(s) ==
  {p \in Packet :
    /\ s[1] <= opened
    /\ p.id = Owner(Peer(s))
    /\ p.kind = IF s[2] = "in" THEN "ClientInfo" ELSE "ClientInfoReply"
    /\ s[2] = "out" /\ p.result = 0 => Owner(s) # Owner(Peer(s)) /\ Agreed(s)}

GoodArrival(n) ==
  {a \in Arrival : /\ a.session \in SessionsOf(n)
                   /\ sess[a.session] # "none"
                   /\ a.packet \in GoodPacket(a.session)}

\* The steps of a handler at node n that knows who it talks to.
GoodHandler(n) ==
  {b \in Busy :
    LET s == b.session
    IN  /\ s \in SessionsOf(n)
        /\ sess[s] # "none"
        /\ b.id = Owner(Peer(s))
        /\ nodeId[s] = b.id
        /\ s[2] = IF b.step \in {"register", "answer"} THEN "in" ELSE "out"
        /\ b.step = "answer" /\ b.result = 0 =>
             b.id # n /\ (infos[n][b.id] = s \/ sess[s] = "closed")
        /\ b.step = "reply" /\ b.result = 0 => b.id # n /\ Agreed(s)
        /\ b.step \in {"setHostId", "setHostConnected", "addInfo"} =>
             b.id # n /\ Agreed(s)}

\* An attempt's socket is one its node opened to that host; until the connect
\* handler has run for it there is no session.
GoodAttempt(n, h) ==
  LET c == connecting[n][h].fd
  IN  c # NoConn => /\ c <= opened /\ from[c] = n /\ to[c] = h
                    /\ ~connecting[n][h].waiting /\ marking[n] # h =>
                         sess[<<c, "out">>] = "none"

GoodInfo(n, m) ==
  LET s == infos[n][m]
  IN  s # NoSession =>
        /\ s \in SessionsOf(n) /\ sess[s] # "none"
        /\ Owner(Peer(s)) = m /\ m # n
        /\ nodeId[s] = m
        /\ s[2] = "out" => Agreed(s)

IInv ==
  /\ TypeOK
  /\ \A s \in Session : sess[s] # "none" => s[1] <= opened
  /\ \A s \in Session : wire[s] \in Seq(GoodPacket(s) \cup {Fin})
  /\ \A n \in Node : packets[n] \in Seq(GoodArrival(n))
  /\ \A n \in Node : handler[n] \in GoodHandler(n) \cup {Idle}
  /\ \A n, h \in Node : GoodAttempt(n, h)
  /\ \A n, m \in Node : GoodInfo(n, m)

-----------------------------------------------------------------------------
(* What every step preserves, and with it whatever is said about packets,   *)
(* handlers and registrations it does not touch.                            *)

ConnKept ==
  /\ opened' \in Nat /\ opened <= opened'
  /\ \A c \in 1 .. opened : from'[c] = from[c] /\ to'[c] = to[c]

SessKept ==
  \A s \in Session : /\ sess[s] # "none" => sess'[s] # "none"
                     /\ sess[s] = "closed" => sess'[s] = "closed"

InfoKept ==
  \A n, m \in Node : infos[n][m] # NoSession /\ infos'[n][m] # infos[n][m] =>
    infos'[n][m] = NoSession /\ sess'[infos[n][m]] = "closed"

NodeIdKept ==
  \A s \in Session : nodeId'[s] # nodeId[s] => nodeId'[s] = Owner(Peer(s))

Kept == ConnKept /\ SessKept /\ InfoKept /\ NodeIdKept

\* A cleared queue holds nothing wrong.
LEMMA EmptySeq == ASSUME NEW S PROVE << >> \in Seq(S)
  OBVIOUS

\* A queue of elements of a set is one of elements of a larger set.
LEMMA SeqMonotone ==
  ASSUME NEW A, NEW B, A \subseteq B, NEW q \in Seq(A) PROVE q \in Seq(B)
  OBVIOUS

\* The two ends of a connection.
LEMMA PeerFacts ==
  ASSUME NEW s \in Session
  PROVE  /\ Peer(s) \in Session /\ Peer(Peer(s)) = s
         /\ Peer(s)[1] = s[1] /\ s # NoSession /\ Peer(s) # NoSession
         /\ s[1] \in Conn /\ s[2] \in {"in", "out"}
         /\ Peer(s)[2] = IF s[2] = "out" THEN "in" ELSE "out"
<1>1. PICK c \in Conn, e \in {"out", "in"} : s = <<c, e>>
  BY DEF Session
<1>2. Peer(s) = <<c, IF e = "out" THEN "in" ELSE "out">>
  BY <1>1 DEF Peer
<1>3. Peer(s) \in Session
  BY <1>2 DEF Session
<1>4. Peer(Peer(s)) = s
  BY <1>1, <1>2 DEF Peer
<1>5. c # NoConn
  BY DEF Conn, NoConn
<1> QED
  BY <1>1, <1>2, <1>3, <1>4, <1>5 DEF NoSession

\* The ends of an opened connection belong to nodes.
LEMMA OwnerInNode ==
  ASSUME TypeOK, NEW s \in Session, s[1] <= opened
  PROVE  Owner(s) \in Node /\ Owner(Peer(s)) \in Node
<1>1. s[1] \in 1 .. opened /\ Peer(s)[1] = s[1]
  BY PeerFacts, BoundAssumption DEF TypeOK, Conn
<1>2. \A c \in 1 .. opened : from[c] \in Node /\ to[c] \in Node
  BY DEF TypeOK
<1> QED
  BY <1>1, <1>2 DEF Owner

\* An opened connection keeps its two nodes.
LEMMA OwnerKept ==
  ASSUME TypeOK, ConnKept, NEW s \in Session, s[1] <= opened
  PROVE  /\ Owner(s)' = Owner(s) /\ Owner(Peer(s))' = Owner(Peer(s))
         /\ s[1] <= opened'
<1>1. /\ s[1] \in 1 .. opened /\ Peer(s)[1] = s[1]
      /\ opened \in Nat /\ opened' \in Nat /\ opened <= opened'
  BY PeerFacts, BoundAssumption DEF TypeOK, Conn, ConnKept
<1>2. /\ from'[s[1]] = from[s[1]] /\ to'[s[1]] = to[s[1]]
  BY <1>1 DEF ConnKept
<1>3. Owner(s)' = Owner(s)
  BY <1>2 DEF Owner
<1>4. Owner(Peer(s))' = Owner(Peer(s))
  <2>1. PICK t \in Session : t = Peer(s)
    BY PeerFacts
  <2>2. Owner(t)' = Owner(t)
    BY <1>1, <1>2, <2>1 DEF Owner
  <2>3. Peer(s)' = Peer(s)
    BY DEF Peer
  <2> QED
    BY <2>1, <2>2, <2>3
<1>5. s[1] <= opened'
  BY <1>1
<1> QED
  BY <1>3, <1>4, <1>5

\* A node keeps its sessions.
LEMMA SessionsOfKept ==
  ASSUME TypeOK, TypeOK', ConnKept, NEW n, NEW s \in SessionsOf(n)
  PROVE  s \in SessionsOf(n)'
  BY OwnerKept DEF SessionsOf

\* What the other end has registered stays registered or closed.
LEMMA AgreedKept ==
  ASSUME TypeOK, Kept, NEW s \in Session, s[1] <= opened, Agreed(s)
  PROVE  Agreed(s)'
<1> DEFINE m == Owner(Peer(s))
           n == Owner(s)
<1>1. /\ m \in Node /\ n \in Node /\ m' = m /\ n' = n
      /\ Peer(s) \in Session /\ Peer(s) # NoSession /\ Peer(s)' = Peer(s)
  BY OwnerInNode, OwnerKept, PeerFacts DEF Kept, Peer
<1>2. infos[m][n] = Peer(s) \/ sess[Peer(s)] = "closed"
  BY DEF Agreed
<1> HIDE DEF m, n
<1>3. infos'[m][n] = Peer(s) \/ sess'[Peer(s)] = "closed"
  BY <1>1, <1>2 DEF Kept, InfoKept, SessKept
<1> QED
  BY <1>1, <1>3 DEF Agreed, m, n

\* A packet in flight stays true.
LEMMA GoodPacketKept ==
  ASSUME TypeOK, Kept, NEW s \in Session PROVE GoodPacket(s) \subseteq GoodPacket(s)'
<1> SUFFICES ASSUME NEW p \in GoodPacket(s) PROVE p \in GoodPacket(s)'
  OBVIOUS
<1>1. s[1] <= opened
  BY DEF GoodPacket
<1>2. /\ Owner(s)' = Owner(s) /\ Owner(Peer(s))' = Owner(Peer(s))
      /\ s[1] <= opened'
  BY <1>1, OwnerKept DEF Kept
<1>3. Agreed(s) => Agreed(s)'
  BY <1>1, AgreedKept
<1> QED
  BY <1>2, <1>3 DEF GoodPacket

\* So does a queued packet ...
LEMMA GoodArrivalKept ==
  ASSUME TypeOK, TypeOK', Kept, NEW n \in Node PROVE GoodArrival(n) \subseteq GoodArrival(n)'
<1> SUFFICES ASSUME NEW a \in GoodArrival(n) PROVE a \in GoodArrival(n)'
  OBVIOUS
<1>1. a.session \in Session /\ a.session \in SessionsOf(n) /\ sess[a.session] # "none"
  BY DEF GoodArrival, SessionsOf
<1>2. a.session \in SessionsOf(n)' /\ sess'[a.session] # "none"
  BY <1>1, SessionsOfKept DEF Kept, SessKept
<1>3. a.packet \in GoodPacket(a.session)'
  BY <1>1, GoodPacketKept DEF GoodArrival
<1> QED
  BY <1>2, <1>3 DEF GoodArrival

\* ... and what a handler in progress knows.
LEMMA GoodHandlerKept ==
  ASSUME TypeOK, TypeOK', Kept, NEW n \in Node PROVE GoodHandler(n) \subseteq GoodHandler(n)'
<1> SUFFICES ASSUME NEW b \in GoodHandler(n) PROVE b \in GoodHandler(n)'
  OBVIOUS
<1> DEFINE s == b.session
<1>1. /\ b \in Busy /\ s \in Session /\ s \in SessionsOf(n) /\ s[1] <= opened
      /\ sess[s] # "none" /\ b.id = Owner(Peer(s)) /\ nodeId[s] = b.id
      /\ s[2] = IF b.step \in {"register", "answer"} THEN "in" ELSE "out"
  BY DEF GoodHandler, SessionsOf
<1>2. s \in SessionsOf(n)' /\ sess'[s] # "none" /\ Owner(Peer(s))' = b.id
  BY <1>1, SessionsOfKept, OwnerKept DEF Kept, SessKept
<1>3. nodeId'[s] = b.id
  BY <1>1 DEF Kept, NodeIdKept
<1>4. Agreed(s) => Agreed(s)'
  BY <1>1, AgreedKept
<1>5. s # NoSession /\ b.id \in Node
  BY <1>1, PeerFacts, OwnerInNode
<1>6. infos[n][b.id] = s \/ sess[s] = "closed" => infos'[n][b.id] = s \/ sess'[s] = "closed"
  BY <1>1, <1>5 DEF Kept, InfoKept, SessKept
<1>7. /\ b.step = "answer" /\ b.result = 0 =>
           b.id # n /\ (infos[n][b.id] = s \/ sess[s] = "closed")
      /\ b.step = "reply" /\ b.result = 0 => b.id # n /\ Agreed(s)
      /\ b.step \in {"setHostId", "setHostConnected", "addInfo"} => b.id # n /\ Agreed(s)
  BY DEF GoodHandler
<1> HIDE DEF s
<1> QED
  BY <1>1, <1>2, <1>3, <1>4, <1>6, <1>7 DEF GoodHandler, s

\* A registration that is not overwritten stays true.
LEMMA GoodInfoKept ==
  ASSUME TypeOK, TypeOK', Kept, NEW n \in Node, NEW m \in Node,
         GoodInfo(n, m), infos'[n][m] \in {infos[n][m], NoSession}
  PROVE  GoodInfo(n, m)'
<1>1. CASE infos'[n][m] # NoSession
  <2>1. infos'[n][m] = infos[n][m] /\ infos[n][m] \in Session
    BY <1>1 DEF TypeOK
  <2>2. PICK s \in Session : s = infos[n][m]
    BY <2>1
  <2>3. /\ s \in SessionsOf(n) /\ s[1] <= opened
        /\ sess[s] # "none" /\ Owner(Peer(s)) = m /\ m # n /\ nodeId[s] = m
        /\ s[2] = "out" => Agreed(s)
    BY <1>1, <2>1, <2>2 DEF GoodInfo, SessionsOf
  <2>4. s \in SessionsOf(n)' /\ sess'[s] # "none" /\ Owner(Peer(s))' = m
    BY <2>3, SessionsOfKept, OwnerKept DEF Kept, SessKept
  <2>5. nodeId'[s] = m
    BY <2>3 DEF Kept, NodeIdKept
  <2>6. s[2] = "out" => Agreed(s)'
    BY <2>3, AgreedKept
  <2> QED
    BY <2>1, <2>2, <2>3, <2>4, <2>5, <2>6 DEF GoodInfo
<1>2. CASE infos'[n][m] = NoSession
  BY <1>2 DEF GoodInfo
<1> QED
  BY <1>1, <1>2

\* What is not written is kept.
LEMMA Unchanged ==
  ASSUME TypeOK
  PROVE  /\ UNCHANGED connVars => ConnKept
         /\ UNCHANGED sess => SessKept
         /\ UNCHANGED infos => InfoKept
         /\ UNCHANGED nodeId => NodeIdKept
<1>1. opened \in Nat
  BY BoundAssumption DEF TypeOK
<1> QED
  BY <1>1 DEF ConnKept, connVars, SessKept, InfoKept, NodeIdKept

\* The attempts of a step that neither dials nor ends an attempt.
LEMMA AttemptKept ==
  ASSUME TypeOK, ConnKept, NEW n \in Node, NEW h \in Node, GoodAttempt(n, h),
         connecting'[n][h] = connecting[n][h], marking'[n] \in {marking[n], h},
         sess'[<<connecting[n][h].fd, "out">>] = sess[<<connecting[n][h].fd, "out">>]
  PROVE  GoodAttempt(n, h)'
<1> DEFINE c == connecting[n][h].fd
<1>1. connecting[n][h] \in Attempt /\ opened \in Nat /\ opened' \in Nat /\ opened <= opened'
  BY BoundAssumption DEF TypeOK, ConnKept
<1>2. ASSUME c # NoConn PROVE c \in 1 .. opened /\ c <= opened'
  BY <1>1, <1>2, BoundAssumption DEF Attempt, Conn, GoodAttempt
<1>3. ASSUME c # NoConn PROVE from'[c] = from[c] /\ to'[c] = to[c]
  BY <1>2, <1>3 DEF ConnKept
<1> QED
  BY <1>2, <1>3 DEF GoodAttempt

\* What a step has to establish for the invariant: only what it changes.
LEMMA Frame ==
  ASSUME IInv, TypeOK', Kept,
         \A s \in Session : sess[s] = "none" /\ sess'[s] # "none" => s[1] <= opened,
         \A s \in Session :
           wire'[s] = wire[s] \/ wire'[s] \in Seq(GoodPacket(s)' \cup {Fin}),
         \A n \in Node :
           packets'[n] = packets[n] \/ packets'[n] \in Seq(GoodArrival(n)'),
         \A n \in Node :
           handler'[n] = handler[n] \/ handler'[n] \in GoodHandler(n)' \cup {Idle},
         \A n, h \in Node : GoodAttempt(n, h)',
         \A n, m \in Node :
           infos'[n][m] \in {infos[n][m], NoSession} \/ GoodInfo(n, m)'
  PROVE  IInv'
<1>1. ASSUME NEW s \in Session, sess'[s] # "none" PROVE s[1] <= opened'
  BY <1>1, OwnerKept DEF IInv, Kept
<1>2. ASSUME NEW s \in Session PROVE wire'[s] \in Seq(GoodPacket(s)' \cup {Fin})
  <2>1. wire[s] \in Seq(GoodPacket(s) \cup {Fin})
    BY DEF IInv
  <2>2. GoodPacket(s) \cup {Fin} \subseteq GoodPacket(s)' \cup {Fin}
    BY GoodPacketKept DEF IInv
  <2> QED
    BY <2>1, <2>2, SeqMonotone
<1>3. ASSUME NEW n \in Node PROVE packets'[n] \in Seq(GoodArrival(n)')
  <2>1. packets[n] \in Seq(GoodArrival(n))
    BY DEF IInv
  <2>2. GoodArrival(n) \subseteq GoodArrival(n)'
    BY GoodArrivalKept DEF IInv
  <2> QED
    BY <2>1, <2>2, SeqMonotone
<1>4. ASSUME NEW n \in Node PROVE handler'[n] \in GoodHandler(n)' \cup {Idle}
  BY GoodHandlerKept DEF IInv
<1>5. ASSUME NEW n \in Node, NEW m \in Node PROVE GoodInfo(n, m)'
  BY GoodInfoKept DEF IInv
<1>6. Fin' = Fin /\ Idle' = Idle
  BY DEF Fin, Idle
<1> QED
  BY <1>1, <1>2, <1>3, <1>4, <1>5, <1>6 DEF IInv

\* The attempts of a step that concerns no attempt.
LEMMA AttemptsKept ==
  ASSUME IInv, ConnKept, UNCHANGED <<connecting, marking, sess>>
  PROVE  \A n, h \in Node : GoodAttempt(n, h)'
  BY AttemptKept DEF IInv

\* Steps that touch none of the variables of the invariant.
LEMMA QuietInv ==
  ASSUME IInv, TypeOK',
         UNCHANGED <<connVars, sess, nodeId, wire, infos, connecting, marking, packets, handler>>
  PROVE  IInv' /\ Kept
<1>1. Kept
  BY Unchanged DEF IInv, Kept
<1>2. \A n, h \in Node : GoodAttempt(n, h)'
  BY <1>1, AttemptsKept DEF Kept
<1>3. IInv'
  BY <1>1, <1>2, Frame
<1> QED
  BY <1>1, <1>3

-----------------------------------------------------------------------------
(* Every action preserves the inductive invariant.                         *)

\* The invariant holds when the processes start.
LEMMA InitInv == Init => IInv
<1> SUFFICES ASSUME Init PROVE IInv
  OBVIOUS
<1>1. TypeOK
  BY InitTypeOK
<1>2. \A s \in Session : sess[s] = "none" /\ wire[s] = << >>
  BY DEF Init
<1>3. \A n \in Node : packets[n] = << >> /\ handler[n] = Idle
  BY DEF Init
<1>4. \A n, h \in Node : connecting[n][h].fd = NoConn /\ infos[n][h] = NoSession
  BY DEF Init, NotConnecting
<1>5. \A n, h \in Node : GoodAttempt(n, h) /\ GoodInfo(n, h)
  BY <1>4 DEF GoodAttempt, GoodInfo
<1>6. \A s \in Session : wire[s] \in Seq(GoodPacket(s) \cup {Fin})
  BY <1>2, EmptySeq
<1>7. \A n \in Node : packets[n] \in Seq(GoodArrival(n)) /\ handler[n] = Idle
  BY <1>3, EmptySeq
<1>8. \A s \in Session : sess[s] # "none" => s[1] <= opened
  BY <1>2
<1> QED
  BY <1>1, <1>5, <1>6, <1>7, <1>8 DEF IInv

\* A new socket has a number no session has.
LEMMA StartConnectInv ==
  ASSUME IInv, TypeOK', NEW n \in Node, NEW h \in Hosts[n], StartConnect(n, h)
  PROVE  IInv' /\ Kept
<1> DEFINE c == opened + 1
<1>1. h \in Node /\ opened \in Nat /\ MaxConn \in Nat /\ c \in Conn
  BY HostsAssumption, BoundAssumption DEF IInv, TypeOK, StartConnect, Conn
<1>2. /\ opened' = c
      /\ from' = [from EXCEPT ![c] = n] /\ to' = [to EXCEPT ![c] = h]
      /\ from \in [Conn -> Node \cup {NoNode}] /\ to \in [Conn -> Node \cup {NoNode}]
  BY DEF StartConnect, IInv, TypeOK
<1>3. ConnKept
  BY <1>1, <1>2 DEF ConnKept, Conn
<1>4. Kept
  BY <1>3, Unchanged DEF Kept, StartConnect, sessVars, IInv
<1>5. sess[<<c, "out">>] = "none"
  <2>1. <<c, "out">> \in Session /\ ~(c <= opened)
    BY <1>1 DEF Session
  <2> QED
    BY <2>1 DEF IInv
<1>6. ASSUME NEW a \in Node, NEW b \in Node PROVE GoodAttempt(a, b)'
  <2>1. CASE a = n /\ b = h
    <3>1. connecting'[n][h] = [fd |-> c, waiting |-> FALSE]
      BY <1>1 DEF StartConnect, IInv, TypeOK
    <3>2. from'[c] = n /\ to'[c] = h /\ sess'[<<c, "out">>] = "none"
      BY <1>1, <1>2, <1>5 DEF StartConnect, sessVars
    <3> QED
      BY <1>1, <1>2, <2>1, <3>1, <3>2 DEF GoodAttempt
  <2>2. CASE ~(a = n /\ b = h)
    <3>1. connecting'[a][b] = connecting[a][b]
      BY <2>2, <1>1 DEF StartConnect, IInv, TypeOK
    <3> QED
      BY <3>1, <1>3, AttemptKept DEF IInv, StartConnect, sessVars
  <2> QED
    BY <2>1, <2>2
<1>7. IInv'
  BY <1>4, <1>6, Frame DEF StartConnect, sessVars
<1> QED
  BY <1>4, <1>7

\* The connect handler runs once per socket; its ClientInfo names the opener.
LEMMA ConnectedInv ==
  ASSUME IInv, TypeOK', NEW n \in Node, NEW h \in Hosts[n], Connected(n, h)
  PROVE  IInv' /\ Kept
<1> DEFINE c == connecting[n][h].fd
<1>1. /\ h \in Node /\ c \in Conn /\ c # NoConn
      /\ ~connecting[n][h].waiting /\ marking[n] = NoNode /\ h # NoNode
  BY HostsAssumption, NodeAssumption
  DEF Connected, Selecting, IInv, TypeOK, Attempt, NoNode
<1>2. c <= opened /\ from[c] = n /\ to[c] = h /\ sess[<<c, "out">>] = "none"
  BY <1>1 DEF IInv, GoodAttempt
<1>3. <<c, "out">> \in Session /\ <<c, "in">> \in Session
  BY <1>1 DEF Session
<1> HIDE DEF c
<1>4. /\ sess' = [sess EXCEPT ![<<c, "out">>] = "open"]
      /\ wire' = [wire EXCEPT ![<<c, "in">>] = Append(@, ClientInfo(n))]
      /\ marking' = [marking EXCEPT ![n] = h]
      /\ UNCHANGED <<connVars, nodeId, infos, connecting, packets, handler>>
  BY DEF Connected, c
<1>5. SessKept
  BY <1>2, <1>4 DEF SessKept, IInv, TypeOK
<1>6. Kept
  BY <1>4, <1>5, Unchanged DEF Kept, IInv
<1>7. ASSUME NEW a \in Node, NEW b \in Node PROVE GoodAttempt(a, b)'
  <2>1. CASE a = n /\ b = h
    <3>1. connecting'[a][b] = connecting[a][b] /\ marking'[n] = h
      BY <1>1, <1>4 DEF IInv, TypeOK
    <3> QED
      BY <1>1, <1>2, <1>4, <2>1, <3>1 DEF GoodAttempt, c, connVars
  <2>2. CASE ~(a = n /\ b = h)
    <3> DEFINE d == connecting[a][b].fd
    <3>1. GoodAttempt(a, b) /\ connecting'[a][b] = connecting[a][b]
      BY <1>4 DEF IInv
    <3>2. d # NoConn => d <= opened /\ from[d] = a /\ to[d] = b
      BY <3>1 DEF GoodAttempt
    <3>3. d # NoConn => d # c
      BY <3>2, <1>2, <2>2
    <3>4. sess'[<<d, "out">>] = sess[<<d, "out">>] \/ d = NoConn
      BY <3>3, <1>4, <1>3 DEF IInv, TypeOK
    <3>5. CASE d = NoConn
      BY <3>1, <3>5 DEF GoodAttempt
    <3>6. CASE d # NoConn
      <4>1. \/ marking'[a] = marking[a]
            \/ a = n /\ marking[a] = NoNode /\ marking'[a] = h
        BY <1>1, <1>4 DEF IInv, TypeOK
      <4>2. ~connecting[a][b].waiting /\ marking'[a] # b => sess[<<d, "out">>] = "none"
        <5>1. b # NoNode
          BY NodeAssumption DEF NoNode
        <5> QED
          BY <3>1, <3>6, <4>1, <1>1, <5>1 DEF GoodAttempt
      <4> QED
        BY <3>1, <3>2, <3>4, <3>6, <4>2, <1>4 DEF GoodAttempt, connVars
    <3> QED
      BY <3>5, <3>6
  <2> QED
    BY <2>1, <2>2
<1>8. ASSUME NEW s \in Session
      PROVE  wire'[s] = wire[s] \/ wire'[s] \in Seq(GoodPacket(s)' \cup {Fin})
  <2>1. CASE s # <<c, "in">>
    BY <2>1, <1>4 DEF IInv, TypeOK
  <2>2. CASE s = <<c, "in">>
    <3>1. wire'[s] = Append(wire[s], ClientInfo(n))
      BY <2>2, <1>4 DEF IInv, TypeOK
    <3>2. Owner(Peer(s)) = n /\ s[1] <= opened /\ s[2] = "in"
      BY <2>2, <1>2 DEF Owner, Peer
    <3>3. ClientInfo(n) \in GoodPacket(s)
      BY <3>2 DEF GoodPacket, ClientInfo, Packet, Result
    <3>4. wire[s] \in Seq(GoodPacket(s) \cup {Fin})
      BY DEF IInv
    <3>5. wire'[s] \in Seq(GoodPacket(s) \cup {Fin})
      BY <3>1, <3>3, <3>4
    <3>6. GoodPacket(s) \cup {Fin} \subseteq GoodPacket(s)' \cup {Fin}
      BY <1>6, GoodPacketKept DEF IInv
    <3> QED
      BY <3>5, <3>6, SeqMonotone
  <2> QED
    BY <2>1, <2>2
<1>9. \A s \in Session : sess[s] = "none" /\ sess'[s] # "none" => s[1] <= opened
  BY <1>2, <1>4 DEF IInv, TypeOK
<1>10. IInv'
  BY <1>4, <1>6, <1>7, <1>8, <1>9, Frame
<1> QED
  BY <1>6, <1>10

\* The write through the iterator, dangling or not.
LEMMA MarkWaitingInv ==
  ASSUME IInv, TypeOK', NEW n \in Node, MarkWaiting(n) PROVE IInv' /\ Kept
<1> DEFINE h == marking[n]
<1>1. h \in Node /\ marking' = [marking EXCEPT ![n] = NoNode]
  BY DEF MarkWaiting, IInv, TypeOK
<1>2. UNCHANGED <<connVars, sess, nodeId, wire, infos, packets, handler>>
  BY DEF MarkWaiting, sessVars
<1>3. Kept
  BY <1>2, Unchanged DEF Kept, IInv
<1> HIDE DEF h
<1>4. ASSUME NEW a \in Node, NEW b \in Node PROVE GoodAttempt(a, b)'
  <2>1. /\ connecting \in [Node -> [Node -> Attempt]]
        /\ connecting[a][b] \in Attempt /\ GoodAttempt(a, b)
    BY DEF IInv, TypeOK
  <2>2. \/ connecting' = [connecting EXCEPT ![n][h].waiting = TRUE]
        \/ connecting[n][h] = NotConnecting /\ UNCHANGED connecting
    BY DEF MarkWaiting, h
  <2>4. CASE a = n /\ b = h
    <3>1. CASE connecting' = [connecting EXCEPT ![n][h].waiting = TRUE]
      <4>1. connecting'[a][b] = [connecting[a][b] EXCEPT !.waiting = TRUE]
        BY <1>1, <2>1, <2>4, <3>1
      <4>2. connecting'[a][b].fd = connecting[a][b].fd /\ connecting'[a][b].waiting
        BY <2>1, <4>1 DEF Attempt
      <4> QED
        BY <1>2, <2>1, <4>2 DEF GoodAttempt, connVars
    <3>2. CASE connecting[n][h] = NotConnecting /\ UNCHANGED connecting
      <4>1. connecting'[a][b].fd = NoConn
        BY <2>4, <3>2 DEF NotConnecting
      <4> QED
        BY <4>1 DEF GoodAttempt
    <3> QED
      BY <2>2, <3>1, <3>2
  <2>5. CASE ~(a = n /\ b = h)
    <3>1. connecting'[a][b] = connecting[a][b]
      BY <1>1, <2>1, <2>2, <2>5
    <3>2. marking'[a] # b => marking[a] # b
      BY <1>1, <2>5 DEF IInv, TypeOK, h
    <3> QED
      BY <1>2, <2>1, <3>1, <3>2 DEF GoodAttempt, connVars
  <2> QED
    BY <2>4, <2>5
<1>5. IInv'
  BY <1>2, <1>3, <1>4, Frame
<1> QED
  BY <1>3, <1>5

\* Steps that end attempts.
LEMMA AttemptsEnded ==
  ASSUME IInv, ConnKept, UNCHANGED <<marking, sess>>,
         \A a, b \in Node : connecting'[a][b] \in {connecting[a][b], NotConnecting}
  PROVE  \A a, b \in Node : GoodAttempt(a, b)'
<1> SUFFICES ASSUME NEW a \in Node, NEW b \in Node PROVE GoodAttempt(a, b)'
  OBVIOUS
<1>1. CASE connecting'[a][b] = NotConnecting
  BY <1>1 DEF NotConnecting, GoodAttempt
<1>2. CASE connecting'[a][b] = connecting[a][b]
  BY <1>2, AttemptKept DEF IInv
<1> QED
  BY <1>1, <1>2

\* A failed connect ends the attempt.
LEMMA RefusedInv ==
  ASSUME IInv, TypeOK', NEW n \in Node, NEW h \in Hosts[n], Refused(n, h)
  PROVE  IInv' /\ Kept
<1>1. UNCHANGED <<connVars, sess, nodeId, wire, infos, marking, packets, handler>>
  BY DEF Refused, sessVars
<1>2. Kept
  BY <1>1, Unchanged DEF Kept, IInv
<1>3. \A a, b \in Node : connecting'[a][b] \in {connecting[a][b], NotConnecting}
  BY DEF Refused, IInv, TypeOK
<1>4. \A a, b \in Node : GoodAttempt(a, b)'
  BY <1>1, <1>2, <1>3, AttemptsEnded DEF Kept
<1>5. IInv'
  BY <1>1, <1>2, <1>4, Frame
<1> QED
  BY <1>2, <1>5

\* The acceptor creates the session of the other end.
LEMMA AcceptInv ==
  ASSUME IInv, TypeOK', NEW c \in Conn, Accept(c) PROVE IInv' /\ Kept
<1>1. /\ <<c, "in">> \in Session /\ c <= opened
      /\ sess' = [sess EXCEPT ![<<c, "in">>] = "open"] /\ sess[<<c, "in">>] = "none"
  BY DEF Accept, Session
<1>2. UNCHANGED <<connVars, nodeId, wire, infos, connecting, marking, packets, handler>>
  BY DEF Accept, nodeVars
<1>3. SessKept
  BY <1>1 DEF SessKept, IInv, TypeOK
<1>4. Kept
  BY <1>2, <1>3, Unchanged DEF Kept, IInv
<1>5. \A d : sess'[<<d, "out">>] = sess[<<d, "out">>]
  BY <1>1 DEF IInv, TypeOK
<1>6. ASSUME NEW a \in Node, NEW b \in Node PROVE GoodAttempt(a, b)'
  BY <1>2, <1>4, <1>5, AttemptKept DEF IInv, Kept
<1>7. \A s \in Session : sess[s] = "none" /\ sess'[s] # "none" => s[1] <= opened
  BY <1>1 DEF IInv, TypeOK
<1>8. IInv'
  BY <1>2, <1>4, <1>6, <1>7, Frame
<1> QED
  BY <1>4, <1>8

\* A packet that was true on the wire is true in the queue.
LEMMA ReceiveInv ==
  ASSUME IInv, TypeOK', NEW s \in Session, Receive(s) PROVE IInv' /\ Kept
<1> DEFINE n == Owner(s)
           p == Head(wire[s])
<1>1. UNCHANGED <<connVars, sess, nodeId, infos, connecting, marking, handler>>
  BY DEF Receive
<1>2. Kept
  BY <1>1, Unchanged DEF Kept, IInv
<1>3. \A a, b \in Node : GoodAttempt(a, b)'
  BY <1>1, <1>2, AttemptsKept DEF Kept
<1>4. wire[s] \in Seq(GoodPacket(s) \cup {Fin}) /\ wire[s] # << >> /\ sess[s] = "open"
  BY DEF Receive, IInv
<1>5. p \in GoodPacket(s) \cup {Fin} /\ Tail(wire[s]) \in Seq(GoodPacket(s) \cup {Fin})
  BY <1>4, HeadTail
<1>6. ASSUME NEW t \in Session
      PROVE  wire'[t] = wire[t] \/ wire'[t] \in Seq(GoodPacket(t)' \cup {Fin})
  <2>1. wire' = [wire EXCEPT ![s] = Tail(wire[s])]
    BY DEF Receive
  <2>2. CASE t # s
    BY <2>1, <2>2 DEF IInv, TypeOK
  <2>3. CASE t = s
    <3>1. wire'[t] \in Seq(GoodPacket(t) \cup {Fin})
      BY <1>5, <2>1, <2>3 DEF IInv, TypeOK
    <3>2. GoodPacket(t) \cup {Fin} \subseteq GoodPacket(t)' \cup {Fin}
      BY <1>2, GoodPacketKept DEF IInv
    <3> QED
      BY <3>1, <3>2, SeqMonotone
  <2> QED
    BY <2>2, <2>3
<1>7. ASSUME NEW m \in Node
      PROVE  packets'[m] = packets[m] \/ packets'[m] \in Seq(GoodArrival(m)')
  <2> DEFINE e == [session |-> s, packet |-> p]
  <2>1. CASE p = Fin
    BY <2>1 DEF Receive
  <2>2. CASE p # Fin
    <3>1. packets' = [packets EXCEPT ![n] = Append(packets[n], e)]
      BY <2>2 DEF Receive
    <3>2. CASE m # n
      BY <3>1, <3>2 DEF IInv, TypeOK
    <3>3. CASE m = n
      <4>1. p \in GoodPacket(s)
        BY <1>5, <2>2
      <4>2. s \in SessionsOf(n) /\ p \in Packet
        BY <4>1 DEF GoodPacket, SessionsOf
      <4>3. e \in GoodArrival(n)
        BY <1>4, <4>1, <4>2 DEF GoodArrival, Arrival
      <4>4. packets[n] \in Seq(GoodArrival(n))
        BY <3>3 DEF IInv
      <4> HIDE DEF e, n
      <4>5. packets'[m] \in Seq(GoodArrival(m))
        BY <3>1, <3>3, <4>3, <4>4 DEF IInv, TypeOK
      <4>6. GoodArrival(m) \subseteq GoodArrival(m)'
        BY <1>2, GoodArrivalKept DEF IInv
      <4> QED
        BY <4>5, <4>6, SeqMonotone
    <3> QED
      BY <3>2, <3>3
  <2> QED
    BY <2>1, <2>2
<1> HIDE DEF n, p
<1>8. IInv'
  BY <1>1, <1>2, <1>3, <1>6, <1>7, Frame
<1> QED
  BY <1>2, <1>8

\* A busy handler knows who it talks to.
LEMMA AtStepGood ==
  ASSUME IInv, NEW n \in Node, NEW step \in Step, AtStep(n, step)
  PROVE  handler[n] \in GoodHandler(n)
<1>1. Idle.step \notin Step
  BY DEF Idle, Step
<1> QED
  BY <1>1 DEF AtStep, IInv

\* What a handler in progress knows.
LEMMA GoodHandlerFacts ==
  ASSUME TypeOK, NEW n \in Node, NEW b \in GoodHandler(n)
  PROVE  /\ b \in Busy /\ b.session \in Session /\ b.id \in Node /\ b.result \in Result
         /\ b.session \in SessionsOf(n) /\ b.session[1] <= opened
         /\ Owner(b.session) = n /\ sess[b.session] # "none"
         /\ b.id = Owner(Peer(b.session)) /\ nodeId[b.session] = b.id
  BY DEF GoodHandler, SessionsOf, Busy

\* Steps of the service thread of n that change no session state.
LEMMA HandlerFrame ==
  ASSUME IInv, TypeOK', Kept, NEW n \in Node, NEW b \in GoodHandler(n)' \cup {Idle},
         UNCHANGED <<sess, wire, marking, packets>>,
         handler' = [handler EXCEPT ![n] = b],
         \A a, h \in Node : connecting'[a][h] \in {connecting[a][h], NotConnecting},
         \A a, m \in Node : infos'[a][m] \in {infos[a][m], NoSession} \/ GoodInfo(a, m)'
  PROVE  IInv'
<1>1. \A a, h \in Node : GoodAttempt(a, h)'
  BY AttemptsEnded DEF Kept
<1>2. ASSUME NEW m \in Node
      PROVE  handler'[m] = handler[m] \/ handler'[m] \in GoodHandler(m)' \cup {Idle}
  BY DEF IInv, TypeOK
<1> QED
  BY <1>1, <1>2, Frame

\* The handler learns from a true packet who it talks to.
LEMMA BeginHandlerInv ==
  ASSUME IInv, TypeOK', NEW n \in Node, BeginHandler(n) PROVE IInv' /\ Kept
<1>1. packets[n] \in Seq(GoodArrival(n)) /\ packets[n] # << >>
  BY DEF BeginHandler, IInv
<1>a. PICK a \in GoodArrival(n) : a = Head(packets[n])
  BY <1>1, HeadTail
<1>2. Tail(packets[n]) \in Seq(GoodArrival(n))
  BY <1>1, HeadTail
<1> DEFINE s == a.session
           p == a.packet
           b == [session |-> s, id |-> p.id, result |-> p.result,
                 step |-> IF p.kind = "ClientInfo" THEN "register" ELSE "reply"]
<1>3. /\ s \in Session /\ s \in SessionsOf(n) /\ s[1] <= opened /\ Owner(s) = n
      /\ sess[s] # "none" /\ p \in GoodPacket(s)
  BY DEF GoodArrival, SessionsOf
<1>4. /\ p \in Packet /\ p.id \in Node /\ p.result \in Result
      /\ p.id = Owner(Peer(s))
      /\ p.kind = IF s[2] = "in" THEN "ClientInfo" ELSE "ClientInfoReply"
      /\ s[2] = "out" /\ p.result = 0 => Owner(s) # Owner(Peer(s)) /\ Agreed(s)
  BY <1>3 DEF GoodPacket, Packet
<1>5. UNCHANGED <<connVars, sess, wire, infos, connecting, marking>>
  BY DEF BeginHandler
<1>6. /\ packets' = [packets EXCEPT ![n] = Tail(packets[n])]
      /\ \/ UNCHANGED <<nodeId, handler>>
         \/ nodeId' = [nodeId EXCEPT ![s] = p.id] /\ handler' = [handler EXCEPT ![n] = b]
  BY <1>a DEF BeginHandler, SetNodeId
<1>7. s[2] \in {"in", "out"}
  BY <1>3, PeerFacts
<1> HIDE DEF s, p
<1>8. NodeIdKept
  BY <1>3, <1>4, <1>6 DEF NodeIdKept, IInv, TypeOK
<1>9. Kept
  BY <1>5, <1>8, Unchanged DEF Kept, IInv
<1>10. ASSUME NEW m \in Node
       PROVE  packets'[m] = packets[m] \/ packets'[m] \in Seq(GoodArrival(m)')
  <2>1. CASE m # n
    BY <1>6, <2>1 DEF IInv, TypeOK
  <2>2. CASE m = n
    <3>1. packets'[m] \in Seq(GoodArrival(m))
      BY <1>2, <1>6, <2>2 DEF IInv, TypeOK
    <3>2. GoodArrival(m) \subseteq GoodArrival(m)'
      BY <1>9, GoodArrivalKept DEF IInv
    <3> QED
      BY <3>1, <3>2, SeqMonotone
  <2> QED
    BY <2>1, <2>2
<1>11. ASSUME handler' # handler PROVE b \in GoodHandler(n)'
  <2>1. nodeId'[s] = p.id
    BY <1>3, <1>6, <1>11 DEF IInv, TypeOK
  <2>2. s \in SessionsOf(n)' /\ Owner(Peer(s))' = p.id /\ sess'[s] # "none"
    BY <1>3, <1>4, <1>5, <1>9, SessionsOfKept, OwnerKept DEF IInv, Kept
  <2>3. Agreed(s) => Agreed(s)'
    BY <1>3, <1>9, AgreedKept DEF IInv
  <2>4. b \in Busy
    BY <1>3, <1>4 DEF Busy, Step
  <2>5. b.step \in {"register", "reply"} /\ (b.step = "register" <=> s[2] = "in")
    BY <1>4, <1>7
  <2>6. b.session = s /\ b.id = p.id /\ b.result = p.result
    OBVIOUS
  <2> HIDE DEF b
  <2>7. b.step = "reply" /\ b.result = 0 => b.id # n /\ Agreed(s)'
    BY <1>3, <1>4, <1>7, <2>3, <2>5, <2>6
  <2>8. s[2] = IF b.step \in {"register", "answer"} THEN "in" ELSE "out"
    BY <1>7, <2>5
  <2> QED
    BY <2>1, <2>2, <2>4, <2>5, <2>6, <2>7, <2>8 DEF GoodHandler
<1>12. ASSUME NEW m \in Node
       PROVE  handler'[m] = handler[m] \/ handler'[m] \in GoodHandler(m)' \cup {Idle}
  <2> HIDE DEF b
  <2> QED
    BY <1>6, <1>11 DEF IInv, TypeOK
<1>13. \A x, h \in Node : GoodAttempt(x, h)'
  BY <1>5, <1>9, AttemptsKept DEF Kept
<1>14. IInv'
  BY <1>5, <1>9, <1>10, <1>12, <1>13, Frame
<1> QED
  BY <1>9, <1>14

\* addHostIdInfo never replaces a registration.
LEMMA AddHostIdInfoKept ==
  ASSUME TypeOK, NEW n \in Node, NEW id \in Node, NEW s \in Session, AddHostIdInfo(n, id, s)
  PROVE  /\ InfoKept
         /\ \A a, m \in Node : infos'[a][m] = infos[a][m] \/ (a = n /\ m = id /\ infos'[a][m] = s)
         /\ infos[n][id] = NoSession => infos'[n][id] = s
<1>1. infos \in [Node -> [Node -> Session \cup {NoSession}]]
  BY DEF TypeOK
<1>2. \/ infos[n][id] = NoSession /\ infos' = [infos EXCEPT ![n][id] = s]
      \/ infos[n][id] # NoSession /\ infos' = infos
  BY DEF AddHostIdInfo
<1>3. \A a, m \in Node : infos'[a][m] = infos[a][m] \/ (a = n /\ m = id /\ infos'[a][m] = s)
  BY <1>1, <1>2
<1>4. infos[n][id] = NoSession => infos'[n][id] = s
  BY <1>1, <1>2
<1>5. InfoKept
  BY <1>2, <1>3 DEF InfoKept
<1> QED
  BY <1>3, <1>4, <1>5

\* A client that is answered 0 has just been registered.
LEMMA RegisterClientInv ==
  ASSUME IInv, TypeOK', NEW n \in Node, RegisterClient(n) PROVE IInv' /\ Kept
<1>1. handler[n] \in GoodHandler(n) /\ handler[n].step = "register"
  BY AtStepGood DEF RegisterClient, Step, AtStep
<1>2. PICK b \in GoodHandler(n) : b = handler[n] /\ b.step = "register"
  BY <1>1
<1>3. PICK s \in Session, id \in Node : s = b.session /\ id = b.id
  BY GoodHandlerFacts DEF IInv
<1>4. /\ b \in Busy /\ s \in SessionsOf(n) /\ s[1] <= opened /\ sess[s] # "none"
      /\ id = Owner(Peer(s)) /\ nodeId[s] = id /\ s[2] = "in"
  BY <1>2, <1>3, GoodHandlerFacts DEF IInv, GoodHandler
<1>5. UNCHANGED <<connVars, sess, nodeId, wire, connecting, marking, packets>>
  BY DEF RegisterClient, sessVars
<1>6. \/ id = n /\ UNCHANGED infos
      \/ id # n /\ AddHostIdInfo(n, id, s)
  BY <1>2, <1>3 DEF RegisterClient
<1>7. InfoKept
  BY <1>6, AddHostIdInfoKept, Unchanged DEF IInv
<1>8. Kept
  BY <1>5, <1>7, Unchanged DEF Kept, IInv
<1>9. s \in SessionsOf(n)' /\ sess'[s] # "none" /\ Owner(Peer(s))' = id /\ nodeId'[s] = id
  BY <1>4, <1>5, <1>8, SessionsOfKept, OwnerKept DEF IInv, Kept
<1>10. ASSUME NEW a \in Node, NEW m \in Node
       PROVE  infos'[a][m] \in {infos[a][m], NoSession} \/ GoodInfo(a, m)'
  <2>1. CASE infos'[a][m] # infos[a][m]
    <3>1. a = n /\ m = id /\ id # n /\ infos'[a][m] = s
      BY <1>6, <2>1, AddHostIdInfoKept DEF IInv
    <3> QED
      BY <1>4, <1>9, <3>1 DEF GoodInfo
  <2> QED
    BY <2>1
<1>11. PICK result \in Result :
         /\ result = ReplyResult(n, id)
         /\ result = 0 => id # n /\ infos[n][id] = NoSession
  <2>1. ReplyResult(n, id) \in Result
    BY DEF ReplyResult, Result
  <2>2. ReplyResult(n, id) = 0 => id # n /\ infos[n][id] = NoSession
    BY DEF ReplyResult
  <2> QED
    BY <2>1, <2>2
<1>12. PICK d : d = [b EXCEPT !.result = result, !.step = "answer"]
  OBVIOUS
<1>13. handler' = [handler EXCEPT ![n] = d]
  BY <1>2, <1>3, <1>11, <1>12 DEF RegisterClient
<1>14. d \in GoodHandler(n)'
  <2>1. /\ d \in Busy /\ d.session = s /\ d.id = id /\ d.result = result
        /\ d.step = "answer"
    BY <1>3, <1>4, <1>12 DEF Busy, Step
  <2>2. result = 0 => id # n /\ infos'[n][id] = s
    BY <1>6, <1>11, AddHostIdInfoKept DEF IInv
  <2> QED
    BY <1>4, <1>9, <2>1, <2>2 DEF GoodHandler
<1>15. IInv'
  BY <1>5, <1>8, <1>10, <1>13, <1>14, HandlerFrame
<1> QED
  BY <1>8, <1>15

\* The answer 0 tells the opener a truth.
LEMMA AnswerClientInv ==
  ASSUME IInv, TypeOK', NEW n \in Node, AnswerClient(n) PROVE IInv' /\ Kept
<1>1. handler[n] \in GoodHandler(n) /\ handler[n].step = "answer"
  BY AtStepGood DEF AnswerClient, Step, AtStep
<1>2. PICK b \in GoodHandler(n) : b = handler[n] /\ b.step = "answer"
  BY <1>1
<1>3. PICK s \in Session, t \in Session : s = b.session /\ t = Peer(s)
  BY GoodHandlerFacts, PeerFacts DEF IInv
<1>4. /\ s[1] <= opened /\ Owner(s) = n /\ b.id = Owner(t) /\ s[2] = "in"
      /\ b.result = 0 => b.id # n /\ (infos[n][b.id] = s \/ sess[s] = "closed")
      /\ b.result \in Result
  BY <1>2, <1>3, GoodHandlerFacts DEF IInv, GoodHandler
<1>5. t[1] <= opened /\ Peer(t) = s /\ t[2] = "out"
  BY <1>3, <1>4, PeerFacts
<1>6. UNCHANGED <<connVars, sess, nodeId, infos, connecting, marking, packets>>
  BY DEF AnswerClient
<1>7. Kept
  BY <1>6, Unchanged DEF Kept, IInv
<1> DEFINE p == ClientInfoReply(n, b.result)
<1>8. p \in GoodPacket(t)
  <2>1. b.result = 0 => Owner(t) # Owner(Peer(t)) /\ Agreed(t)
    BY <1>4, <1>5 DEF Agreed
  <2>2. /\ p \in Packet /\ p.id = n /\ p.kind = "ClientInfoReply" /\ p.result = b.result
    BY <1>4 DEF ClientInfoReply, Packet
  <2> QED
    BY <1>4, <1>5, <2>1, <2>2 DEF GoodPacket
<1>9. UNCHANGED wire \/ wire' = [wire EXCEPT ![t] = Append(wire[t], p)]
  BY <1>2, <1>3 DEF AnswerClient, Send
<1> HIDE DEF p
<1>10. ASSUME NEW u \in Session
       PROVE  wire'[u] = wire[u] \/ wire'[u] \in Seq(GoodPacket(u)' \cup {Fin})
  <2>1. CASE wire'[u] # wire[u]
    <3>1. u = t /\ wire'[u] = Append(wire[u], p)
      BY <1>9, <2>1 DEF IInv, TypeOK
    <3>2. wire[u] \in Seq(GoodPacket(u) \cup {Fin})
      BY DEF IInv
    <3>3. wire'[u] \in Seq(GoodPacket(u) \cup {Fin})
      BY <1>8, <3>1, <3>2
    <3>4. GoodPacket(u) \cup {Fin} \subseteq GoodPacket(u)' \cup {Fin}
      BY <1>7, GoodPacketKept DEF IInv
    <3> QED
      BY <3>3, <3>4, SeqMonotone
  <2> QED
    BY <2>1
<1>11. ASSUME NEW m \in Node PROVE handler'[m] = handler[m] \/ handler'[m] = Idle
  BY DEF AnswerClient, Return, IInv, TypeOK
<1>12. \A x, h \in Node : GoodAttempt(x, h)'
  BY <1>6, <1>7, AttemptsKept DEF Kept
<1>13. IInv'
  BY <1>6, <1>7, <1>10, <1>11, <1>12, Frame
<1> QED
  BY <1>7, <1>13

\* A reply handler that goes on has an accepted connection to another node.
LEMMA GoToGood ==
  ASSUME TypeOK, TypeOK', Kept, NEW n \in Node, NEW b \in GoodHandler(n), b.id # n,
         Agreed(b.session), b.session[2] = "out",
         NEW step \in {"setHostId", "setHostConnected", "addInfo"}
  PROVE  [b EXCEPT !.step = step] \in GoodHandler(n)'
<1>1. PICK d : d = [b EXCEPT !.step = step]
  OBVIOUS
<1>2. d \in Busy /\ d.session = b.session /\ d.id = b.id /\ d.result = b.result /\ d.step = step
  BY <1>1, GoodHandlerFacts DEF Busy, Step
<1>3. d \in GoodHandler(n)
  BY <1>2 DEF GoodHandler
<1> QED
  BY <1>1, <1>3, GoodHandlerKept

\* Only an accepted connection is going to be registered.
LEMMA HandleReplyInv ==
  ASSUME IInv, TypeOK', NEW n \in Node, HandleReply(n) PROVE IInv' /\ Kept
<1>1. handler[n] \in GoodHandler(n) /\ handler[n].step = "reply"
  BY AtStepGood DEF HandleReply, Step, AtStep
<1>2. PICK b \in GoodHandler(n) : b = handler[n] /\ b.step = "reply"
  BY <1>1
<1>3. UNCHANGED <<connVars, sess, nodeId, wire, infos, connecting, marking, packets>>
  BY DEF HandleReply, sessVars
<1>4. Kept
  BY <1>3, Unchanged DEF Kept, IInv
<1>5. \/ handler' = [handler EXCEPT ![n] = Idle]
      \/ b.result = 0 /\ handler' = [handler EXCEPT ![n] = [b EXCEPT !.step = "setHostId"]]
  BY <1>2 DEF HandleReply, Return, GoTo
<1>6. b.session[2] = "out" /\ (b.result = 0 => b.id # n /\ Agreed(b.session))
  BY <1>2 DEF GoodHandler
<1>7. b.result = 0 => [b EXCEPT !.step = "setHostId"] \in GoodHandler(n)'
  BY <1>4, <1>6, GoToGood DEF IInv
<1>8. IInv'
  BY <1>3, <1>4, <1>5, <1>7, HandlerFrame
<1> QED
  BY <1>4, <1>8

\* The host's id is set for an accepted connection.
LEMMA SetHostIdInv ==
  ASSUME IInv, TypeOK', NEW n \in Node, SetHostId(n) PROVE IInv' /\ Kept
<1>1. handler[n] \in GoodHandler(n) /\ handler[n].step = "setHostId"
  BY AtStepGood DEF SetHostId, Step, AtStep
<1>2. PICK b \in GoodHandler(n) : b = handler[n] /\ b.step = "setHostId"
  BY <1>1
<1>3. UNCHANGED <<connVars, sess, nodeId, wire, infos, connecting, marking, packets>>
  BY DEF SetHostId, sessVars
<1>4. Kept
  BY <1>3, Unchanged DEF Kept, IInv
<1>5. handler' = [handler EXCEPT ![n] = [b EXCEPT !.step = "setHostConnected"]]
  BY <1>2 DEF SetHostId, GoTo
<1>6. b.session[2] = "out" /\ b.id # n /\ Agreed(b.session)
  BY <1>2 DEF GoodHandler
<1>7. [b EXCEPT !.step = "setHostConnected"] \in GoodHandler(n)'
  BY <1>4, <1>6, GoToGood DEF IInv
<1>8. IInv'
  BY <1>3, <1>4, <1>5, <1>7, HandlerFrame
<1> QED
  BY <1>4, <1>8

\* The attempt ends; the handler goes on with an accepted connection.
LEMMA SetHostConnectedInv ==
  ASSUME IInv, TypeOK', NEW n \in Node, SetHostConnected(n) PROVE IInv' /\ Kept
<1>1. handler[n] \in GoodHandler(n) /\ handler[n].step = "setHostConnected"
  BY AtStepGood DEF SetHostConnected, Step, AtStep
<1>2. PICK b \in GoodHandler(n) : b = handler[n] /\ b.step = "setHostConnected"
  BY <1>1
<1>3. UNCHANGED <<connVars, sess, nodeId, wire, infos, marking, packets>>
  BY DEF SetHostConnected, sessVars
<1>4. Kept
  BY <1>3, Unchanged DEF Kept, IInv
<1>5. \/ handler' = [handler EXCEPT ![n] = Idle]
      \/ handler' = [handler EXCEPT ![n] = [b EXCEPT !.step = "addInfo"]]
  BY <1>2 DEF SetHostConnected, GoTo, Return
<1>6. b.session[2] = "out" /\ b.id # n /\ Agreed(b.session)
  BY <1>2 DEF GoodHandler
<1>7. [b EXCEPT !.step = "addInfo"] \in GoodHandler(n)'
  BY <1>4, <1>6, GoToGood DEF IInv
<1>8. \A x, h \in Node : connecting'[x][h] \in {connecting[x][h], NotConnecting}
  <2>1. \/ UNCHANGED connecting
        \/ connecting' = [connecting EXCEPT ![n][PeerHost(handler[n].session)] = NotConnecting]
    BY DEF SetHostConnected
  <2>2. connecting \in [Node -> [Node -> Attempt]]
    BY DEF IInv, TypeOK
  <2> QED
    BY <2>1, <2>2
<1>9. IInv'
  BY <1>3, <1>4, <1>5, <1>7, <1>8, HandlerFrame
<1> QED
  BY <1>4, <1>9

\* What the opener registers, the other end has registered.
LEMMA RegisterServerInv ==
  ASSUME IInv, TypeOK', NEW n \in Node, RegisterServer(n) PROVE IInv' /\ Kept
<1>1. handler[n] \in GoodHandler(n) /\ handler[n].step = "addInfo"
  BY AtStepGood DEF RegisterServer, Step, AtStep
<1>2. PICK b \in GoodHandler(n) : b = handler[n] /\ b.step = "addInfo"
  BY <1>1
<1>3. PICK s \in Session, id \in Node : s = b.session /\ id = b.id
  BY GoodHandlerFacts DEF IInv
<1>4. /\ s \in SessionsOf(n) /\ s[1] <= opened /\ sess[s] # "none"
      /\ id = Owner(Peer(s)) /\ nodeId[s] = id /\ id # n /\ Agreed(s)
  BY <1>2, <1>3, GoodHandlerFacts DEF IInv, GoodHandler
<1>5. UNCHANGED <<connVars, sess, nodeId, wire, connecting, marking, packets>>
  BY DEF RegisterServer, sessVars
<1>6. AddHostIdInfo(n, id, s)
  BY <1>2, <1>3 DEF RegisterServer
<1>7. Kept
  BY <1>5, <1>6, AddHostIdInfoKept, Unchanged DEF Kept, IInv
<1>8. /\ s \in SessionsOf(n)' /\ sess'[s] # "none" /\ Owner(Peer(s))' = id
      /\ nodeId'[s] = id /\ Agreed(s)'
  BY <1>4, <1>5, <1>7, SessionsOfKept, OwnerKept, AgreedKept DEF IInv, Kept
<1>9. ASSUME NEW a \in Node, NEW m \in Node
      PROVE  infos'[a][m] \in {infos[a][m], NoSession} \/ GoodInfo(a, m)'
  <2>1. CASE infos'[a][m] # infos[a][m]
    <3>1. a = n /\ m = id /\ infos'[a][m] = s
      BY <1>6, <2>1, AddHostIdInfoKept DEF IInv
    <3> QED
      BY <1>4, <1>8, <3>1 DEF GoodInfo
  <2> QED
    BY <2>1
<1>10. handler' = [handler EXCEPT ![n] = Idle]
  BY DEF RegisterServer, Return
<1>11. IInv'
  BY <1>5, <1>7, <1>9, <1>10, HandlerFrame
<1> QED
  BY <1>7, <1>11

\* close() only closes sessions and shortens or ends streams.
LEMMA CloseSocketsKept ==
  ASSUME IInv, NEW S \in SUBSET Session, CloseSockets(S)
  PROVE  /\ SessKept
         /\ \A s \in Session : sess'[s] = IF s \in S THEN "closed" ELSE sess[s]
         /\ \A s \in Session : \/ wire'[s] = << >> \/ wire'[s] = <<Fin>>
                                \/ wire'[s] = Append(wire[s], Fin) \/ wire'[s] = wire[s]
<1>1. \A s \in Session : sess'[s] = IF s \in S THEN "closed" ELSE sess[s]
  BY DEF CloseSockets
<1>2. PICK reset \in SUBSET {Peer(s) : s \in {t \in S : wire[t] # << >>}} :
       wire' = [s \in Session |->
         CASE s \in S -> << >>
           [] s \notin S /\ Peer(s) \in S /\ sess[s] # "closed" ->
                IF s \in reset THEN <<Fin>> ELSE Append(wire[s], Fin)
           [] OTHER -> wire[s]]
  BY DEF CloseSockets
<1>3. \A s \in Session : \/ wire'[s] = << >> \/ wire'[s] = <<Fin>>
                          \/ wire'[s] = Append(wire[s], Fin) \/ wire'[s] = wire[s]
  BY <1>2
<1>4. SessKept
  BY <1>1 DEF SessKept
<1> QED
  BY <1>1, <1>3, <1>4

\* What remains to be read stays true.
LEMMA CloseSocketsWire ==
  ASSUME IInv, Kept, NEW S \in SUBSET Session, CloseSockets(S), NEW s \in Session
  PROVE  wire'[s] \in Seq(GoodPacket(s)' \cup {Fin})
<1>1. wire[s] \in Seq(GoodPacket(s) \cup {Fin})
  BY DEF IInv
<1>2. GoodPacket(s) \cup {Fin} \subseteq GoodPacket(s)' \cup {Fin}
  BY GoodPacketKept DEF IInv
<1>3. wire[s] \in Seq(GoodPacket(s)' \cup {Fin})
  BY <1>1, <1>2, SeqMonotone
<1>4. \/ wire'[s] = << >> \/ wire'[s] = <<Fin>>
      \/ wire'[s] = Append(wire[s], Fin) \/ wire'[s] = wire[s]
  BY CloseSocketsKept
<1>5. /\ << >> \in Seq(GoodPacket(s)' \cup {Fin}) /\ <<Fin>> \in Seq(GoodPacket(s)' \cup {Fin})
      /\ Append(wire[s], Fin) \in Seq(GoodPacket(s)' \cup {Fin})
  BY <1>3
<1> QED
  BY <1>3, <1>4, <1>5

\* The end of a process takes its registrations and its sessions along.
LEMMA DieInv ==
  ASSUME IInv, TypeOK', NEW n \in Node, Die(n) PROVE IInv' /\ Kept
<1> DEFINE gone == {s \in SessionsOf(n) :
                      sess[s] = "open" \/ (sess[s] = "none" /\ sess[Peer(s)] # "none")}
<1>1. /\ gone \in SUBSET Session
      /\ \A s \in gone : Owner(s) = n /\ s[1] <= opened
      /\ \A s \in SessionsOf(n) : sess[s] = "open" => s \in gone
  BY DEF SessionsOf
<1>2. CloseSockets(gone) /\ UNCHANGED <<connVars, nodeId>>
  BY DEF Die
<1>3. /\ infos' = [infos EXCEPT ![n] = [m \in Node |-> NoSession]]
      /\ connecting' = [connecting EXCEPT ![n] = [h \in Node |-> NotConnecting]]
      /\ marking' = [marking EXCEPT ![n] = NoNode]
      /\ packets' = [packets EXCEPT ![n] = << >>]
      /\ handler' = [handler EXCEPT ![n] = Idle]
  BY DEF Die
<1> HIDE DEF gone
<1>4. /\ SessKept
      /\ \A s \in Session : sess'[s] = IF s \in gone THEN "closed" ELSE sess[s]
  BY <1>1, <1>2, CloseSocketsKept
<1>5. \A a, m \in Node : infos'[a][m] = IF a = n THEN NoSession ELSE infos[a][m]
  BY <1>3 DEF IInv, TypeOK
<1>6. InfoKept
  <2> SUFFICES ASSUME NEW a \in Node, NEW m \in Node,
                      infos[a][m] # NoSession, infos'[a][m] # infos[a][m]
               PROVE  infos'[a][m] = NoSession /\ sess'[infos[a][m]] = "closed"
    BY DEF InfoKept
  <2>1. a = n /\ infos'[a][m] = NoSession
    BY <1>5
  <2>2. infos[a][m] \in SessionsOf(n) /\ infos[a][m] \in Session /\ sess[infos[a][m]] # "none"
    BY <2>1 DEF IInv, GoodInfo, SessionsOf
  <2>3. sess[infos[a][m]] \in {"open", "closed"}
    BY <2>2 DEF IInv, TypeOK
  <2> QED
    BY <1>1, <1>4, <2>1, <2>2, <2>3
<1>7. Kept
  BY <1>2, <1>4, <1>6, Unchanged DEF Kept, IInv
<1>8. ASSUME NEW a \in Node, NEW h \in Node PROVE GoodAttempt(a, h)'
  <2>1. CASE a = n
    <3>1. connecting'[a][h] = NotConnecting
      BY <1>3, <2>1 DEF IInv, TypeOK
    <3> QED
      BY <3>1 DEF NotConnecting, GoodAttempt
  <2>2. CASE a # n
    <3> DEFINE c == connecting[a][h].fd
    <3>1. /\ connecting'[a][h] = connecting[a][h] /\ marking'[a] = marking[a]
          /\ GoodAttempt(a, h)
      BY <1>3, <2>2 DEF IInv, TypeOK
    <3>2. CASE c = NoConn
      BY <3>1, <3>2 DEF GoodAttempt
    <3>3. CASE c # NoConn
      <4>1. from[c] = a /\ c \in Conn
        BY <3>1, <3>3 DEF GoodAttempt, IInv, TypeOK, Attempt
      <4>2. <<c, "out">> \notin gone /\ <<c, "out">> \in Session
        BY <1>1, <2>2, <4>1 DEF Owner, Session
      <4>3. sess'[<<c, "out">>] = sess[<<c, "out">>]
        BY <1>4, <4>2
      <4> QED
        BY <3>1, <4>3, <1>7, AttemptKept DEF IInv, Kept
    <3> QED
      BY <3>2, <3>3
  <2> QED
    BY <2>1, <2>2
<1>9. \A s \in Session : sess[s] = "none" /\ sess'[s] # "none" => s[1] <= opened
  BY <1>1, <1>4
<1>10. \A s \in Session : wire'[s] \in Seq(GoodPacket(s)' \cup {Fin})
  BY <1>1, <1>2, <1>7, CloseSocketsWire
<1>11. ASSUME NEW m \in Node
       PROVE  /\ packets'[m] = packets[m] \/ packets'[m] \in Seq(GoodArrival(m)')
              /\ handler'[m] = handler[m] \/ handler'[m] = Idle
  <2>1. packets'[m] = packets[m] \/ packets'[m] = << >>
    BY <1>3 DEF IInv, TypeOK
  <2>2. handler'[m] = handler[m] \/ handler'[m] = Idle
    BY <1>3 DEF IInv, TypeOK
  <2> QED
    BY <2>1, <2>2, EmptySeq
<1>12. \A a, m \in Node : infos'[a][m] \in {infos[a][m], NoSession}
  BY <1>5
<1>13. IInv'
  BY <1>7, <1>8, <1>9, <1>10, <1>11, <1>12, Frame
<1> QED
  BY <1>7, <1>13

\* The destroyer unregisters only the session it closes.
LEMMA DestroyInv ==
  ASSUME IInv, TypeOK', NEW n \in Node, Destroy(n) PROVE IInv' /\ Kept
<1>1. destroy[n] \in Seq(Teardown) /\ destroy[n] # << >>
  BY DEF Destroy, IInv, TypeOK
<1>2. PICK d \in Teardown : d = Head(destroy[n])
  BY <1>1, HeadTail
<1>3. PICK s \in Session : s = d.session
  BY DEF Teardown
<1>4. PICK S \in SUBSET Session : S = IF sess[s] = "open" THEN {s} ELSE {}
  OBVIOUS
<1>5. /\ CloseSockets(S)
      /\ sess[s] = "open" \/ Held(s)
      /\ UNCHANGED <<connVars, nodeId, connecting, marking, packets, handler>>
      /\ UNCHANGED infos \/ RemoveHostIdInfo(n, nodeId[s], s)
  BY <1>2, <1>3, <1>4 DEF Destroy, DisconnectClient
<1>6. /\ SessKept
      /\ \A t \in Session : sess'[t] = IF t \in S THEN "closed" ELSE sess[t]
  BY <1>5, CloseSocketsKept
<1>7. sess'[s] = "closed"
  <2>1. CASE sess[s] = "open"
    BY <1>4, <1>6, <2>1
  <2>2. CASE sess[s] # "open"
    <3>1. Held(s)
      BY <1>5, <2>2
    <3>2. PICK m \in Node : handler[m].step # "idle" /\ handler[m].session = s
      BY <3>1 DEF Held
    <3>3. handler[m] \in GoodHandler(m)
      BY <3>2 DEF IInv, Idle
    <3>4. sess[s] # "none"
      BY <3>2, <3>3 DEF GoodHandler
    <3>5. sess[s] \in {"none", "open", "closed"}
      BY DEF IInv, TypeOK
    <3> QED
      BY <1>6, <2>2, <3>4, <3>5
  <2> QED
    BY <2>1, <2>2
<1>8. \A a, m \in Node :
        \/ infos'[a][m] = infos[a][m]
        \/ infos'[a][m] = NoSession /\ infos[a][m] = s
  <2>1. infos \in [Node -> [Node -> Session \cup {NoSession}]]
    BY DEF IInv, TypeOK
  <2>2. PICK id : id = nodeId[s]
    OBVIOUS
  <2>3. UNCHANGED infos \/ (infos[n][id] = s /\ infos' = [infos EXCEPT ![n][id] = NoSession])
    BY <1>5, <2>2 DEF RemoveHostIdInfo
  <2> QED
    BY <2>1, <2>3
<1>9. InfoKept
  BY <1>7, <1>8 DEF InfoKept
<1>10. Kept
  BY <1>5, <1>6, <1>9, Unchanged DEF Kept, IInv
<1>11. ASSUME NEW a \in Node, NEW h \in Node PROVE GoodAttempt(a, h)'
  <2> DEFINE c == connecting[a][h].fd
  <2>1. GoodAttempt(a, h) /\ connecting[a][h] \in Attempt
    BY DEF IInv, TypeOK
  <2>2. CASE c = NoConn
    BY <1>5, <2>2 DEF GoodAttempt
  <2>3. CASE c # NoConn
    <3>1. c \in Conn
      BY <2>1, <2>3 DEF Attempt
    <3>2. <<c, "out">> \in Session
      BY <3>1 DEF Session
    <3>3. sess[<<c, "out">>] = "none" => sess'[<<c, "out">>] = "none"
      BY <1>4, <1>6, <3>2
    <3>4. c \in 1 .. opened /\ opened' = opened /\ from' = from /\ to' = to
      BY <1>5, <2>1, <2>3, <3>1, BoundAssumption DEF GoodAttempt, Conn, connVars, IInv, TypeOK
    <3> QED
      BY <1>5, <2>1, <3>3, <3>4 DEF GoodAttempt
  <2> QED
    BY <2>2, <2>3
<1>12. \A t \in Session : sess[t] = "none" /\ sess'[t] # "none" => t[1] <= opened
  BY <1>4, <1>6
<1>13. \A t \in Session : wire'[t] \in Seq(GoodPacket(t)' \cup {Fin})
  BY <1>5, <1>10, CloseSocketsWire
<1>14. \A a, m \in Node : infos'[a][m] \in {infos[a][m], NoSession}
  BY <1>8
<1>15. IInv'
  BY <1>5, <1>10, <1>11, <1>12, <1>13, <1>14, Frame
<1> QED
  BY <1>10, <1>15

\* Every step preserves the invariant and keeps what is established.
LEMMA NextInv == IInv /\ [Next]_vars => IInv' /\ Kept
<1> SUFFICES ASSUME IInv, [Next]_vars PROVE IInv' /\ Kept
  OBVIOUS
<1>1. TypeOK'
  BY NextTypeOK DEF IInv
<1>2. ASSUME NEW n \in Node, Connector(n) PROVE IInv' /\ Kept
  <2>1. CASE Snapshot(n)
    BY <1>1, <2>1, QuietInv DEF Snapshot, sessVars
  <2>2. CASE MarkWaiting(n)
    BY <1>1, <2>2, MarkWaitingInv
  <2>3. ASSUME NEW h \in Hosts[n], PassOver(n, h) PROVE IInv' /\ Kept
    BY <1>1, <2>3, QuietInv DEF PassOver, sessVars
  <2>4. ASSUME NEW h \in Hosts[n], StartConnect(n, h) PROVE IInv' /\ Kept
    BY <1>1, <2>4, StartConnectInv
  <2>5. ASSUME NEW h \in Hosts[n], Connected(n, h) PROVE IInv' /\ Kept
    BY <1>1, <2>5, ConnectedInv
  <2> QED
    BY <1>2, <2>1, <2>2, <2>3, <2>4, <2>5 DEF Connector
<1>3. ASSUME NEW n \in Node, Processor(n) PROVE IInv' /\ Kept
  BY <1>1, <1>3, BeginHandlerInv, RegisterClientInv, AnswerClientInv, HandleReplyInv,
     SetHostIdInv, SetHostConnectedInv, RegisterServerInv
  DEF Processor
<1>4. ASSUME NEW n \in Node, Destroyer(n) PROVE IInv' /\ Kept
  BY <1>1, <1>4, DestroyInv, DieInv DEF Destroyer, DestroyExpired
<1>5. ASSUME NEW n \in Node, Crash(n) PROVE IInv' /\ Kept
  BY <1>1, <1>5, DieInv DEF Crash
<1>6. ASSUME NEW n \in Node, Restart(n) PROVE IInv' /\ Kept
  BY <1>1, <1>6, QuietInv DEF Restart, sessVars, nodeVars
<1>7. ASSUME NEW n \in Node, NEW h \in Hosts[n], Refused(n, h) PROVE IInv' /\ Kept
  BY <1>1, <1>7, RefusedInv
<1>8. ASSUME NEW c \in Conn, Accept(c) PROVE IInv' /\ Kept
  BY <1>1, <1>8, AcceptInv
<1>9. ASSUME NEW s \in Session, Receive(s) PROVE IInv' /\ Kept
  BY <1>1, <1>9, ReceiveInv
<1>10. ASSUME NEW s \in Session, AliveTimeout(s) PROVE IInv' /\ Kept
  BY <1>1, <1>10, QuietInv DEF AliveTimeout
<1>11. CASE UNCHANGED vars
  BY <1>1, <1>11, QuietInv DEF vars, sessVars, nodeVars
<1> QED
  BY <1>2, <1>3, <1>4, <1>5, <1>6, <1>7, <1>8, <1>9, <1>10, <1>11 DEF Next

\* The inductive invariant holds in every reachable state.
LEMMA IInvHolds == Spec => []IInv
  BY InitInv, NextInv, PTL DEF Spec

-----------------------------------------------------------------------------
(* A connection goes through the handshake once.                           *)

\* What is in a stream or in a queue of the service data processor.
HasPacket(q) == \E i \in 1 .. Len(q) : q[i] # Fin
HasRefusal(q) == \E i \in 1 .. Len(q) : q[i].result # 0
OnePacket(q) == \A i, j \in 1 .. Len(q) : q[i] # Fin /\ q[j] # Fin => i = j
Mentions(q, s) == \E i \in 1 .. Len(q) : q[i].session = s
MentionsRefusal(q, s) == \E i \in 1 .. Len(q) : q[i].session = s /\ q[i].packet.result # 0
OneEach(q) == \A i, j \in 1 .. Len(q) : q[i].session = q[j].session => i = j

\* How far a session has got: a packet, or a refusal, waits for it; a handler
\* is at work on it, has not registered it, is going to end its attempt, or has
\* a refusal; it is registered; it is to be destroyed as rejected.
Queued(s) == \E n \in Node : Mentions(packets[n], s)
Waiting(s) == HasPacket(wire[s]) \/ Queued(s)
RefusalDue(s) == HasRefusal(wire[s]) \/ \E n \in Node : MentionsRefusal(packets[n], s)
Handled(s) == \E n \in Node : handler[n].session = s
HandledNew(s) ==
  \E n \in Node : /\ handler[n].session = s
                  /\ ~(handler[n].step = "answer" /\ handler[n].result = 0)
Attempting(s) ==
  \E n \in Node : /\ handler[n].session = s
                  /\ handler[n].step \in {"reply", "setHostId", "setHostConnected"}
HandledRefusal(s) ==
  \E n \in Node : /\ handler[n].session = s
                  /\ handler[n].step = "reply" /\ handler[n].result # 0
Registered(s) == \E a, b \in Node : infos[a][b] = s
Flagged(s) ==
  \E n \in Node : \E i \in 1 .. Len(destroy[n]) :
    destroy[n][i].session = s /\ destroy[n][i].flag \in {-2, -3}

\* Each end is sent at most one packet, and reads it before it knows the other.
OnceEach ==
  /\ \A s \in Session : OnePacket(wire[s]) /\ ~(HasPacket(wire[s]) /\ Queued(s))
  /\ \A n \in Node : OneEach(packets[n])

\* The opener is first, and reads the answer when the other end is done with
\* its ClientInfo.
Ordered ==
  \A s \in Session :
    /\ Waiting(s) => nodeId[s] = NoNode
    /\ s[2] = "in" /\ (Waiting(s) \/ nodeId[s] # NoNode \/ sess[s] # "none") =>
         sess[Peer(s)] # "none"
    /\ s[2] = "out" /\ (Waiting(s) \/ nodeId[s] # NoNode) =>
         nodeId[Peer(s)] # NoNode /\ ~Handled(Peer(s))

\* A session is registered at the end of its handler, and never after a
\* refusal, by either end.
RefusedIsNot ==
  \A s \in Session :
    /\ HandledNew(s) => ~Registered(s)
    /\ s[2] = "out" /\ (RefusalDue(s) \/ HandledRefusal(s) \/ Flagged(s)) =>
         ~Registered(Peer(s))
    /\ Flagged(s) => s[2] = "out" /\ nodeId[s] # NoNode /\ ~Handled(s) /\ ~Registered(s)

\* Until the answer has been handled the connector has the attempt.
Claimed(s) == (sess[s] = "open" /\ nodeId[s] = NoNode) \/ Attempting(s)
OwnAttempt ==
  \A s \in Session : s[2] = "out" /\ Claimed(s) => connecting[from[s[1]]][to[s[1]]].fd = s[1]

OInv == OnceEach /\ Ordered /\ RefusedIsNot /\ OwnAttempt

-----------------------------------------------------------------------------
(* Streams and queues.                                                     *)

\* The end of a stream is no packet, and refuses nothing.
LEMMA NothingInEmpty ==
  /\ ~HasPacket(<< >>) /\ ~HasRefusal(<< >>) /\ OnePacket(<< >>) /\ OneEach(<< >>)
  /\ \A s : ~Mentions(<< >>, s) /\ ~MentionsRefusal(<< >>, s)
  /\ ~HasPacket(<<Fin>>) /\ ~HasRefusal(<<Fin>>) /\ OnePacket(<<Fin>>)
  BY DEF HasPacket, HasRefusal, OnePacket, OneEach, Mentions, MentionsRefusal, Fin

\* A refusal is a packet.
LEMMA RefusalIsPacket == \A q : HasRefusal(q) => HasPacket(q)
  BY DEF HasRefusal, HasPacket, Fin

\* The end comes behind the packets.
LEMMA FinAppended ==
  ASSUME NEW T, NEW q \in Seq(T)
  PROVE  /\ HasPacket(Append(q, Fin)) => HasPacket(q)
         /\ HasRefusal(Append(q, Fin)) => HasRefusal(q)
         /\ OnePacket(q) => OnePacket(Append(q, Fin))
<1>1. /\ Len(q) \in Nat /\ Len(Append(q, Fin)) = Len(q) + 1
      /\ \A i \in 1 .. Len(q) : Append(q, Fin)[i] = q[i]
      /\ Append(q, Fin)[Len(q) + 1] = Fin
  OBVIOUS
<1>2. \A i \in 1 .. Len(q) + 1 : i \in 1 .. Len(q) \/ i = Len(q) + 1
  BY <1>1
<1>3. Fin.result = 0
  BY DEF Fin
<1> HIDE DEF Fin
<1> QED
  BY <1>1, <1>2, <1>3 DEF HasPacket, HasRefusal, OnePacket

\* The first packet of a stream.
LEMMA PacketAppended ==
  ASSUME NEW T, NEW q \in Seq(T), NEW p, ~HasPacket(q)
  PROVE  /\ OnePacket(Append(q, p))
         /\ HasRefusal(Append(q, p)) => p.result # 0
<1>1. /\ Len(q) \in Nat /\ Len(Append(q, p)) = Len(q) + 1
      /\ \A i \in 1 .. Len(q) : Append(q, p)[i] = q[i]
      /\ Append(q, p)[Len(q) + 1] = p
  OBVIOUS
<1>2. \A i \in 1 .. Len(q) + 1 : i \in 1 .. Len(q) \/ i = Len(q) + 1
  BY <1>1
<1>3. \A i \in 1 .. Len(q) : q[i] = Fin /\ q[i].result = 0
  BY DEF HasPacket, Fin
<1> HIDE DEF Fin
<1> QED
  BY <1>1, <1>2, <1>3 DEF HasRefusal, OnePacket

\* One packet is read from a stream, and the rest has none.
LEMMA PacketRead ==
  ASSUME NEW T, NEW q \in Seq(T), q # << >>, OnePacket(q)
  PROVE  /\ OnePacket(Tail(q)) /\ (HasPacket(Tail(q)) => HasPacket(q))
         /\ HasRefusal(Tail(q)) => HasRefusal(q)
         /\ Head(q) # Fin => HasPacket(q) /\ ~HasPacket(Tail(q))
         /\ Head(q).result # 0 => HasRefusal(q)
<1>1. /\ Len(q) \in Nat /\ Len(q) > 0 /\ Len(Tail(q)) = Len(q) - 1 /\ Head(q) = q[1]
      /\ \A i \in 1 .. Len(q) - 1 : Tail(q)[i] = q[i + 1]
  OBVIOUS
<1>2. \A i \in 1 .. Len(q) - 1 : i + 1 \in 1 .. Len(q) /\ i + 1 # 1
  BY <1>1
<1>3. 1 \in 1 .. Len(q)
  BY <1>1
<1>4. \A i, j \in 1 .. Len(q) - 1 : i + 1 = j + 1 => i = j
  BY <1>1
<1>5. \A i, j \in 1 .. Len(q) : q[i] # Fin /\ q[j] # Fin => i = j
  BY DEF OnePacket
<1> HIDE DEF Fin
<1>6. OnePacket(Tail(q))
  <2> SUFFICES ASSUME NEW i \in 1 .. Len(q) - 1, NEW j \in 1 .. Len(q) - 1,
                      Tail(q)[i] # Fin, Tail(q)[j] # Fin
               PROVE  i = j
    BY <1>1 DEF OnePacket
  <2>1. i + 1 = j + 1
    BY <1>1, <1>2, <1>5
  <2> QED
    BY <1>4, <2>1
<1>7. Head(q) # Fin => ~HasPacket(Tail(q))
  BY <1>1, <1>2, <1>3, <1>5 DEF HasPacket
<1> QED
  BY <1>1, <1>2, <1>3, <1>6, <1>7 DEF HasPacket, HasRefusal

\* A packet is queued behind the others,
LEMMA ArrivalAppended ==
  ASSUME NEW T, NEW q \in Seq(T), NEW a
  PROVE  /\ \A s : Mentions(Append(q, a), s) => Mentions(q, s) \/ s = a.session
         /\ \A s : MentionsRefusal(Append(q, a), s) =>
              MentionsRefusal(q, s) \/ (s = a.session /\ a.packet.result # 0)
         /\ OneEach(q) /\ ~Mentions(q, a.session) => OneEach(Append(q, a))
<1>1. /\ Len(q) \in Nat /\ Len(Append(q, a)) = Len(q) + 1
      /\ \A i \in 1 .. Len(q) : Append(q, a)[i] = q[i]
      /\ Append(q, a)[Len(q) + 1] = a
  OBVIOUS
<1>2. \A i \in 1 .. Len(q) + 1 : i \in 1 .. Len(q) \/ i = Len(q) + 1
  BY <1>1
<1> QED
  BY <1>1, <1>2 DEF Mentions, MentionsRefusal, OneEach

\* and the first one taken.
LEMMA ArrivalTaken ==
  ASSUME NEW T, NEW q \in Seq(T), q # << >>
  PROVE  /\ \A s : Mentions(Tail(q), s) => Mentions(q, s)
         /\ \A s : MentionsRefusal(Tail(q), s) => MentionsRefusal(q, s)
         /\ OneEach(q) => OneEach(Tail(q)) /\ ~Mentions(Tail(q), Head(q).session)
         /\ Mentions(q, Head(q).session)
         /\ Head(q).packet.result # 0 => MentionsRefusal(q, Head(q).session)
<1>1. /\ Len(q) \in Nat /\ Len(q) > 0 /\ Len(Tail(q)) = Len(q) - 1 /\ Head(q) = q[1]
      /\ \A i \in 1 .. Len(q) - 1 : Tail(q)[i] = q[i + 1]
  OBVIOUS
<1>2. \A i \in 1 .. Len(q) - 1 : i + 1 \in 1 .. Len(q) /\ i + 1 # 1
  BY <1>1
<1>3. 1 \in 1 .. Len(q)
  BY <1>1
<1>4. \A i, j \in 1 .. Len(q) - 1 : i + 1 = j + 1 => i = j
  BY <1>1
<1>5. ASSUME OneEach(q) PROVE OneEach(Tail(q)) /\ ~Mentions(Tail(q), Head(q).session)
  <2>1. \A i, j \in 1 .. Len(q) : q[i].session = q[j].session => i = j
    BY <1>5 DEF OneEach
  <2>2. ASSUME NEW i \in 1 .. Len(q) - 1, NEW j \in 1 .. Len(q) - 1,
               Tail(q)[i].session = Tail(q)[j].session
        PROVE  i = j
    <3>1. i + 1 = j + 1
      BY <1>1, <1>2, <2>1, <2>2
    <3> QED
      BY <1>4, <3>1
  <2>3. \A i \in 1 .. Len(q) - 1 : Tail(q)[i].session # q[1].session
    BY <1>1, <1>2, <1>3, <2>1
  <2> QED
    BY <1>1, <2>2, <2>3 DEF OneEach, Mentions
<1> QED
  BY <1>1, <1>2, <1>3, <1>5 DEF Mentions, MentionsRefusal

-----------------------------------------------------------------------------
(* What a step must show of the parts of the invariant it may disturb.     *)

StreamsShrink ==
  \A s \in Session : /\ HasPacket(wire'[s]) => HasPacket(wire[s])
                     /\ HasRefusal(wire'[s]) => HasRefusal(wire[s])
                     /\ OnePacket(wire[s]) => OnePacket(wire'[s])

QueuesShrink ==
  \A n \in Node :
    /\ \A s \in Session : /\ Mentions(packets'[n], s) => Mentions(packets[n], s)
                          /\ MentionsRefusal(packets'[n], s) => MentionsRefusal(packets[n], s)
    /\ OneEach(packets[n]) => OneEach(packets'[n])

HandlersShrink ==
  \A s \in Session : /\ Handled(s)' => Handled(s)
                     /\ HandledNew(s)' => HandledNew(s)
                     /\ Attempting(s)' => Attempting(s)
                     /\ HandledRefusal(s)' => HandledRefusal(s)

RegisteredShrink == \A s \in Session : Registered(s)' => Registered(s)
FlaggedShrink    == \A s \in Session : Flagged(s)' => Flagged(s)
ClaimedShrink    == \A s \in Session : s[2] = "out" /\ Claimed(s)' => Claimed(s)

\* Nothing new waits for a session.
NothingArrives ==
  \A s \in Session : (Waiting(s)' => Waiting(s)) /\ (RefusalDue(s)' => RefusalDue(s))

\* A session a handler is at work on is one of its node's, which has learnt
\* the id of the other.
LEMMA OwnHandler ==
  ASSUME IInv, NEW n \in Node, NEW s \in Session, handler[n].session = s
  PROVE  /\ handler[n] \in GoodHandler(n) /\ handler[n] \in Busy
         /\ Owner(s) = n /\ nodeId[s] # NoNode
         /\ s[1] <= opened /\ sess[s] # "none"
         /\ s[2] = IF handler[n].step \in {"register", "answer"} THEN "in" ELSE "out"
<1>1. s # NoSession
  BY PeerFacts
<1>2. handler[n] \in GoodHandler(n)
  BY <1>1 DEF IInv, Idle
<1>3. PICK b \in GoodHandler(n) : b = handler[n]
  BY <1>2
<1>4. /\ b \in Busy /\ b.session = s /\ b.id \in Node /\ nodeId[s] = b.id
      /\ Owner(s) = n /\ s[1] <= opened /\ sess[s] # "none"
  BY <1>3, GoodHandlerFacts DEF IInv
<1>5. s[2] = IF b.step \in {"register", "answer"} THEN "in" ELSE "out"
  BY <1>3 DEF GoodHandler
<1> QED
  BY <1>3, <1>4, <1>5, NodeAssumption DEF NoNode

\* Only one handler is at work on a session.
LEMMA OneHandler ==
  ASSUME IInv, NEW n \in Node, NEW m \in Node, NEW s \in Session,
         handler[n].session = s, handler[m].session = s
  PROVE  n = m
  BY OwnHandler

\* A session being handled has an id; so has a registered one.
LEMMA KnownSessions ==
  ASSUME IInv, NEW s \in Session
  PROVE  /\ Handled(s) => nodeId[s] # NoNode
         /\ Registered(s) => nodeId[s] # NoNode
         /\ HandledNew(s) \/ Attempting(s) \/ HandledRefusal(s) => Handled(s)
         /\ RefusalDue(s) => Waiting(s)
<1>1. Handled(s) => nodeId[s] # NoNode
  BY OwnHandler DEF Handled
<1>2. ASSUME Registered(s) PROVE nodeId[s] # NoNode
  <2>1. PICK a \in Node, b \in Node : infos[a][b] = s
    BY <1>2 DEF Registered
  <2>2. s # NoSession /\ GoodInfo(a, b)
    BY PeerFacts DEF IInv
  <2> QED
    BY <2>1, <2>2, NodeAssumption DEF GoodInfo, NoNode
<1>3. HandledNew(s) \/ Attempting(s) \/ HandledRefusal(s) => Handled(s)
  BY DEF HandledNew, Attempting, HandledRefusal, Handled
<1>4. \A q : MentionsRefusal(q, s) => Mentions(q, s)
  BY DEF Mentions, MentionsRefusal
<1>5. RefusalDue(s) => Waiting(s)
  BY <1>4, RefusalIsPacket DEF RefusalDue, Waiting, Queued
<1> QED
  BY <1>1, <1>2, <1>3, <1>5

\* A stream that only ends, or is cut, has no new packet.
LEMMA StreamEnds ==
  ASSUME TypeOK,
         \A s \in Session : \/ wire'[s] = << >> \/ wire'[s] = <<Fin>>
                             \/ wire'[s] = Append(wire[s], Fin) \/ wire'[s] = wire[s]
  PROVE  StreamsShrink
<1> SUFFICES ASSUME NEW s \in Session
             PROVE  /\ HasPacket(wire'[s]) => HasPacket(wire[s])
                    /\ HasRefusal(wire'[s]) => HasRefusal(wire[s])
                    /\ OnePacket(wire[s]) => OnePacket(wire'[s])
  BY DEF StreamsShrink
<1>1. wire[s] \in Seq(Packet \cup {Fin})
  BY DEF TypeOK
<1>2. /\ HasPacket(Append(wire[s], Fin)) => HasPacket(wire[s])
      /\ HasRefusal(Append(wire[s], Fin)) => HasRefusal(wire[s])
      /\ OnePacket(wire[s]) => OnePacket(Append(wire[s], Fin))
  BY <1>1, FinAppended
<1>3. \/ wire'[s] = << >> \/ wire'[s] = <<Fin>>
      \/ wire'[s] = Append(wire[s], Fin) \/ wire'[s] = wire[s]
  OBVIOUS
<1> QED
  BY <1>2, <1>3, NothingInEmpty, Zenon

\* A queue that stays, or is emptied, has no new packet.
LEMMA QueuesCut ==
  ASSUME \A n \in Node : packets'[n] \in {packets[n], << >>} PROVE QueuesShrink
  BY NothingInEmpty DEF QueuesShrink

\* Unless a packet is sent or queued, each end is sent at most one.
LEMMA NothingNew ==
  ASSUME OnceEach, StreamsShrink, QueuesShrink
  PROVE  OnceEach' /\ NothingArrives
<1>1. \A s \in Session : Queued(s)' => Queued(s)
  BY DEF Queued, QueuesShrink
<1>2. OnceEach'
  BY <1>1 DEF OnceEach, StreamsShrink, QueuesShrink
<1>3. NothingArrives
  BY <1>1 DEF NothingArrives, Waiting, RefusalDue, StreamsShrink, QueuesShrink
<1> QED
  BY <1>2, <1>3

\* A handler that goes on from the reply, or returns.
LEMMA HandlersGoOn ==
  ASSUME IInv, 
         \A n \in Node :
           \/ handler'[n] \in {handler[n], Idle}
           \/ /\ handler[n].step \in {"reply", "setHostId", "setHostConnected"}
              /\ handler'[n].session = handler[n].session
              /\ handler'[n].step \in {"setHostId", "setHostConnected", "addInfo"}
  PROVE  HandlersShrink
<1> SUFFICES ASSUME NEW s \in Session
             PROVE  /\ Handled(s)' => Handled(s)
                    /\ HandledNew(s)' => HandledNew(s)
                    /\ Attempting(s)' => Attempting(s)
                    /\ HandledRefusal(s)' => HandledRefusal(s)
  BY DEF HandlersShrink
<1>1. Idle.session # s
  BY PeerFacts DEF Idle
<1> HIDE DEF Idle
<1> QED
  BY <1>1 DEF Handled, HandledNew, Attempting, HandledRefusal

\* The order of the two ends, when no packet comes and no id is learnt.
LEMMA OrderedFrame ==
  ASSUME Ordered, SessKept, UNCHANGED nodeId, NothingArrives,
         \A s \in Session : Handled(s)' => Handled(s),
         \A s \in Session :
           s[2] = "in" /\ sess[s] = "none" /\ sess'[s] # "none" => sess[Peer(s)] # "none"
  PROVE  Ordered'
<1> SUFFICES ASSUME NEW s \in Session
             PROVE  /\ Waiting(s)' => nodeId'[s] = NoNode
                    /\ s[2] = "in" /\ (Waiting(s)' \/ nodeId'[s] # NoNode \/ sess'[s] # "none") =>
                         sess'[Peer(s)] # "none"
                    /\ s[2] = "out" /\ (Waiting(s)' \/ nodeId'[s] # NoNode) =>
                         nodeId'[Peer(s)] # NoNode /\ ~Handled(Peer(s))'
  BY DEF Ordered, Peer, NoNode
<1>1. PICK t \in Session : t = Peer(s)
  BY PeerFacts
<1>2. Handled(Peer(s))' = Handled(t)'
  BY <1>1 DEF Peer, Handled
<1> QED
  BY <1>1, <1>2 DEF Ordered, SessKept, NothingArrives

\* What is known of refused sessions, when nothing new is.
LEMMA RefusedFrame ==
  ASSUME RefusedIsNot, UNCHANGED nodeId, NothingArrives, HandlersShrink,
         RegisteredShrink, FlaggedShrink
  PROVE  RefusedIsNot'
<1> SUFFICES ASSUME NEW s \in Session
             PROVE  /\ HandledNew(s)' => ~Registered(s)'
                    /\ s[2] = "out" /\ (RefusalDue(s)' \/ HandledRefusal(s)' \/ Flagged(s)') =>
                         ~Registered(Peer(s))'
                    /\ Flagged(s)' => s[2] = "out" /\ nodeId'[s] # NoNode /\ ~Handled(s)'
                                       /\ ~Registered(s)'
  BY DEF RefusedIsNot, Peer, NoNode
<1>1. PICK t \in Session : t = Peer(s)
  BY PeerFacts
<1>2. Registered(Peer(s))' = Registered(t)'
  BY <1>1 DEF Peer, Registered
<1> QED
  BY <1>1, <1>2
  DEF RefusedIsNot, NothingArrives, HandlersShrink, RegisteredShrink, FlaggedShrink

\* A connection claimed by its opener has been dialled.
LEMMA ClaimedSession ==
  ASSUME IInv, NEW s \in Session, Claimed(s)
  PROVE  /\ sess[s] # "none" /\ s[1] \in 1 .. opened /\ s[1] # NoConn
         /\ from[s[1]] \in Node /\ to[s[1]] \in Node
<1>1. sess[s] # "none"
  <2>1. CASE Attempting(s)
    BY <2>1, OwnHandler DEF Attempting
  <2> QED
    BY <2>1 DEF Claimed
<1>2. s[1] \in Conn /\ s[1] <= opened
  BY <1>1, PeerFacts DEF IInv
<1>3. s[1] \in 1 .. opened /\ s[1] # NoConn
  BY <1>2, BoundAssumption DEF IInv, TypeOK, Conn, NoConn
<1> QED
  BY <1>1, <1>3 DEF IInv, TypeOK

\* Claims do not come from steps that open no dialled connection.
LEMMA NoNewClaim ==
  ASSUME UNCHANGED nodeId, HandlersShrink,
         \A s \in Session : s[2] = "out" /\ sess'[s] = "open" => sess[s] = "open"
  PROVE  ClaimedShrink
<1> SUFFICES ASSUME NEW s \in Session, s[2] = "out", Claimed(s)' PROVE Claimed(s)
  BY DEF ClaimedShrink
<1>1. Attempting(s)' => Attempting(s)
  BY DEF HandlersShrink
<1>2. (sess'[s] = "open" /\ nodeId'[s] = NoNode) \/ Attempting(s)'
  BY DEF Claimed, NoNode
<1> QED
  BY <1>1, <1>2 DEF Claimed

\* The attempts of the claimed connections, when no claim is new.
LEMMA OwnFrame ==
  ASSUME IInv, OwnAttempt, ConnKept, ClaimedShrink,
         \A s \in Session :
           LET a == from[s[1]]
               b == to[s[1]]
           IN  s[2] = "out" /\ Claimed(s)' /\ connecting[a][b].fd = s[1] =>
                 connecting'[a][b].fd = s[1]
  PROVE  OwnAttempt'
<1> SUFFICES ASSUME NEW s \in Session, s[2] = "out", Claimed(s)'
             PROVE  connecting'[from'[s[1]]][to'[s[1]]].fd = s[1]
  BY DEF OwnAttempt
<1>1. Claimed(s)
  BY DEF ClaimedShrink
<1>2. from'[s[1]] = from[s[1]] /\ to'[s[1]] = to[s[1]]
  BY <1>1, ClaimedSession DEF ConnKept
<1> QED
  BY <1>1, <1>2 DEF OwnAttempt

\* Steps that only end things.
LEMMA OnceFrame ==
  ASSUME IInv, OInv, SessKept, UNCHANGED nodeId, StreamsShrink, QueuesShrink,
         HandlersShrink, RegisteredShrink, FlaggedShrink,
         \A s \in Session :
           s[2] = "in" /\ sess[s] = "none" /\ sess'[s] # "none" => sess[Peer(s)] # "none"
  PROVE  OnceEach' /\ Ordered' /\ RefusedIsNot'
<1>1. OnceEach' /\ NothingArrives
  BY NothingNew DEF OInv
<1>2. Ordered'
  BY <1>1, OrderedFrame DEF OInv, HandlersShrink
<1>3. RefusedIsNot'
  BY <1>1, RefusedFrame DEF OInv
<1> QED
  BY <1>1, <1>2, <1>3

\* What is not written is no more than it was.
LEMMA UnchangedOnce ==
  /\ UNCHANGED wire => StreamsShrink
  /\ UNCHANGED packets => QueuesShrink
  /\ UNCHANGED handler => HandlersShrink
  /\ UNCHANGED infos => RegisteredShrink
  /\ UNCHANGED destroy => FlaggedShrink
  /\ UNCHANGED sess => SessKept
<1>1. UNCHANGED wire => StreamsShrink
  BY DEF StreamsShrink
<1>2. UNCHANGED packets => QueuesShrink
  BY DEF QueuesShrink
<1>3. UNCHANGED handler => HandlersShrink
  BY DEF HandlersShrink, Handled, HandledNew, Attempting, HandledRefusal
<1>4. UNCHANGED infos => RegisteredShrink
  BY DEF RegisteredShrink, Registered
<1>5. UNCHANGED destroy => FlaggedShrink
  BY DEF FlaggedShrink, Flagged
<1>6. UNCHANGED sess => SessKept
  BY DEF SessKept
<1> QED
  BY <1>1, <1>2, <1>3, <1>4, <1>5, <1>6

\* Registrations that end.
LEMMA RegistrationsEnd ==
  ASSUME \A a, b \in Node : infos'[a][b] \in {infos[a][b], NoSession}
  PROVE  RegisteredShrink
  BY PeerFacts DEF RegisteredShrink, Registered

\* The destroyer is told of one session at a time.
LEMMA TearDownFlags ==
  ASSUME TypeOK, NEW n, NEW s \in Session, NEW flag, NEW b, TearDown(n, s, flag, b),
         NEW t \in Session, Flagged(t)'
  PROVE  Flagged(t) \/ (t = s /\ flag \in {-2, -3})
<1>a. PICK m \in Node : \E i \in 1 .. Len(destroy'[m]) :
        destroy'[m][i].session = t /\ destroy'[m][i].flag \in {-2, -3}
  BY DEF Flagged
<1>1. PICK i \in 1 .. Len(destroy'[m]) :
        destroy'[m][i].session = t /\ destroy'[m][i].flag \in {-2, -3}
  BY <1>a
<1>2. PICK e : e = [session |-> s, flag |-> flag, fromChecker |-> b]
  OBVIOUS
<1>3. e.session = s /\ e.flag = flag
  BY <1>2
<1>4. destroy' = [destroy EXCEPT ![n] = Append(@, e)] /\ destroy \in [Node -> Seq(Teardown)]
  BY <1>2 DEF TearDown, TypeOK
<1>5. CASE m # n
  BY <1>1, <1>4, <1>5 DEF Flagged
<1>6. CASE m = n
  <2>1. destroy'[m] = Append(destroy[n], e) /\ destroy[n] \in Seq(Teardown)
    BY <1>4, <1>6
  <2>2. /\ Len(destroy'[m]) = Len(destroy[n]) + 1 /\ Len(destroy[n]) \in Nat
        /\ \A j \in 1 .. Len(destroy[n]) : destroy'[m][j] = destroy[n][j]
        /\ destroy'[m][Len(destroy[n]) + 1] = e
    BY <2>1
  <2>3. i \in 1 .. Len(destroy[n]) \/ i = Len(destroy[n]) + 1
    BY <1>1, <2>2
  <2> QED
    BY <1>1, <1>3, <1>6, <2>2, <2>3 DEF Flagged
<1> QED
  BY <1>5, <1>6

\* It takes them in order, or loses them with its process.
LEMMA FlagsTaken ==
  ASSUME TypeOK,
         \A m \in Node :
           \/ destroy'[m] \in {destroy[m], << >>}
           \/ destroy[m] # << >> /\ destroy'[m] = Tail(destroy[m])
  PROVE  FlaggedShrink
<1> SUFFICES ASSUME NEW t \in Session, Flagged(t)' PROVE Flagged(t)
  BY DEF FlaggedShrink
<1>a. PICK m \in Node : \E i \in 1 .. Len(destroy'[m]) :
        destroy'[m][i].session = t /\ destroy'[m][i].flag \in {-2, -3}
  BY DEF Flagged
<1>1. PICK i \in 1 .. Len(destroy'[m]) :
        destroy'[m][i].session = t /\ destroy'[m][i].flag \in {-2, -3}
  BY <1>a
<1>2. CASE destroy'[m] = destroy[m]
  BY <1>1, <1>2 DEF Flagged
<1>3. CASE destroy'[m] = << >>
  BY <1>1, <1>3
<1>4. CASE destroy[m] # << >> /\ destroy'[m] = Tail(destroy[m])
  <2>1. destroy[m] \in Seq(Teardown)
    BY DEF TypeOK
  <2>2. /\ i + 1 \in 1 .. Len(destroy[m])
        /\ destroy'[m][i] = destroy[m][i + 1]
    BY <1>1, <1>4, <2>1
  <2> QED
    BY <1>1, <2>2 DEF Flagged
<1> QED
  BY <1>2, <1>3, <1>4

-----------------------------------------------------------------------------
(* Every action preserves it.                                              *)

\* It holds when the processes start.
LEMMA InitOnce == Init => OInv
<1> SUFFICES ASSUME Init PROVE OInv
  OBVIOUS
<1>1. \A s \in Session : sess[s] = "none" /\ nodeId[s] = NoNode /\ wire[s] = << >>
  BY DEF Init
<1>2. \A n \in Node : /\ packets[n] = << >> /\ destroy[n] = << >>
                      /\ handler[n].session = NoSession
  BY DEF Init, Idle
<1>3. \A s \in Session : ~Handled(s)
  BY <1>2, PeerFacts DEF Handled
<1>4. \A s \in Session : ~HandledNew(s) /\ ~Attempting(s) /\ ~HandledRefusal(s)
  BY <1>3 DEF Handled, HandledNew, Attempting, HandledRefusal
<1>5. \A s \in Session : ~Waiting(s) /\ ~RefusalDue(s) /\ ~Queued(s)
  BY <1>1, <1>2, NothingInEmpty DEF Waiting, RefusalDue, Queued
<1>6. \A s \in Session : ~Flagged(s)
  BY <1>2 DEF Flagged
<1>7. \A s \in Session : ~Claimed(s)
  BY <1>1, <1>4 DEF Claimed
<1>8. OnceEach
  BY <1>1, <1>2, <1>5, NothingInEmpty DEF OnceEach
<1>9. Ordered /\ RefusedIsNot /\ OwnAttempt
  BY <1>1, <1>3, <1>4, <1>5, <1>6, <1>7 DEF Ordered, RefusedIsNot, OwnAttempt
<1> QED
  BY <1>8, <1>9 DEF OInv

\* Steps that touch no session, stream, registration or attempt.
LEMMA QuietOnce ==
  ASSUME IInv, OInv, UNCHANGED <<connVars, sess, nodeId, wire, packets, infos>>,
         \A a, b \in Node : connecting'[a][b].fd = connecting[a][b].fd,
         HandlersShrink, FlaggedShrink
  PROVE  OInv'
<1>1. OnceEach' /\ Ordered' /\ RefusedIsNot'
  BY UnchangedOnce, OnceFrame
<1>2. ClaimedShrink
  BY NoNewClaim
<1>3. ConnKept
  BY Unchanged DEF IInv
<1>4. OwnAttempt'
  BY <1>2, <1>3, OwnFrame, ClaimedSession DEF ClaimedShrink, OInv
<1> QED
  BY <1>1, <1>4 DEF OInv

\* A socket that is opened takes an attempt that is nobody's.
LEMMA StartConnectOnce ==
  ASSUME IInv, OInv, Kept, NEW n \in Node, NEW h \in Hosts[n], StartConnect(n, h)
  PROVE  OInv'
<1>1. /\ UNCHANGED <<sess, nodeId, wire, packets, handler, infos, destroy>>
      /\ connecting' = [connecting EXCEPT ![n][h] = [fd |-> opened + 1, waiting |-> FALSE]]
      /\ connecting[n][h].fd = NoConn
  BY DEF StartConnect, sessVars, BeingConnected, NotConnecting
<1>2. OnceEach' /\ Ordered' /\ RefusedIsNot'
  BY <1>1, UnchangedOnce, OnceFrame
<1>3. ClaimedShrink
  BY <1>1, UnchangedOnce, NoNewClaim
<1>4. ASSUME NEW s \in Session, s[2] = "out", Claimed(s)',
             connecting[from[s[1]]][to[s[1]]].fd = s[1]
      PROVE  connecting'[from[s[1]]][to[s[1]]].fd = s[1]
  <2>1. s[1] # NoConn /\ from[s[1]] \in Node /\ to[s[1]] \in Node
    BY <1>3, <1>4, ClaimedSession DEF ClaimedShrink
  <2>2. \A a, b \in Node : ~(a = n /\ b = h) => connecting'[a][b] = connecting[a][b]
    BY <1>1 DEF IInv, TypeOK
  <2> QED
    BY <1>1, <1>4, <2>1, <2>2
<1>5. OwnAttempt'
  BY <1>3, <1>4, OwnFrame DEF Kept, OInv
<1> QED
  BY <1>2, <1>5 DEF OInv

\* An attempt that fails has no session yet.
LEMMA RefusedOnce ==
  ASSUME IInv, OInv, Kept, NEW n \in Node, NEW h \in Hosts[n], Refused(n, h)
  PROVE  OInv'
<1>1. /\ UNCHANGED <<sess, nodeId, wire, packets, handler, infos, destroy>>
      /\ connecting' = [connecting EXCEPT ![n][h] = NotConnecting]
      /\ connecting[n][h].fd # NoConn /\ ~connecting[n][h].waiting /\ marking[n] = NoNode
  BY DEF Refused, sessVars, Selecting
<1>2. h \in Node /\ h # NoNode
  BY HostsAssumption, NodeAssumption DEF NoNode
<1>3. OnceEach' /\ Ordered' /\ RefusedIsNot'
  BY <1>1, UnchangedOnce, OnceFrame
<1>4. ClaimedShrink
  BY <1>1, UnchangedOnce, NoNewClaim
<1>5. ASSUME NEW s \in Session, s[2] = "out", Claimed(s)',
             connecting[from[s[1]]][to[s[1]]].fd = s[1]
      PROVE  connecting'[from[s[1]]][to[s[1]]].fd = s[1]
  <2>1. sess[s] # "none" /\ from[s[1]] \in Node /\ to[s[1]] \in Node
    BY <1>4, <1>5, ClaimedSession DEF ClaimedShrink
  <2>2. s = <<s[1], "out">>
    BY <1>5 DEF Session
  <2>3. ~(from[s[1]] = n /\ to[s[1]] = h)
    BY <1>1, <1>2, <1>5, <2>1, <2>2 DEF IInv, GoodAttempt
  <2>4. \A a, b \in Node : ~(a = n /\ b = h) => connecting'[a][b] = connecting[a][b]
    BY <1>1 DEF IInv, TypeOK
  <2> QED
    BY <1>5, <2>1, <2>3, <2>4
<1>6. OwnAttempt'
  BY <1>4, <1>5, OwnFrame DEF Kept, OInv
<1> QED
  BY <1>3, <1>6 DEF OInv

\* The other end is accepted after the opener's session is there.
LEMMA AcceptOnce ==
  ASSUME IInv, OInv, Kept, NEW c \in Conn, Accept(c) PROVE OInv'
<1>1. /\ UNCHANGED <<nodeId, wire, packets, handler, infos, destroy, connecting>>
      /\ sess' = [sess EXCEPT ![<<c, "in">>] = "open"]
      /\ sess[<<c, "out">>] # "none" /\ Peer(<<c, "in">>) = <<c, "out">>
  BY DEF Accept, nodeVars, Peer
<1>2. \A s \in Session : s = <<c, "in">> \/ sess'[s] = sess[s]
  BY <1>1 DEF IInv, TypeOK
<1>3. OnceEach' /\ Ordered' /\ RefusedIsNot'
  BY <1>1, <1>2, UnchangedOnce, OnceFrame DEF Kept
<1>4. \A s \in Session : s[2] = "out" => sess'[s] = sess[s]
  BY <1>2
<1>5. ClaimedShrink
  BY <1>1, <1>4, UnchangedOnce, NoNewClaim
<1>6. OwnAttempt'
  BY <1>1, <1>5, OwnFrame DEF Kept, OInv
<1> QED
  BY <1>3, <1>6 DEF OInv

\* The attempt ends with the handler that has claimed it.
LEMMA SetHostConnectedOnce ==
  ASSUME IInv, OInv, Kept, NEW n \in Node, SetHostConnected(n) PROVE OInv'
<1>1. handler[n] \in GoodHandler(n) /\ handler[n].step = "setHostConnected"
  BY AtStepGood DEF SetHostConnected, Step, AtStep
<1>2. PICK s \in Session : s = handler[n].session
  BY <1>1, GoodHandlerFacts DEF IInv
<1>3. s[2] = "out" /\ from[s[1]] = n /\ nodeId[s] # NoNode /\ Attempting(s)
  BY <1>1, <1>2, OwnHandler DEF Owner, Attempting
<1>4. UNCHANGED <<sess, nodeId, wire, packets, infos, destroy>>
  BY DEF SetHostConnected, sessVars
<1>5. /\ \A m \in Node : m # n => handler'[m] = handler[m]
      /\ handler'[n] = Idle \/ (handler'[n].session = s /\ handler'[n].step = "addInfo")
  <2>1. handler[n] \in Busy /\ handler \in [Node -> Busy \cup {Idle}]
    BY <1>1 DEF IInv, TypeOK, GoodHandler
  <2>2. \/ handler' = [handler EXCEPT ![n] = Idle]
        \/ handler' = [handler EXCEPT ![n].step = "addInfo"]
    BY DEF SetHostConnected, GoTo, Return
  <2> QED
    BY <1>2, <2>1, <2>2 DEF Busy
<1>6. HandlersShrink
  BY <1>1, <1>2, <1>5, HandlersGoOn
<1>7. OnceEach' /\ Ordered' /\ RefusedIsNot'
  BY <1>4, <1>6, UnchangedOnce, OnceFrame
<1>8. ClaimedShrink
  BY <1>4, <1>6, NoNewClaim
<1>9. ~Claimed(s)'
  <2>1. \A m \in Node : handler[m].session = s => m = n
    BY <1>2, OneHandler
  <2>2. ~Attempting(s)'
    BY <1>5, <2>1 DEF Attempting, Idle
  <2>3. nodeId'[s] # NoNode
    BY <1>3, <1>4
  <2> QED
    BY <2>2, <2>3 DEF Claimed, NoNode
<1>10. ASSUME NEW t \in Session, t[2] = "out", Claimed(t)',
              connecting[from[t[1]]][to[t[1]]].fd = t[1]
       PROVE  connecting'[from[t[1]]][to[t[1]]].fd = t[1]
  <2>1. from[t[1]] \in Node /\ to[t[1]] \in Node /\ t # s
    BY <1>8, <1>9, <1>10, ClaimedSession DEF ClaimedShrink
  <2>2. connecting[n][to[s[1]]].fd = s[1]
    BY <1>3 DEF OInv, OwnAttempt, Claimed
  <2>3. ~(from[t[1]] = n /\ to[t[1]] = to[s[1]])
    BY <1>3, <1>10, <2>1, <2>2 DEF Session
  <2>4. \/ UNCHANGED connecting
        \/ connecting' = [connecting EXCEPT ![n][to[s[1]]] = NotConnecting]
    BY <1>2, <1>3 DEF SetHostConnected, PeerHost
  <2>5. \A a, b \in Node :
          ~(a = n /\ b = to[s[1]]) => connecting'[a][b] = connecting[a][b]
    <3>1. PICK h : h = to[s[1]]
      OBVIOUS
    <3>2. connecting \in [Node -> [Node -> Attempt]]
      BY DEF IInv, TypeOK
    <3> QED
      BY <2>4, <3>1, <3>2
  <2> QED
    BY <1>10, <2>1, <2>3, <2>5
<1>11. OwnAttempt'
  BY <1>8, <1>10, OwnFrame DEF Kept, OInv
<1> QED
  BY <1>7, <1>11 DEF OInv

\* A handler returns or goes on; the others are where they were.
LEMMA HandlerStep ==
  ASSUME TypeOK, NEW n \in Node, NEW step, handler[n] \in Busy,
         Return(n) \/ GoTo(n, step)
  PROVE  /\ \A m \in Node : m # n => handler'[m] = handler[m]
         /\ \/ handler'[n] = Idle
            \/ /\ GoTo(n, step)
               /\ handler'[n].session = handler[n].session
               /\ handler'[n].result = handler[n].result
               /\ handler'[n].step = step
<1>1. handler \in [Node -> Busy \cup {Idle}]
  BY DEF TypeOK
<1>2. CASE Return(n)
  BY <1>1, <1>2 DEF Return
<1>3. CASE GoTo(n, step)
  <2>1. handler' = [handler EXCEPT ![n] = [handler[n] EXCEPT !.step = step]]
    BY <1>3 DEF GoTo
  <2>2. PICK b : b = [handler[n] EXCEPT !.step = step]
    OBVIOUS
  <2>3. b.session = handler[n].session /\ b.result = handler[n].result /\ b.step = step
    BY <2>2 DEF Busy
  <2>4. handler'[n] = b /\ \A m \in Node : m # n => handler'[m] = handler[m]
    BY <1>1, <2>1, <2>2
  <2> QED
    BY <1>3, <2>3, <2>4
<1> QED
  BY <1>2, <1>3

\* A session whose only handler has returned is not being handled.
LEMMA HandlerReturned ==
  ASSUME IInv, NEW n \in Node, NEW s \in Session, handler[n].session = s,
         handler'[n] = Idle, \A m \in Node : m # n => handler'[m] = handler[m]
  PROVE  ~Handled(s)'
<1>1. Idle.session # s
  BY PeerFacts DEF Idle
<1>2. \A m \in Node : handler[m].session = s => m = n
  BY OneHandler
<1> HIDE DEF Idle
<1> QED
  BY <1>1, <1>2 DEF Handled

\* The opener's registration is the last step of its handler.
LEMMA RegisterServerOnce ==
  ASSUME IInv, OInv, Kept, NEW n \in Node, RegisterServer(n) PROVE OInv'
<1>1. handler[n] \in GoodHandler(n) /\ handler[n].step = "addInfo"
  BY AtStepGood DEF RegisterServer, Step, AtStep
<1>2. PICK s \in Session, id \in Node : s = handler[n].session /\ id = handler[n].id
  BY <1>1, GoodHandlerFacts DEF IInv
<1>3. s[2] = "out" /\ Handled(s)
  BY <1>1, <1>2, OwnHandler DEF Handled
<1>4. UNCHANGED <<connVars, sess, nodeId, wire, packets, destroy, connecting>>
  BY DEF RegisterServer, sessVars
<1>5. handler'[n] = Idle /\ \A m \in Node : m # n => handler'[m] = handler[m]
  BY DEF RegisterServer, Return, IInv, TypeOK
<1>6. HandlersShrink /\ ~Handled(s)'
  BY <1>2, <1>5, HandlersGoOn, HandlerReturned
<1>7. ASSUME NEW t \in Session, Registered(t)' PROVE Registered(t) \/ t = s
  <2>1. AddHostIdInfo(n, id, s)
    BY <1>2 DEF RegisterServer
  <2> QED
    BY <1>7, <2>1, AddHostIdInfoKept DEF Registered, IInv
<1>8. OnceEach' /\ NothingArrives
  BY <1>4, UnchangedOnce, NothingNew DEF OInv
<1>9. Ordered'
  BY <1>4, <1>6, <1>8, UnchangedOnce, OrderedFrame DEF OInv, HandlersShrink
<1>10. RefusedIsNot'
  <2> SUFFICES ASSUME NEW t \in Session
               PROVE  /\ HandledNew(t)' => ~Registered(t)'
                      /\ t[2] = "out" /\ (RefusalDue(t)' \/ HandledRefusal(t)' \/ Flagged(t)') =>
                           ~Registered(Peer(t))'
                      /\ Flagged(t)' => t[2] = "out" /\ nodeId'[t] # NoNode /\ ~Handled(t)'
                                         /\ ~Registered(t)'
    BY DEF RefusedIsNot, Peer, NoNode
  <2>1. HandledNew(t)' => ~Registered(t)'
    <3>1. HandledNew(t)' => Handled(t)'
      BY DEF HandledNew, Handled
    <3> QED
      BY <1>6, <1>7, <3>1 DEF HandlersShrink, OInv, RefusedIsNot
  <2>2. ASSUME t[2] = "out", RefusalDue(t)' \/ HandledRefusal(t)' \/ Flagged(t)'
        PROVE  ~Registered(Peer(t))'
    <3>1. PICK u \in Session : u = Peer(t)
      BY PeerFacts
    <3>2. Registered(Peer(t))' = Registered(u)'
      BY <3>1 DEF Peer, Registered
    <3>3. u # s
      BY <1>3, <2>2, <3>1, PeerFacts
    <3>4. RefusalDue(t) \/ HandledRefusal(t) \/ Flagged(t)
      BY <1>4, <1>6, <1>8, <2>2, UnchangedOnce DEF NothingArrives, HandlersShrink, FlaggedShrink
    <3> QED
      BY <1>7, <2>2, <3>1, <3>2, <3>3, <3>4 DEF OInv, RefusedIsNot
  <2>3. ASSUME Flagged(t)'
        PROVE  t[2] = "out" /\ nodeId'[t] # NoNode /\ ~Handled(t)' /\ ~Registered(t)'
    <3>1. Flagged(t)
      BY <1>4, <2>3, UnchangedOnce DEF FlaggedShrink
    <3>2. t # s
      BY <1>3, <3>1 DEF OInv, RefusedIsNot
    <3> QED
      BY <1>4, <1>6, <1>7, <3>1, <3>2 DEF OInv, RefusedIsNot, HandlersShrink
  <2> QED
    BY <2>1, <2>2, <2>3
<1>11. ClaimedShrink
  BY <1>4, <1>6, NoNewClaim
<1>12. OwnAttempt'
  BY <1>4, <1>11, OwnFrame DEF Kept, OInv
<1> QED
  BY <1>8, <1>9, <1>10, <1>12 DEF OInv

\* A refused connection is flagged when its handler has returned.
LEMMA HandleReplyOnce ==
  ASSUME IInv, OInv, Kept, NEW n \in Node, HandleReply(n) PROVE OInv'
<1>1. handler[n] \in GoodHandler(n) /\ handler[n].step = "reply"
  BY AtStepGood DEF HandleReply, Step, AtStep
<1>2. PICK s \in Session : s = handler[n].session
  BY <1>1, GoodHandlerFacts DEF IInv
<1>3. /\ s[2] = "out" /\ nodeId[s] # NoNode /\ HandledNew(s) /\ handler[n] \in Busy
      /\ handler[n].result # 0 => HandledRefusal(s)
  BY <1>1, <1>2, OwnHandler DEF HandledNew, HandledRefusal
<1>4. UNCHANGED <<connVars, sess, nodeId, wire, packets, infos, connecting>>
  BY DEF HandleReply, sessVars
<1>5. Return(n) \/ GoTo(n, "setHostId")
  BY DEF HandleReply
<1>6. /\ \A m \in Node : m # n => handler'[m] = handler[m]
      /\ \/ handler'[n] = Idle
         \/ handler'[n].session = s /\ handler'[n].step = "setHostId"
  BY <1>2, <1>3, <1>5, HandlerStep DEF IInv
<1>7. HandlersShrink
  BY <1>1, <1>2, <1>6, HandlersGoOn
<1>8. ASSUME NEW t \in Session, Flagged(t)', ~Flagged(t)
      PROVE  t = s /\ handler[n].result # 0 /\ ~Handled(s)'
  <2>1. \/ UNCHANGED destroy
        \/ TearDown(n, s, handler[n].result, FALSE) /\ handler[n].result # 0 /\ Return(n)
        \/ TearDown(n, s, -4, FALSE)
    BY <1>2 DEF HandleReply
  <2>2. t = s /\ handler[n].result # 0 /\ Return(n)
    <3>1. ~UNCHANGED destroy
      BY <1>8, UnchangedOnce DEF FlaggedShrink
    <3>2. \A flag : TearDown(n, s, flag, FALSE) => t = s /\ flag \in {-2, -3}
      BY <1>8, TearDownFlags DEF IInv
    <3>3. TearDown(n, s, -4, FALSE) => -4 \in {-2, -3}
      BY <3>2, Zenon
    <3>4. -4 \notin {-2, -3}
      OBVIOUS
    <3>5. TearDown(n, s, handler[n].result, FALSE) => t = s
      BY <3>2, Zenon
    <3> QED
      BY <2>1, <3>1, <3>3, <3>4, <3>5, Zenon
  <2>3. handler'[n] = Idle
    BY <2>2 DEF Return, IInv, TypeOK
  <2> QED
    BY <1>2, <1>6, <2>2, <2>3, HandlerReturned
<1>9. OnceEach' /\ NothingArrives
  BY <1>4, UnchangedOnce, NothingNew DEF OInv
<1>10. Ordered'
  BY <1>4, <1>7, <1>9, UnchangedOnce, OrderedFrame DEF OInv, HandlersShrink
<1>11. RefusedIsNot'
  <2> SUFFICES ASSUME NEW t \in Session
               PROVE  /\ HandledNew(t)' => ~Registered(t)'
                      /\ t[2] = "out" /\ (RefusalDue(t)' \/ HandledRefusal(t)' \/ Flagged(t)') =>
                           ~Registered(Peer(t))'
                      /\ Flagged(t)' => t[2] = "out" /\ nodeId'[t] # NoNode /\ ~Handled(t)'
                                         /\ ~Registered(t)'
    BY DEF RefusedIsNot, Peer, NoNode
  <2>1. PICK u \in Session : u = Peer(t)
    BY PeerFacts
  <2>2. Registered(Peer(t))' = Registered(u)'
    BY <2>1 DEF Peer, Registered
  <2>3. \A v \in Session : Registered(v)' => Registered(v)
    BY <1>4, UnchangedOnce DEF RegisteredShrink
  <2>4. Flagged(t)' => Flagged(t) \/ (t = s /\ HandledRefusal(s) /\ ~Handled(s)')
    BY <1>3, <1>8
  <2> QED
    BY <1>3, <1>4, <1>7, <1>9, <2>1, <2>2, <2>3, <2>4
    DEF OInv, RefusedIsNot, NothingArrives, HandlersShrink
<1>12. ClaimedShrink
  BY <1>4, <1>7, NoNewClaim
<1>13. OwnAttempt'
  BY <1>4, <1>12, OwnFrame DEF Kept, OInv
<1> QED
  BY <1>9, <1>10, <1>11, <1>13 DEF OInv

\* A client is registered before it is answered.
LEMMA RegisterClientOnce ==
  ASSUME IInv, OInv, Kept, NEW n \in Node, RegisterClient(n) PROVE OInv'
<1>1. handler[n] \in GoodHandler(n) /\ handler[n].step = "register"
  BY AtStepGood DEF RegisterClient, Step, AtStep
<1>2. PICK s \in Session, id \in Node : s = handler[n].session /\ id = handler[n].id
  BY <1>1, GoodHandlerFacts DEF IInv
<1>3. s[2] = "in" /\ Handled(s) /\ HandledNew(s) /\ handler[n] \in Busy
  BY <1>1, <1>2, OwnHandler DEF Handled, HandledNew
<1>4. UNCHANGED <<connVars, sess, nodeId, wire, packets, destroy, connecting>>
  BY DEF RegisterClient, sessVars
<1>5. PICK r : r = ReplyResult(n, id)
  OBVIOUS
<1>6. /\ \A m \in Node : m # n => handler'[m] = handler[m]
      /\ handler'[n].session = s /\ handler'[n].result = r /\ handler'[n].step = "answer"
  <2>1. handler' = [handler EXCEPT ![n] = [handler[n] EXCEPT !.result = r, !.step = "answer"]]
    BY <1>2, <1>5 DEF RegisterClient
  <2>2. PICK b : b = [handler[n] EXCEPT !.result = r, !.step = "answer"]
    OBVIOUS
  <2>3. b.session = s /\ b.result = r /\ b.step = "answer"
    BY <1>2, <1>3, <2>2 DEF Busy
  <2>4. handler \in [Node -> Busy \cup {Idle}]
    BY DEF IInv, TypeOK
  <2> QED
    BY <2>1, <2>2, <2>3, <2>4
<1>7. /\ HandlersShrink
      /\ r = 0 => ~HandledNew(s)'
  <2>1. \A m \in Node : handler[m].session = s => m = n
    BY <1>2, OneHandler
  <2> QED
    BY <1>1, <1>2, <1>6, <2>1
    DEF HandlersShrink, Handled, HandledNew, Attempting, HandledRefusal
<1>8. ASSUME NEW t \in Session, Registered(t)' PROVE Registered(t) \/ (t = s /\ r = 0)
  <2>1. CASE UNCHANGED infos
    BY <1>8, <2>1, UnchangedOnce DEF RegisteredShrink
  <2>2. CASE id # n /\ AddHostIdInfo(n, id, s) /\ ~UNCHANGED infos
    <3>1. r = 0
      BY <1>5, <2>2 DEF ReplyResult, AddHostIdInfo
    <3> QED
      BY <1>8, <2>2, <3>1, AddHostIdInfoKept DEF Registered, IInv
  <2> QED
    BY <1>2, <2>1, <2>2 DEF RegisterClient
<1>9. OnceEach' /\ NothingArrives
  BY <1>4, UnchangedOnce, NothingNew DEF OInv
<1>10. Ordered'
  BY <1>4, <1>7, <1>9, UnchangedOnce, OrderedFrame DEF OInv, HandlersShrink
<1>11. RefusedIsNot'
  <2> SUFFICES ASSUME NEW t \in Session
               PROVE  /\ HandledNew(t)' => ~Registered(t)'
                      /\ t[2] = "out" /\ (RefusalDue(t)' \/ HandledRefusal(t)' \/ Flagged(t)') =>
                           ~Registered(Peer(t))'
                      /\ Flagged(t)' => t[2] = "out" /\ nodeId'[t] # NoNode /\ ~Handled(t)'
                                         /\ ~Registered(t)'
    BY DEF RefusedIsNot, Peer, NoNode
  <2>1. PICK u \in Session : u = Peer(t)
    BY PeerFacts
  <2>2. Registered(Peer(t))' = Registered(u)'
    BY <2>1 DEF Peer, Registered
  <2>3. Flagged(t)' => Flagged(t)
    BY <1>4, UnchangedOnce DEF FlaggedShrink
  <2>4. HandledNew(t)' => ~Registered(t)'
    BY <1>7, <1>8 DEF HandlersShrink, OInv, RefusedIsNot
  <2>5. ASSUME t[2] = "out", RefusalDue(t)' \/ HandledRefusal(t)' \/ Flagged(t)'
        PROVE  ~Registered(u)'
    <3>1. RefusalDue(t) \/ HandledRefusal(t) \/ Flagged(t)
      BY <1>7, <1>9, <2>3, <2>5 DEF NothingArrives, HandlersShrink
    <3>2. Waiting(t) \/ nodeId[t] # NoNode
      BY <3>1, KnownSessions DEF OInv, RefusedIsNot
    <3>3. ~Handled(u)
      BY <2>1, <2>5, <3>2 DEF OInv, Ordered
    <3> QED
      BY <1>3, <1>8, <2>1, <2>5, <3>1, <3>3 DEF OInv, RefusedIsNot
  <2>6. ASSUME Flagged(t)'
        PROVE  t[2] = "out" /\ nodeId'[t] # NoNode /\ ~Handled(t)' /\ ~Registered(t)'
    BY <1>3, <1>4, <1>7, <1>8, <2>3, <2>6 DEF OInv, RefusedIsNot, HandlersShrink
  <2> QED
    BY <2>2, <2>4, <2>5, <2>6
<1>12. ClaimedShrink
  BY <1>4, <1>7, NoNewClaim
<1>13. OwnAttempt'
  BY <1>4, <1>12, OwnFrame DEF Kept, OInv
<1> QED
  BY <1>9, <1>10, <1>11, <1>13 DEF OInv

\* A stream without a packet that gets one.
LEMMA PacketSent ==
  ASSUME TypeOK, OnceEach, NEW u \in Session, ~HasPacket(wire[u]), ~Queued(u),
         NEW p, wire' = [wire EXCEPT ![u] = Append(wire[u], p)], UNCHANGED packets
  PROVE  /\ OnceEach'
         /\ \A t \in Session : Waiting(t)' => Waiting(t) \/ t = u
         /\ \A t \in Session : RefusalDue(t)' => RefusalDue(t) \/ (t = u /\ p.result # 0)
<1>1. wire[u] \in Seq(Packet \cup {Fin}) /\ wire'[u] = Append(wire[u], p)
  BY DEF TypeOK
<1>2. \A t \in Session : t # u => wire'[t] = wire[t]
  BY DEF TypeOK
<1>3. OnePacket(wire'[u]) /\ (HasRefusal(wire'[u]) => p.result # 0)
  BY <1>1, PacketAppended
<1>4. \A t \in Session : Queued(t)' = Queued(t)
  BY DEF Queued
<1>5. OnceEach'
  BY <1>2, <1>3, <1>4 DEF OnceEach
<1>6. ASSUME NEW t \in Session, Waiting(t)' PROVE Waiting(t) \/ t = u
  BY <1>2, <1>4, <1>6 DEF Waiting
<1>7. ASSUME NEW t \in Session, RefusalDue(t)' PROVE RefusalDue(t) \/ (t = u /\ p.result # 0)
  BY <1>2, <1>3, <1>7 DEF RefusalDue
<1> QED
  BY <1>5, <1>6, <1>7

\* The answer reaches an opener that waits for it; a refusal, one whose other
\* end was not registered.
LEMMA AnswerClientOnce ==
  ASSUME IInv, OInv, Kept, NEW n \in Node, AnswerClient(n) PROVE OInv'
<1>1. handler[n] \in GoodHandler(n) /\ handler[n].step = "answer"
  BY AtStepGood DEF AnswerClient, Step, AtStep
<1>2. PICK s \in Session : s = handler[n].session
  BY <1>1, GoodHandlerFacts DEF IInv
<1>3. /\ s[2] = "in" /\ Handled(s) /\ nodeId[s] # NoNode
      /\ handler[n].result # 0 => HandledNew(s)
  BY <1>1, <1>2, OwnHandler DEF Handled, HandledNew
<1>4. PICK u \in Session : u = Peer(s) /\ u[2] = "out" /\ Peer(u) = s
  BY <1>3, PeerFacts
<1>5. UNCHANGED <<connVars, sess, nodeId, packets, infos, destroy, connecting>>
  BY DEF AnswerClient
<1>6. handler'[n] = Idle /\ \A m \in Node : m # n => handler'[m] = handler[m]
  BY DEF AnswerClient, Return, IInv, TypeOK
<1>7. HandlersShrink /\ ~Handled(s)'
  BY <1>2, <1>6, HandlersGoOn, HandlerReturned
<1>8. ~Waiting(u) /\ nodeId[u] = NoNode
  BY <1>3, <1>4 DEF OInv, Ordered
<1>9. PICK p : p = ClientInfoReply(n, handler[n].result)
  OBVIOUS
<1>10. p.result = handler[n].result
  BY <1>9 DEF ClientInfoReply
<1>11. UNCHANGED wire \/ wire' = [wire EXCEPT ![u] = Append(wire[u], p)]
  BY <1>2, <1>4, <1>9 DEF AnswerClient, Send
<1>12. /\ OnceEach'
       /\ \A t \in Session : Waiting(t)' => Waiting(t) \/ t = u
       /\ \A t \in Session : RefusalDue(t)' => RefusalDue(t) \/ (t = u /\ p.result # 0)
  <2>1. CASE UNCHANGED wire
    BY <1>5, <2>1, UnchangedOnce, NothingNew DEF OInv, NothingArrives
  <2>2. CASE wire' = [wire EXCEPT ![u] = Append(wire[u], p)]
    BY <1>5, <1>8, <2>2, PacketSent DEF IInv, OInv, Waiting
  <2> QED
    BY <1>11, <2>1, <2>2
<1>13. Ordered'
  <2> SUFFICES ASSUME NEW t \in Session
               PROVE  /\ Waiting(t)' => nodeId'[t] = NoNode
                      /\ t[2] = "in" /\ (Waiting(t)' \/ nodeId'[t] # NoNode \/ sess'[t] # "none") =>
                           sess'[Peer(t)] # "none"
                      /\ t[2] = "out" /\ (Waiting(t)' \/ nodeId'[t] # NoNode) =>
                           nodeId'[Peer(t)] # NoNode /\ ~Handled(Peer(t))'
    BY DEF Ordered, Peer, NoNode
  <2>1. PICK v \in Session : v = Peer(t)
    BY PeerFacts
  <2>2. Handled(Peer(t))' = Handled(v)'
    BY <2>1 DEF Peer, Handled
  <2>3. CASE t # u
    BY <1>5, <1>7, <1>12, <2>1, <2>2, <2>3 DEF OInv, Ordered, HandlersShrink
  <2>4. CASE t = u
    BY <1>3, <1>4, <1>5, <1>7, <1>8, <2>1, <2>2, <2>4
  <2> QED
    BY <2>3, <2>4
<1>14. RefusedIsNot'
  <2> SUFFICES ASSUME NEW t \in Session
               PROVE  /\ HandledNew(t)' => ~Registered(t)'
                      /\ t[2] = "out" /\ (RefusalDue(t)' \/ HandledRefusal(t)' \/ Flagged(t)') =>
                           ~Registered(Peer(t))'
                      /\ Flagged(t)' => t[2] = "out" /\ nodeId'[t] # NoNode /\ ~Handled(t)'
                                         /\ ~Registered(t)'
    BY DEF RefusedIsNot, Peer, NoNode
  <2>1. PICK v \in Session : v = Peer(t)
    BY PeerFacts
  <2>2. Registered(Peer(t))' = Registered(v)'
    BY <2>1 DEF Peer, Registered
  <2>3. /\ Flagged(t)' => Flagged(t)
        /\ \A w \in Session : Registered(w)' => Registered(w)
    BY <1>5, UnchangedOnce DEF FlaggedShrink, RegisteredShrink
  <2>4. RefusalDue(t)' => RefusalDue(t) \/ (v = s /\ HandledNew(s))
    BY <1>3, <1>4, <1>10, <1>12, <2>1
  <2> QED
    BY <1>5, <1>7, <2>1, <2>2, <2>3, <2>4 DEF OInv, RefusedIsNot, HandlersShrink
<1>15. ClaimedShrink
  BY <1>5, <1>7, NoNewClaim
<1>16. OwnAttempt'
  BY <1>5, <1>15, OwnFrame DEF Kept, OInv
<1> QED
  BY <1>12, <1>13, <1>14, <1>16 DEF OInv

\* The head of a queue, and who queues it.
LEMMA QueueHead ==
  ASSUME IInv, OnceEach, NEW n \in Node, packets[n] # << >>,
         packets' = [packets EXCEPT ![n] = Tail(packets[n])],
         NEW a \in GoodArrival(n), a = Head(packets[n]),
         NEW s \in Session, s = a.session
  PROVE  /\ QueuesShrink
         /\ Queued(s) /\ ~Queued(s)'
         /\ a.packet.result # 0 => RefusalDue(s)
<1>1. packets[n] \in Seq(GoodArrival(n)) /\ packets \in [Node -> Seq(Arrival)]
  BY DEF IInv, TypeOK
<1>3. s \in SessionsOf(n)
  BY DEF GoodArrival
<1>4. PICK q : q = Tail(packets[n])
  OBVIOUS
<1>5. /\ \A t : Mentions(q, t) => Mentions(packets[n], t)
      /\ \A t : MentionsRefusal(q, t) => MentionsRefusal(packets[n], t)
      /\ OneEach(packets[n]) => OneEach(q) /\ ~Mentions(q, s)
      /\ Mentions(packets[n], s)
      /\ a.packet.result # 0 => MentionsRefusal(packets[n], s)
  BY <1>1, <1>4, ArrivalTaken
<1>6. packets'[n] = q /\ \A m \in Node : m # n => packets'[m] = packets[m]
  BY <1>1, <1>4
<1>7. QueuesShrink
  BY <1>5, <1>6 DEF QueuesShrink
<1>8. Queued(s) /\ (a.packet.result # 0 => RefusalDue(s))
  BY <1>5 DEF Queued, RefusalDue
<1>9. ASSUME NEW m \in Node, m # n PROVE ~Mentions(packets[m], s)
  <2>1. ASSUME NEW i \in 1 .. Len(packets[m]) PROVE packets[m][i].session \in SessionsOf(m)
    <3>1. packets[m] \in Seq(GoodArrival(m))
      BY DEF IInv
    <3>2. packets[m][i] \in GoodArrival(m)
      BY <3>1
    <3> QED
      BY <3>2 DEF GoodArrival
  <2>2. s \notin SessionsOf(m)
    BY <1>3, <1>9 DEF SessionsOf
  <2> QED
    BY <2>1, <2>2 DEF Mentions
<1>10. ~Queued(s)'
  BY <1>5, <1>6, <1>9 DEF Queued, OnceEach
<1> QED
  BY <1>7, <1>8, <1>10

\* A handler begins with a session it is the first to know.
LEMMA BeginHandlerOnce ==
  ASSUME IInv, OInv, Kept, NEW n \in Node, BeginHandler(n) PROVE OInv'
<1>1. UNCHANGED <<connVars, sess, wire, infos, destroy, connecting>>
  BY DEF BeginHandler
<1>2. packets[n] # << >> /\ packets' = [packets EXCEPT ![n] = Tail(packets[n])]
  BY DEF BeginHandler
<1>3. PICK a \in GoodArrival(n) : a = Head(packets[n])
  BY <1>2, HeadTail DEF IInv
<1>4. PICK s \in Session : s = a.session /\ s \in SessionsOf(n)
  BY DEF GoodArrival, SessionsOf
<1>5. /\ QueuesShrink /\ Queued(s) /\ ~Queued(s)'
      /\ a.packet.result # 0 => RefusalDue(s)
  BY <1>2, <1>3, <1>4, QueueHead DEF OInv
<1>6. OnceEach' /\ NothingArrives
  BY <1>1, <1>5, UnchangedOnce, NothingNew DEF OInv
<1>7. CASE UNCHANGED <<nodeId, handler>>
  <2>1. Ordered' /\ RefusedIsNot'
    BY <1>1, <1>5, <1>7, UnchangedOnce, OnceFrame
  <2>2. ClaimedShrink
    BY <1>1, <1>7, UnchangedOnce, NoNewClaim
  <2>3. OwnAttempt'
    BY <1>1, <2>2, OwnFrame DEF Kept, OInv
  <2> QED
    BY <1>6, <2>1, <2>3 DEF OInv
<1>8. CASE ~UNCHANGED <<nodeId, handler>>
  <2> DEFINE p == a.packet
             b == [session |-> s, id |-> p.id, result |-> p.result,
                   step |-> IF p.kind = "ClientInfo" THEN "register" ELSE "reply"]
  <2>1. /\ sess[s] # "closed"
        /\ nodeId' = [nodeId EXCEPT ![s] = p.id] /\ handler' = [handler EXCEPT ![n] = b]
    BY <1>3, <1>4, <1>8 DEF BeginHandler, SetNodeId
  <2>2. b.session = s /\ b.result = p.result /\ b.step \in {"register", "reply"}
    OBVIOUS
  <2>3. p.id \in Node /\ p.id # NoNode
    <3>1. p \in Packet
      BY DEF GoodArrival, Arrival
    <3> QED
      BY <3>1, NodeAssumption DEF Packet, NoNode
  <2>4. sess[s] = "open"
    BY <1>4, <2>1 DEF GoodArrival, IInv, TypeOK
  <2> HIDE DEF p, b
  <2>5. /\ nodeId'[s] # NoNode /\ \A t \in Session : t # s => nodeId'[t] = nodeId[t]
        /\ handler'[n] = b /\ \A m \in Node : m # n => handler'[m] = handler[m]
    BY <2>1, <2>3 DEF IInv, TypeOK
  <2>6. Waiting(s) /\ nodeId[s] = NoNode /\ ~Waiting(s)'
    <3>1. Waiting(s) /\ ~HasPacket(wire[s])
      BY <1>5 DEF Waiting, OInv, OnceEach
    <3>2. ~HasPacket(wire'[s])
      BY <1>1, <3>1
    <3> QED
      BY <1>5, <3>1, <3>2 DEF Waiting, OInv, Ordered
  <2>7. /\ \A t \in Session : Handled(t)' => Handled(t) \/ t = s
        /\ \A t \in Session : HandledNew(t)' => HandledNew(t) \/ t = s
        /\ \A t \in Session : Attempting(t)' => Attempting(t) \/ t = s
        /\ \A t \in Session : HandledRefusal(t)' =>
             HandledRefusal(t) \/ (t = s /\ p.result # 0)
    BY <2>2, <2>5 DEF Handled, HandledNew, Attempting, HandledRefusal
  <2>8. Ordered'
    <3> SUFFICES ASSUME NEW t \in Session
                 PROVE  /\ Waiting(t)' => nodeId'[t] = NoNode
                        /\ t[2] = "in" /\ (Waiting(t)' \/ nodeId'[t] # NoNode \/ sess'[t] # "none") =>
                             sess'[Peer(t)] # "none"
                        /\ t[2] = "out" /\ (Waiting(t)' \/ nodeId'[t] # NoNode) =>
                             nodeId'[Peer(t)] # NoNode /\ ~Handled(Peer(t))'
      BY DEF Ordered, Peer, NoNode
    <3>1. PICK v \in Session : v = Peer(t) /\ v # t
      BY PeerFacts
    <3>2. Handled(Peer(t))' = Handled(v)'
      BY <3>1 DEF Peer, Handled
    <3>3. Waiting(t)' => nodeId'[t] = NoNode
      BY <1>6, <2>5, <2>6 DEF NothingArrives, OInv, Ordered
    <3>4. Waiting(t)' \/ nodeId'[t] # NoNode => Waiting(t) \/ nodeId[t] # NoNode
      BY <1>6, <2>5, <2>6 DEF NothingArrives
    <3>5. t[2] = "in" /\ (Waiting(t)' \/ nodeId'[t] # NoNode \/ sess'[t] # "none") =>
            sess'[v] # "none"
      BY <1>1, <3>1, <3>4 DEF OInv, Ordered
    <3>6. ASSUME t[2] = "out", Waiting(t)' \/ nodeId'[t] # NoNode
          PROVE  nodeId'[v] # NoNode /\ ~Handled(v)'
      <4>1. nodeId[v] # NoNode /\ ~Handled(v)
        BY <3>1, <3>4, <3>6 DEF OInv, Ordered
      <4>2. v # s
        BY <2>6, <4>1
      <4> QED
        BY <2>5, <2>7, <4>1, <4>2
    <3> QED
      BY <3>1, <3>2, <3>3, <3>5, <3>6
  <2>9. RefusedIsNot'
    <3> SUFFICES ASSUME NEW t \in Session
                 PROVE  /\ HandledNew(t)' => ~Registered(t)'
                        /\ t[2] = "out" /\ (RefusalDue(t)' \/ HandledRefusal(t)' \/ Flagged(t)') =>
                             ~Registered(Peer(t))'
                        /\ Flagged(t)' => t[2] = "out" /\ nodeId'[t] # NoNode /\ ~Handled(t)'
                                           /\ ~Registered(t)'
      BY DEF RefusedIsNot, Peer, NoNode
    <3>1. PICK v \in Session : v = Peer(t)
      BY PeerFacts
    <3>2. Registered(Peer(t))' = Registered(v)'
      BY <3>1 DEF Peer, Registered
    <3>3. /\ Flagged(t)' => Flagged(t)
          /\ \A w \in Session : Registered(w)' => Registered(w)
      BY <1>1, UnchangedOnce DEF FlaggedShrink, RegisteredShrink
    <3>4. ~Registered(s) /\ ~Flagged(s)
      BY <2>6, KnownSessions DEF OInv, RefusedIsNot
    <3>5. HandledRefusal(t)' => HandledRefusal(t) \/ RefusalDue(t)
      BY <1>5, <2>7 DEF p
    <3> QED
      BY <1>6, <2>5, <2>7, <3>1, <3>2, <3>3, <3>4, <3>5
      DEF OInv, RefusedIsNot, NothingArrives
  <2>10. ClaimedShrink
    <3> SUFFICES ASSUME NEW t \in Session, t[2] = "out", Claimed(t)' PROVE Claimed(t)
      BY DEF ClaimedShrink
    <3>1. (sess'[t] = "open" /\ nodeId'[t] = NoNode) \/ Attempting(t)'
      BY DEF Claimed, NoNode
    <3> QED
      BY <1>1, <2>4, <2>5, <2>6, <2>7, <3>1 DEF Claimed
  <2>11. OwnAttempt'
    BY <1>1, <2>10, OwnFrame DEF Kept, OInv
  <2> QED
    BY <1>6, <2>8, <2>9, <2>11 DEF OInv
<1> QED
  BY <1>7, <1>8

\* A packet moves from the stream to the queue.
LEMMA PacketQueued ==
  ASSUME IInv, OnceEach, NEW s \in Session, Receive(s), Head(wire[s]) # Fin
  PROVE  OnceEach' /\ NothingArrives
<1> DEFINE n == Owner(s)
           p == Head(wire[s])
           e == [session |-> s, packet |-> p]
<1>1. /\ wire[s] \in Seq(Packet \cup {Fin}) /\ wire[s] # << >>
      /\ wire \in [Session -> Seq(Packet \cup {Fin})]
      /\ packets \in [Node -> Seq(Arrival)]
  BY DEF Receive, IInv, TypeOK
<1>2. /\ wire' = [wire EXCEPT ![s] = Tail(wire[s])]
      /\ packets' = [packets EXCEPT ![n] = Append(packets[n], e)]
  BY DEF Receive
<1>3. e.session = s /\ e.packet = p
  OBVIOUS
<1>4. n \in Node
  <2>1. sess[s] # "none" /\ s[1] <= opened
    BY DEF Receive, IInv
  <2> QED
    BY <2>1, OwnerInNode DEF IInv
<1> HIDE DEF n, e
<1>5. /\ wire'[s] = Tail(wire[s]) /\ \A t \in Session : t # s => wire'[t] = wire[t]
      /\ packets'[n] = Append(packets[n], e)
      /\ \A m \in Node : m # n => packets'[m] = packets[m]
  BY <1>1, <1>2, <1>4
<1>6. OnePacket(wire[s])
  BY DEF OnceEach
<1>7. /\ OnePacket(Tail(wire[s])) /\ HasPacket(wire[s]) /\ ~HasPacket(Tail(wire[s]))
      /\ p.result # 0 => HasRefusal(wire[s])
      /\ HasRefusal(Tail(wire[s])) => HasRefusal(wire[s])
  BY <1>1, <1>6, PacketRead
<1> HIDE DEF p
<1>8. ~Queued(s)
  BY <1>7 DEF OnceEach
<1>9. packets[n] \in Seq(Arrival) /\ ~Mentions(packets[n], e.session)
  BY <1>1, <1>3, <1>4, <1>8 DEF Queued
<1>10. /\ \A t : Mentions(packets'[n], t) => Mentions(packets[n], t) \/ t = s
       /\ \A t : MentionsRefusal(packets'[n], t) =>
            MentionsRefusal(packets[n], t) \/ (t = s /\ p.result # 0)
       /\ OneEach(packets[n]) => OneEach(packets'[n])
  BY <1>3, <1>5, <1>9, ArrivalAppended
<1>11. \A t \in Session : Queued(t)' => Queued(t) \/ t = s
  BY <1>5, <1>10 DEF Queued
<1>12. OnceEach'
  BY <1>5, <1>7, <1>10, <1>11 DEF OnceEach
<1>13. ASSUME NEW t \in Session PROVE Waiting(t)' => Waiting(t)
  BY <1>5, <1>7, <1>11 DEF Waiting
<1>14. ASSUME NEW t \in Session, RefusalDue(t)' PROVE RefusalDue(t)
  <2>1. CASE HasRefusal(wire'[t])
    BY <1>5, <1>7, <2>1 DEF RefusalDue
  <2>2. CASE \E m \in Node : MentionsRefusal(packets'[m], t)
    BY <1>5, <1>7, <1>10, <2>2 DEF RefusalDue
  <2> QED
    BY <1>14, <2>1, <2>2 DEF RefusalDue
<1> QED
  BY <1>12, <1>13, <1>14 DEF NothingArrives

\* What a reactor reads brings no new packet to the service thread.
LEMMA ReceiveArrives ==
  ASSUME IInv, OnceEach, NEW s \in Session, Receive(s) PROVE OnceEach' /\ NothingArrives
<1>1. CASE Head(wire[s]) # Fin
  BY <1>1, PacketQueued
<1>2. CASE Head(wire[s]) = Fin
  <2>1. wire[s] \in Seq(Packet \cup {Fin}) /\ wire[s] # << >>
    BY DEF Receive, IInv, TypeOK
  <2>2. UNCHANGED packets /\ wire' = [wire EXCEPT ![s] = Tail(wire[s])]
    BY <1>2 DEF Receive
  <2>3. wire'[s] = Tail(wire[s]) /\ \A t \in Session : t # s => wire'[t] = wire[t]
    BY <2>2 DEF IInv, TypeOK
  <2>4. OnePacket(wire[s])
    BY DEF OnceEach
  <2>5. /\ OnePacket(Tail(wire[s])) /\ (HasPacket(Tail(wire[s])) => HasPacket(wire[s]))
        /\ HasRefusal(Tail(wire[s])) => HasRefusal(wire[s])
    BY <2>1, <2>4, PacketRead
  <2>6. StreamsShrink
    BY <2>3, <2>5 DEF StreamsShrink
  <2> QED
    BY <2>2, <2>6, UnchangedOnce, NothingNew
<1> QED
  BY <1>1, <1>2

\* The reactor takes a packet or the end from the stream.
LEMMA ReceiveOnce ==
  ASSUME IInv, OInv, Kept, NEW s \in Session, Receive(s) PROVE OInv'
<1>1. UNCHANGED <<connVars, sess, nodeId, infos, connecting, handler>>
  BY DEF Receive
<1>2. OnceEach' /\ NothingArrives
  BY ReceiveArrives DEF OInv
<1>3. FlaggedShrink
  <2>1. UNCHANGED destroy \/ TearDown(Owner(s), s, 0, FALSE)
    BY DEF Receive
  <2>2. \A t \in Session : TearDown(Owner(s), s, 0, FALSE) /\ Flagged(t)' =>
          Flagged(t) \/ 0 \in {-2, -3}
    BY TearDownFlags DEF IInv
  <2>3. 0 \notin {-2, -3}
    OBVIOUS
  <2> QED
    BY <2>1, <2>2, <2>3, UnchangedOnce DEF FlaggedShrink
<1>4. HandlersShrink /\ RegisteredShrink
  BY <1>1, UnchangedOnce
<1>5. Ordered'
  BY <1>1, <1>2, <1>4, UnchangedOnce, OrderedFrame DEF OInv, HandlersShrink
<1>6. RefusedIsNot'
  BY <1>1, <1>2, <1>3, <1>4, RefusedFrame DEF OInv
<1>7. ClaimedShrink
  BY <1>1, <1>4, NoNewClaim
<1>8. OwnAttempt'
  BY <1>1, <1>7, OwnFrame DEF Kept, OInv
<1> QED
  BY <1>2, <1>5, <1>6, <1>8 DEF OInv

\* The connect handler sends the first packet of its connection.
LEMMA ConnectedOnce ==
  ASSUME IInv, OInv, Kept, NEW n \in Node, NEW h \in Hosts[n], Connected(n, h) PROVE OInv'
<1> DEFINE c == connecting[n][h].fd
<1>1. /\ h \in Node /\ c \in Conn /\ c # NoConn
      /\ ~connecting[n][h].waiting /\ marking[n] = NoNode /\ h # NoNode
  BY HostsAssumption, NodeAssumption
  DEF Connected, Selecting, IInv, TypeOK, Attempt, NoNode
<1>2. from[c] = n /\ to[c] = h /\ sess[<<c, "out">>] = "none"
  BY <1>1 DEF IInv, GoodAttempt
<1>a. <<c, "in">> \in Session /\ <<c, "out">> \in Session
  BY <1>1 DEF Session
<1>b. Peer(<<c, "in">>) = <<c, "out">> /\ Peer(<<c, "out">>) = <<c, "in">>
  BY DEF Peer
<1>3. PICK s \in Session, u \in Session :
        s = <<c, "in">> /\ u = <<c, "out">> /\ Peer(s) = u /\ Peer(u) = s
  BY <1>a, <1>b, Zenon
<1>c. ClientInfo(n).result = 0
  BY DEF ClientInfo
<1>4. PICK p : p = ClientInfo(n) /\ p.result = 0
  BY <1>c
<1>5. /\ sess' = [sess EXCEPT ![u] = "open"]
      /\ wire' = [wire EXCEPT ![s] = Append(wire[s], p)]
      /\ UNCHANGED <<connVars, nodeId, infos, connecting, packets, handler, destroy>>
  BY <1>3, <1>4 DEF Connected
<1>6. connecting[n][h].fd = u[1] /\ from[u[1]] = n /\ to[u[1]] = h
  BY <1>2, <1>3
<1>7. s[2] = "in" /\ u[2] = "out" /\ sess[u] = "none" /\ s # u
  BY <1>2, <1>3
<1> HIDE DEF c
<1>8. sess'[u] = "open" /\ \A t \in Session : t # u => sess'[t] = sess[t]
  BY <1>5 DEF IInv, TypeOK
<1>9. ~Waiting(s) /\ nodeId[s] = NoNode /\ sess[s] = "none"
  BY <1>3, <1>7 DEF OInv, Ordered
<1>10. /\ OnceEach'
       /\ \A t \in Session : Waiting(t)' => Waiting(t) \/ t = s
       /\ \A t \in Session : RefusalDue(t)' => RefusalDue(t)
  BY <1>4, <1>5, <1>9, PacketSent DEF IInv, OInv, Waiting
<1>11. HandlersShrink /\ RegisteredShrink /\ FlaggedShrink
  BY <1>5, UnchangedOnce
<1>12. Ordered'
  <2> SUFFICES ASSUME NEW t \in Session
               PROVE  /\ Waiting(t)' => nodeId'[t] = NoNode
                      /\ t[2] = "in" /\ (Waiting(t)' \/ nodeId'[t] # NoNode \/ sess'[t] # "none") =>
                           sess'[Peer(t)] # "none"
                      /\ t[2] = "out" /\ (Waiting(t)' \/ nodeId'[t] # NoNode) =>
                           nodeId'[Peer(t)] # NoNode /\ ~Handled(Peer(t))'
    BY DEF Ordered, Peer, NoNode
  <2>1. PICK v \in Session : v = Peer(t) /\ (t[2] = "in" => t # u)
    BY <1>7, PeerFacts
  <2>2. Handled(Peer(t))' = Handled(v)'
    BY <2>1 DEF Peer, Handled
  <2>3. CASE t = s
    BY <1>3, <1>5, <1>7, <1>8, <1>9, <2>1, <2>3
  <2>4. CASE t # s
    <3>1. Waiting(t)' => Waiting(t)
      BY <1>10, <2>4
    <3>2. sess[v] # "none" => sess'[v] # "none"
      BY <1>8
    <3> QED
      BY <1>5, <1>8, <1>11, <2>1, <2>2, <3>1, <3>2 DEF OInv, Ordered, HandlersShrink
  <2> QED
    BY <2>3, <2>4
<1>13. RefusedIsNot'
  <2> SUFFICES ASSUME NEW t \in Session
               PROVE  /\ HandledNew(t)' => ~Registered(t)'
                      /\ t[2] = "out" /\ (RefusalDue(t)' \/ HandledRefusal(t)' \/ Flagged(t)') =>
                           ~Registered(Peer(t))'
                      /\ Flagged(t)' => t[2] = "out" /\ nodeId'[t] # NoNode /\ ~Handled(t)'
                                         /\ ~Registered(t)'
    BY DEF RefusedIsNot, Peer, NoNode
  <2>1. PICK v \in Session : v = Peer(t)
    BY PeerFacts
  <2>2. Registered(Peer(t))' = Registered(v)'
    BY <2>1 DEF Peer, Registered
  <2> QED
    BY <1>5, <1>10, <1>11, <2>1, <2>2
    DEF OInv, RefusedIsNot, HandlersShrink, RegisteredShrink, FlaggedShrink
<1>14. OwnAttempt'
  <2> SUFFICES ASSUME NEW t \in Session, t[2] = "out", Claimed(t)'
               PROVE  connecting[from[t[1]]][to[t[1]]].fd = t[1]
    BY <1>5 DEF OwnAttempt, connVars
  <2>1. CASE t = u
    BY <1>6, <2>1
  <2>2. CASE t # u
    <3>1. (sess'[t] = "open" /\ nodeId'[t] = NoNode) \/ Attempting(t)'
      BY DEF Claimed, NoNode
    <3>2. Claimed(t)
      BY <1>5, <1>8, <1>11, <2>2, <3>1 DEF Claimed, HandlersShrink
    <3> QED
      BY <3>2 DEF OInv, OwnAttempt
  <2> QED
    BY <2>1, <2>2
<1> QED
  BY <1>10, <1>12, <1>13, <1>14 DEF OInv

\* The destroyer ends a session and what was left to read of it.
LEMMA DestroyOnce ==
  ASSUME IInv, OInv, Kept, NEW n \in Node, Destroy(n) PROVE OInv'
<1>1. destroy[n] \in Seq(Teardown) /\ destroy[n] # << >>
  BY DEF Destroy, IInv, TypeOK
<1>2. PICK d \in Teardown : d = Head(destroy[n])
  BY <1>1, HeadTail
<1>3. PICK s \in Session : s = d.session
  BY DEF Teardown
<1>4. PICK S \in SUBSET Session : S = IF sess[s] = "open" THEN {s} ELSE {}
  OBVIOUS
<1>5. /\ CloseSockets(S)
      /\ UNCHANGED <<connVars, nodeId, connecting, packets, handler>>
      /\ UNCHANGED infos \/ RemoveHostIdInfo(n, nodeId[s], s)
      /\ destroy' = [destroy EXCEPT ![n] = Tail(destroy[n])]
  BY <1>2, <1>3, <1>4 DEF Destroy, DisconnectClient
<1>6. /\ SessKept
      /\ \A t \in Session : sess'[t] = IF t \in S THEN "closed" ELSE sess[t]
      /\ \A t \in Session : \/ wire'[t] = << >> \/ wire'[t] = <<Fin>>
                             \/ wire'[t] = Append(wire[t], Fin) \/ wire'[t] = wire[t]
  BY <1>5, CloseSocketsKept
<1>7. StreamsShrink
  BY <1>6, StreamEnds DEF IInv
<1>8. \A a, b \in Node : infos'[a][b] \in {infos[a][b], NoSession}
  <2>1. infos \in [Node -> [Node -> Session \cup {NoSession}]]
    BY DEF IInv, TypeOK
  <2>2. PICK id : id = nodeId[s]
    OBVIOUS
  <2>3. UNCHANGED infos \/ infos' = [infos EXCEPT ![n][id] = NoSession]
    BY <1>5, <2>2 DEF RemoveHostIdInfo
  <2> QED
    BY <2>1, <2>3
<1>9. FlaggedShrink
  <2>1. \A m \in Node : IF m = n THEN destroy'[m] = Tail(destroy[m]) ELSE destroy'[m] = destroy[m]
    BY <1>5 DEF IInv, TypeOK
  <2> QED
    BY <1>1, <2>1, FlagsTaken DEF IInv
<1>10. HandlersShrink /\ QueuesShrink /\ RegisteredShrink
  BY <1>5, <1>8, UnchangedOnce, RegistrationsEnd
<1>11. \A t \in Session : sess'[t] # sess[t] => sess[t] = "open" /\ sess'[t] = "closed"
  BY <1>4, <1>6
<1>12. OnceEach' /\ Ordered' /\ RefusedIsNot'
  BY <1>5, <1>6, <1>7, <1>9, <1>10, <1>11, OnceFrame
<1>13. ClaimedShrink
  BY <1>5, <1>10, <1>11, NoNewClaim
<1>14. OwnAttempt'
  BY <1>5, <1>13, OwnFrame DEF Kept, OInv
<1> QED
  BY <1>12, <1>14 DEF OInv

\* A process takes the claims of its connections along.
LEMMA DieOnce ==
  ASSUME IInv, OInv, Kept, NEW n \in Node, Die(n) PROVE OInv'
<1> DEFINE gone == {s \in SessionsOf(n) :
                      sess[s] = "open" \/ (sess[s] = "none" /\ sess[Peer(s)] # "none")}
<1>1. /\ gone \in SUBSET Session
      /\ \A s \in SessionsOf(n) : sess[s] = "open" => s \in gone
      /\ \A s \in gone : sess[s] = "none" => sess[Peer(s)] # "none"
  BY DEF SessionsOf
<1>2. CloseSockets(gone) /\ UNCHANGED <<connVars, nodeId>>
  BY DEF Die
<1>3. /\ infos' = [infos EXCEPT ![n] = [m \in Node |-> NoSession]]
      /\ connecting' = [connecting EXCEPT ![n] = [h \in Node |-> NotConnecting]]
      /\ packets' = [packets EXCEPT ![n] = << >>]
      /\ handler' = [handler EXCEPT ![n] = Idle]
      /\ destroy' = [destroy EXCEPT ![n] = << >>]
  BY DEF Die
<1> HIDE DEF gone
<1>4. /\ SessKept
      /\ \A s \in Session : sess'[s] = IF s \in gone THEN "closed" ELSE sess[s]
      /\ \A s \in Session : \/ wire'[s] = << >> \/ wire'[s] = <<Fin>>
                             \/ wire'[s] = Append(wire[s], Fin) \/ wire'[s] = wire[s]
  BY <1>1, <1>2, CloseSocketsKept
<1>5. StreamsShrink
  BY <1>4, StreamEnds DEF IInv
<1>6. QueuesShrink
  <2>1. \A m \in Node : packets'[m] \in {packets[m], << >>}
    BY <1>3 DEF IInv, TypeOK
  <2> QED
    BY <2>1, QueuesCut
<1>7. \A m \in Node : handler'[m] = IF m = n THEN Idle ELSE handler[m]
  BY <1>3 DEF IInv, TypeOK
<1>8. HandlersShrink
  BY <1>7, HandlersGoOn
<1>9. RegisteredShrink
  <2>1. \A a, b \in Node : infos'[a][b] \in {infos[a][b], NoSession}
    BY <1>3 DEF IInv, TypeOK
  <2> QED
    BY <2>1, RegistrationsEnd
<1>10. FlaggedShrink
  <2>1. \A m \in Node : destroy'[m] \in {destroy[m], << >>}
    BY <1>3 DEF IInv, TypeOK
  <2> QED
    BY <2>1, FlagsTaken DEF IInv
<1>11. OnceEach' /\ Ordered' /\ RefusedIsNot'
  BY <1>1, <1>2, <1>4, <1>5, <1>6, <1>8, <1>9, <1>10, OnceFrame
<1>12. ClaimedShrink
  BY <1>2, <1>4, <1>8, NoNewClaim
<1>13. ASSUME NEW s \in Session, s[2] = "out", Claimed(s)',
              connecting[from[s[1]]][to[s[1]]].fd = s[1]
       PROVE  connecting'[from[s[1]]][to[s[1]]].fd = s[1]
  <2>1. s[1] \in 1 .. opened /\ from[s[1]] \in Node /\ to[s[1]] \in Node
    BY <1>12, <1>13, ClaimedSession DEF ClaimedShrink
  <2>2. (sess'[s] = "open" /\ nodeId'[s] = NoNode) \/ Attempting(s)'
    BY <1>13 DEF Claimed, NoNode
  <2>3. ASSUME from[s[1]] = n PROVE FALSE
    <3>1. Owner(s) = n /\ s \in SessionsOf(n)
      BY <1>13, <2>1, <2>3, BoundAssumption DEF Owner, SessionsOf, IInv, TypeOK
    <3>2. sess'[s] # "open"
      BY <1>1, <1>4, <3>1
    <3>3. PICK m \in Node : handler'[m].session = s
      BY <2>2, <3>2 DEF Attempting
    <3>4. m # n /\ handler[m].session = s
      BY <1>7, <3>3, PeerFacts DEF Idle
    <3>5. Owner(s) = m
      BY <3>4, OwnHandler
    <3> QED
      BY <3>1, <3>4, <3>5
  <2>4. connecting'[from[s[1]]] = connecting[from[s[1]]]
    BY <1>3, <2>1, <2>3 DEF IInv, TypeOK
  <2> QED
    BY <1>13, <2>4
<1>14. OwnAttempt'
  BY <1>12, <1>13, OwnFrame DEF Kept, OInv
<1> QED
  BY <1>11, <1>14 DEF OInv

\* Every step preserves it.
LEMMA NextOnce == IInv /\ OInv /\ [Next]_vars => OInv'
<1> SUFFICES ASSUME IInv, OInv, [Next]_vars PROVE OInv'
  OBVIOUS
<1>1. Kept
  BY NextInv
<1>2. ASSUME NEW n \in Node, Connector(n) PROVE OInv'
  <2>1. CASE Snapshot(n)
    BY <2>1, QuietOnce, UnchangedOnce DEF Snapshot, sessVars
  <2>2. CASE MarkWaiting(n)
    <3>1. \A a, b \in Node : connecting'[a][b].fd = connecting[a][b].fd
      <4>1. PICK h : h = marking[n]
        OBVIOUS
      <4>2. \/ connecting' = [connecting EXCEPT ![n][h].waiting = TRUE]
            \/ UNCHANGED connecting
        BY <2>2, <4>1 DEF MarkWaiting
      <4>3. connecting \in [Node -> [Node -> Attempt]]
        BY DEF IInv, TypeOK
      <4> SUFFICES ASSUME NEW a \in Node, NEW b \in Node
                   PROVE  connecting'[a][b].fd = connecting[a][b].fd
        OBVIOUS
      <4>4. connecting[a][b] \in Attempt
        BY <4>3
      <4>5. \/ connecting'[a][b] = connecting[a][b]
            \/ connecting'[a][b] = [connecting[a][b] EXCEPT !.waiting = TRUE]
        <5>1. CASE a = n /\ b = h
          BY <4>2, <4>3, <5>1
        <5>2. CASE ~(a = n /\ b = h)
          BY <4>2, <4>3, <5>2
        <5> QED
          BY <5>1, <5>2
      <4> QED
        BY <4>4, <4>5 DEF Attempt
    <3> QED
      BY <2>2, <3>1, QuietOnce, UnchangedOnce DEF MarkWaiting, sessVars
  <2>3. ASSUME NEW h \in Hosts[n], PassOver(n, h) PROVE OInv'
    BY <2>3, QuietOnce, UnchangedOnce DEF PassOver, sessVars
  <2>4. ASSUME NEW h \in Hosts[n], StartConnect(n, h) PROVE OInv'
    BY <1>1, <2>4, StartConnectOnce
  <2>5. ASSUME NEW h \in Hosts[n], Connected(n, h) PROVE OInv'
    BY <1>1, <2>5, ConnectedOnce
  <2> QED
    BY <1>2, <2>1, <2>2, <2>3, <2>4, <2>5 DEF Connector
<1>3. ASSUME NEW n \in Node, SetHostId(n) PROVE OInv'
  <2>1. handler[n] \in GoodHandler(n) /\ handler[n].step = "setHostId"
    BY <1>3, AtStepGood DEF SetHostId, Step, AtStep
  <2>2. handler[n] \in Busy /\ GoTo(n, "setHostConnected")
    BY <1>3, <2>1 DEF SetHostId, GoodHandler
  <2>3. HandlersShrink
    BY <2>1, <2>2, HandlerStep, HandlersGoOn DEF IInv
  <2> QED
    BY <1>3, <2>3, QuietOnce, UnchangedOnce DEF SetHostId, sessVars
<1>4. ASSUME NEW n \in Node, Processor(n) PROVE OInv'
  BY <1>1, <1>3, <1>4, BeginHandlerOnce, RegisterClientOnce, AnswerClientOnce,
     HandleReplyOnce, SetHostConnectedOnce, RegisterServerOnce
  DEF Processor
<1>5. ASSUME NEW n \in Node, Destroyer(n) \/ Crash(n) PROVE OInv'
  BY <1>1, <1>5, DestroyOnce, DieOnce DEF Destroyer, DestroyExpired, Crash
<1>6. ASSUME NEW n \in Node, Restart(n) PROVE OInv'
  BY <1>6, QuietOnce, UnchangedOnce DEF Restart, sessVars, nodeVars
<1>7. ASSUME NEW n \in Node, NEW h \in Hosts[n], Refused(n, h) PROVE OInv'
  BY <1>1, <1>7, RefusedOnce
<1>8. ASSUME NEW c \in Conn, Accept(c) PROVE OInv'
  BY <1>1, <1>8, AcceptOnce
<1>9. ASSUME NEW s \in Session, Receive(s) PROVE OInv'
  BY <1>1, <1>9, ReceiveOnce
<1>10. ASSUME NEW s \in Session, AliveTimeout(s) PROVE OInv'
  <2>1. TearDown(Owner(s), s, 0, TRUE)
    BY <1>10 DEF AliveTimeout
  <2>2. \A t \in Session : Flagged(t)' => Flagged(t) \/ 0 \in {-2, -3}
    BY <2>1, TearDownFlags DEF IInv
  <2>3. FlaggedShrink
    BY <2>2 DEF FlaggedShrink
  <2> QED
    BY <1>10, <2>3, QuietOnce, UnchangedOnce DEF AliveTimeout
<1>11. CASE UNCHANGED vars
  BY <1>11, QuietOnce, UnchangedOnce DEF vars, sessVars, nodeVars
<1> QED
  BY <1>2, <1>4, <1>5, <1>6, <1>7, <1>8, <1>9, <1>10, <1>11 DEF Next

\* Both invariants hold in every reachable state.
LEMMA OInvHolds == Spec => [](IInv /\ OInv)
<1>1. Init => IInv /\ OInv
  BY InitInv, InitOnce
<1>2. (IInv /\ OInv) /\ [Next]_vars => (IInv /\ OInv)'
  BY NextInv, NextOnce
<1> QED
  BY <1>1, <1>2, PTL DEF Spec

-----------------------------------------------------------------------------
(* Two nodes that connect to each other keep a connection.                 *)
(*                                                                         *)
(* As long as no process crashes and no session is given up as silent, an   *)
(* opener's end is torn down only by the handler of the reply, and the       *)
(* other end only follows it; and the handler tears a connection down only   *)
(* when it can see another one of the two nodes that nobody tears down.      *)

NothingIsLost == MaxFault["crash"] = 0 /\ MaxFault["timeout"] = 0

\* The end of a stream, and the sessions the destroyer is to destroy.
HasEnd(q) == \E i \in 1 .. Len(q) : q[i] = Fin
OneEnd(q) == \A i, j \in 1 .. Len(q) : q[i] = Fin /\ q[j] = Fin => i = j
Doomed(s) == \E n \in Node : Mentions(destroy[n], s)

\* A session is queued once, at its own node.
DoomedOnce ==
  \A n \in Node :
    /\ OneEach(destroy[n])
    /\ \A s \in Session : Mentions(destroy[n], s) => s \in SessionsOf(n)

\* The opener's end is torn down when its handler is done with it.
OpenerEnds ==
  \A s \in Session : s[2] = "out" =>
    /\ ~HasEnd(wire[s])
    /\ Doomed(s) => sess[s] = "open"
    /\ Doomed(s) \/ sess[s] = "closed" => nodeId[s] # NoNode /\ ~Handled(s)

\* The other end reads the end of the stream once, and follows.
OtherFollows ==
  \A s \in Session : s[2] = "in" =>
    /\ HasEnd(wire[s]) \/ Doomed(s) \/ sess[s] = "closed" => sess[Peer(s)] = "closed"
    /\ OneEnd(wire[s])
    /\ Doomed(s) => sess[s] = "open" /\ ~HasEnd(wire[s])

EndsInv == DoomedOnce /\ OpenerEnds /\ OtherFollows

\* Connection c is up and nobody tears it down; the node it was opened to has
\* registered it; there is such a connection between a and b.
Stands(c) == sess[<<c, "out">>] = "open" /\ ~Doomed(<<c, "out">>)
Survives(c) == Stands(c) /\ infos[to[c]][from[c]] = <<c, "in">>
Backed(a, b) ==
  \E d \in Conn : d <= opened /\ {from[d], to[d]} = {a, b} /\ Survives(d)

\* Connection c is torn down, or refused, as far as that has got.
Refusing(s) ==
  \E n \in Node : /\ handler[n].session = s
                  /\ handler[n].step = "answer" /\ handler[n].result # 0
BeingRefused(c) ==
  Refusing(<<c, "in">>) \/ RefusalDue(<<c, "out">>) \/ HandledRefusal(<<c, "out">>)
GoingAway(c) ==
  sess[<<c, "out">>] = "closed" \/ Doomed(<<c, "out">>) \/ BeingRefused(c)

\* What the opener has registered stands; so does what the smaller id has,
\* as the opener has the larger id then and does not give way.
Firm ==
  \A a, b \in Node : \A c \in Conn :
    infos[a][b] = <<c, "out">> \/ (infos[a][b] = <<c, "in">> /\ a < b) => Stands(c)

\* A connection goes away only next to another one of the same nodes.
Replaced ==
  /\ \A c \in Conn : c <= opened /\ from[c] # to[c] /\ GoingAway(c) => Backed(from[c], to[c])
  /\ \A a, b \in Node : infos[a][b] # NoSession => Backed(a, b)

PInv == EndsInv /\ Firm /\ Replaced

-----------------------------------------------------------------------------
(* Streams and queues once more.                                           *)

\* The end of a stream in what is left of it, or put behind it.
LEMMA EndAppended ==
  ASSUME NEW T, NEW q \in Seq(T), NEW p
  PROVE  /\ p # Fin /\ HasEnd(Append(q, p)) => HasEnd(q)
         /\ p # Fin /\ OneEnd(q) => OneEnd(Append(q, p))
         /\ ~HasEnd(q) => OneEnd(Append(q, p))
<1>1. /\ Len(q) \in Nat /\ Len(Append(q, p)) = Len(q) + 1
      /\ \A i \in 1 .. Len(q) : Append(q, p)[i] = q[i]
      /\ Append(q, p)[Len(q) + 1] = p
  OBVIOUS
<1>2. \A i \in 1 .. Len(q) + 1 : i \in 1 .. Len(q) \/ i = Len(q) + 1
  BY <1>1
<1> HIDE DEF Fin
<1> QED
  BY <1>1, <1>2 DEF HasEnd, OneEnd

\* What is read from a stream: something, or its only end.
LEMMA EndRead ==
  ASSUME NEW T, NEW q \in Seq(T), q # << >>, OneEnd(q)
  PROVE  /\ HasEnd(Tail(q)) => HasEnd(q)
         /\ OneEnd(Tail(q))
         /\ Head(q) = Fin => HasEnd(q) /\ ~HasEnd(Tail(q))
<1>1. /\ Len(q) \in Nat /\ Len(q) > 0 /\ Len(Tail(q)) = Len(q) - 1 /\ Head(q) = q[1]
      /\ \A i \in 1 .. Len(q) - 1 : Tail(q)[i] = q[i + 1]
  OBVIOUS
<1>2. \A i \in 1 .. Len(q) - 1 : i + 1 \in 1 .. Len(q) /\ i + 1 # 1
  BY <1>1
<1>3. 1 \in 1 .. Len(q)
  BY <1>1
<1>4. \A i, j \in 1 .. Len(q) - 1 : i + 1 = j + 1 => i = j
  BY <1>1
<1>5. \A i, j \in 1 .. Len(q) : q[i] = Fin /\ q[j] = Fin => i = j
  BY DEF OneEnd
<1> HIDE DEF Fin
<1>6. OneEnd(Tail(q))
  <2> SUFFICES ASSUME NEW i \in 1 .. Len(q) - 1, NEW j \in 1 .. Len(q) - 1,
                      Tail(q)[i] = Fin, Tail(q)[j] = Fin
               PROVE  i = j
    BY <1>1 DEF OneEnd
  <2>1. i + 1 = j + 1
    BY <1>1, <1>2, <1>5
  <2> QED
    BY <1>4, <2>1
<1>7. Head(q) = Fin => ~HasEnd(Tail(q))
  BY <1>1, <1>2, <1>3, <1>5 DEF HasEnd
<1> QED
  BY <1>1, <1>2, <1>3, <1>6, <1>7 DEF HasEnd

\* A packet that refuses nothing.
LEMMA RefusalAppended ==
  ASSUME NEW T, NEW q \in Seq(T), NEW p
  PROVE  HasRefusal(Append(q, p)) => HasRefusal(q) \/ p.result # 0
<1>1. /\ Len(q) \in Nat /\ Len(Append(q, p)) = Len(q) + 1
      /\ \A i \in 1 .. Len(q) : Append(q, p)[i] = q[i]
      /\ Append(q, p)[Len(q) + 1] = p
  OBVIOUS
<1>2. \A i \in 1 .. Len(q) + 1 : i \in 1 .. Len(q) \/ i = Len(q) + 1
  BY <1>1
<1> QED
  BY <1>1, <1>2 DEF HasRefusal

\* A stream that is dropped has no end any more, or nothing but the end.
LEMMA EndOnly ==
  ~HasEnd(<< >>) /\ OneEnd(<< >>) /\ OneEnd(<<Fin>>)
  BY DEF HasEnd, OneEnd

\* The ends of a connection as sessions.
LEMMA EndsOf ==
  ASSUME NEW c \in Conn
  PROVE  /\ <<c, "out">> \in Session /\ <<c, "in">> \in Session
         /\ Peer(<<c, "out">>) = <<c, "in">> /\ Peer(<<c, "in">>) = <<c, "out">>
         /\ Owner(<<c, "out">>) = from[c] /\ Owner(<<c, "in">>) = to[c]
         /\ <<c, "out">> # NoSession /\ <<c, "in">> # NoSession
<1>1. <<c, "out">> \in Session /\ <<c, "in">> \in Session
  BY DEF Session
<1> QED
  BY <1>1, PeerFacts DEF Peer, Owner

\* A session is one of the ends of its connection.
LEMMA SessionIsEnd ==
  ASSUME NEW s \in Session
  PROVE  /\ s[1] \in Conn
         /\ \/ s[2] = "out" /\ s = <<s[1], "out">> /\ Peer(s) = <<s[1], "in">>
            \/ s[2] = "in" /\ s = <<s[1], "in">> /\ Peer(s) = <<s[1], "out">>
  BY DEF Session, Peer

\* The destroyer is told of one session.
LEMMA TearDownDooms ==
  ASSUME TypeOK, NEW n \in Node, NEW s \in Session, NEW flag, NEW b, TearDown(n, s, flag, b)
  PROVE  /\ \A t \in Session : Doomed(t)' => Doomed(t) \/ t = s
         /\ \A m \in Node : m # n => destroy'[m] = destroy[m]
         /\ \A t \in Session : Mentions(destroy'[n], t) => Mentions(destroy[n], t) \/ t = s
         /\ OneEach(destroy[n]) /\ ~Mentions(destroy[n], s) => OneEach(destroy'[n])
<1>1. PICK e : e = [session |-> s, flag |-> flag, fromChecker |-> b]
  OBVIOUS
<1>2. e.session = s
  BY <1>1
<1>3. destroy' = [destroy EXCEPT ![n] = Append(@, e)] /\ destroy \in [Node -> Seq(Teardown)]
  BY <1>1 DEF TearDown, TypeOK
<1>4. /\ destroy'[n] = Append(destroy[n], e) /\ destroy[n] \in Seq(Teardown)
      /\ \A m \in Node : m # n => destroy'[m] = destroy[m]
  BY <1>3
<1>5. /\ \A t : Mentions(Append(destroy[n], e), t) => Mentions(destroy[n], t) \/ t = e.session
      /\ OneEach(destroy[n]) /\ ~Mentions(destroy[n], e.session) =>
           OneEach(Append(destroy[n], e))
  BY <1>4, ArrivalAppended
<1>6. \A t \in Session : Doomed(t)' => Doomed(t) \/ t = s
  BY <1>2, <1>4, <1>5 DEF Doomed
<1> QED
  BY <1>2, <1>4, <1>5, <1>6

-----------------------------------------------------------------------------
(* What a step must show.                                                  *)

\* What only a step of the destroyer does not do: nobody closes a session, ...
NobodyCloses ==
  \A s \in Session : sess'[s] = sess[s] \/ (sess[s] = "none" /\ sess'[s] = "open")

\* ... no stream gets an end, ...
NothingEnds ==
  \A s \in Session : /\ HasEnd(wire'[s]) => HasEnd(wire[s])
                     /\ OneEnd(wire[s]) => OneEnd(wire'[s])

\* ... and a handler starts only on a session that has not met the other side.
HandledOnce ==
  \A s \in Session : /\ nodeId'[s] = nodeId[s] \/ nodeId'[s] # NoNode
                     /\ Handled(s)' => Handled(s) \/ nodeId[s] = NoNode

\* A session that is to be destroyed: the opener's when its handler is done,
\* the other end when the opener's is closed.
NewlyDoomed(s) ==
  /\ sess[s] = "open"
  /\ \/ s[2] = "out" /\ nodeId[s] # NoNode /\ ~Handled(s)'
     \/ s[2] = "in" /\ sess[Peer(s)] = "closed" /\ ~HasEnd(wire'[s])

\* The ends of a step that closes no session.
LEMMA EndsFrame ==
  ASSUME EndsInv, NobodyCloses, NothingEnds, HandledOnce,
         \A s \in Session : Doomed(s)' => Doomed(s) \/ NewlyDoomed(s)
  PROVE  OpenerEnds' /\ OtherFollows'
<1>1. ASSUME NEW s \in Session, s[2] = "out"
      PROVE  /\ ~HasEnd(wire'[s])
             /\ Doomed(s)' => sess'[s] = "open"
             /\ Doomed(s)' \/ sess'[s] = "closed" => nodeId'[s] # NoNode /\ ~Handled(s)'
  <2>1. /\ ~HasEnd(wire[s])
        /\ Doomed(s) => sess[s] = "open"
        /\ Doomed(s) \/ sess[s] = "closed" => nodeId[s] # NoNode /\ ~Handled(s)
    BY <1>1 DEF EndsInv, OpenerEnds
  <2>2. Doomed(s)' => Doomed(s) \/ (sess[s] = "open" /\ nodeId[s] # NoNode /\ ~Handled(s)')
    BY <1>1 DEF NewlyDoomed
  <2> QED
    BY <2>1, <2>2 DEF NobodyCloses, NothingEnds, HandledOnce
<1>2. ASSUME NEW s \in Session, s[2] = "in"
      PROVE  /\ HasEnd(wire'[s]) \/ Doomed(s)' \/ sess'[s] = "closed" => sess'[Peer(s)] = "closed"
             /\ OneEnd(wire'[s])
             /\ Doomed(s)' => sess'[s] = "open" /\ ~HasEnd(wire'[s])
  <2>1. /\ HasEnd(wire[s]) \/ Doomed(s) \/ sess[s] = "closed" => sess[Peer(s)] = "closed"
        /\ OneEnd(wire[s])
        /\ Doomed(s) => sess[s] = "open" /\ ~HasEnd(wire[s])
    BY <1>2 DEF EndsInv, OtherFollows
  <2>2. Doomed(s)' => \/ Doomed(s)
                      \/ sess[s] = "open" /\ sess[Peer(s)] = "closed" /\ ~HasEnd(wire'[s])
    BY <1>2 DEF NewlyDoomed
  <2>3. Peer(s) \in Session
    BY PeerFacts
  <2> QED
    BY <2>1, <2>2, <2>3 DEF NobodyCloses, NothingEnds
<1>3. OpenerEnds'
  BY <1>1 DEF OpenerEnds, NoNode
<1>4. OtherFollows'
  BY <1>2 DEF OtherFollows, Peer
<1> QED
  BY <1>3, <1>4

\* The queues of the destroyers, when they stay.
LEMMA QueuedOnce ==
  ASSUME IInv, IInv', Kept, DoomedOnce,
         \A n \in Node : /\ OneEach(destroy[n]) => OneEach(destroy'[n])
                         /\ \A s \in Session :
                              Mentions(destroy'[n], s) =>
                                Mentions(destroy[n], s) \/ s \in SessionsOf(n)
  PROVE  DoomedOnce'
<1> SUFFICES ASSUME NEW n \in Node
             PROVE  /\ OneEach(destroy'[n])
                    /\ \A s \in Session : Mentions(destroy'[n], s) => s \in SessionsOf(n)'
  BY DEF DoomedOnce
<1>1. \A s \in SessionsOf(n) : s \in SessionsOf(n)'
  BY SessionsOfKept DEF IInv, Kept
<1> QED
  BY <1>1 DEF DoomedOnce

\* A registration lasts as long as the opener's end.
LEMMA SurvivesKept ==
  ASSUME IInv, Kept, OtherFollows', NEW c \in Conn, c <= opened, Survives(c), Stands(c)'
  PROVE  Survives(c)' /\ from'[c] = from[c] /\ to'[c] = to[c]
<1>1. c \in 1 .. opened /\ opened \in Nat
  BY BoundAssumption DEF IInv, TypeOK, Conn
<1>2. from'[c] = from[c] /\ to'[c] = to[c] /\ from[c] \in Node /\ to[c] \in Node
  BY <1>1 DEF Kept, ConnKept, IInv, TypeOK
<1>3. PICK a \in Node, b \in Node : a = to[c] /\ b = from[c]
  BY <1>2
<1>4. PICK s \in Session, u \in Session : s = <<c, "in">> /\ u = <<c, "out">> /\ Peer(s) = u
  BY EndsOf
<1>5. infos[a][b] = s /\ s # NoSession
  BY <1>3, <1>4, PeerFacts DEF Survives
<1>6. sess'[s] # "closed"
  <2>1. sess'[u] = "open"
    BY <1>4 DEF Stands
  <2>2. Peer(s)' = u
    BY <1>4 DEF Peer
  <2>3. sess'[s] = "closed" => sess'[Peer(s)'] = "closed"
    BY <1>4 DEF OtherFollows
  <2> QED
    BY <2>1, <2>2, <2>3
<1>7. infos'[a][b] = s
  BY <1>5, <1>6 DEF Kept, InfoKept
<1> QED
  BY <1>2, <1>3, <1>4, <1>7 DEF Survives

\* So a pair of nodes keeps what it has, unless it is torn down.
LEMMA BackedKept ==
  ASSUME IInv, Kept, OtherFollows',
         \A c \in Conn : c <= opened /\ Survives(c) => Stands(c)',
         NEW a \in Node, NEW b \in Node, Backed(a, b)
  PROVE  Backed(a, b)'
<1>1. PICK d \in Conn : d <= opened /\ {from[d], to[d]} = {a, b} /\ Survives(d)
  BY DEF Backed
<1>2. Survives(d)' /\ from'[d] = from[d] /\ to'[d] = to[d]
  BY <1>1, SurvivesKept
<1>3. d <= opened'
  BY <1>1, BoundAssumption DEF Kept, ConnKept, IInv, TypeOK, Conn
<1> QED
  BY <1>1, <1>2, <1>3 DEF Backed

\* A connection that goes away has been dialled.
LEMMA GoingAwayOpened ==
  ASSUME IInv, DoomedOnce, NEW c \in Conn, GoingAway(c) PROVE c <= opened
<1>1. PICK s \in Session, u \in Session : s = <<c, "out">> /\ u = <<c, "in">>
  BY EndsOf
<1>2. s[1] = c /\ u[1] = c
  BY <1>1
<1>3. CASE sess[s] = "closed"
  BY <1>2, <1>3 DEF IInv
<1>4. CASE Doomed(s)
  <2>1. PICK n \in Node : Mentions(destroy[n], s)
    BY <1>4 DEF Doomed
  <2>2. s \in SessionsOf(n)
    BY <2>1 DEF DoomedOnce
  <2> QED
    BY <1>2, <2>2 DEF SessionsOf
<1>5. CASE HasRefusal(wire[s])
  <2>1. wire[s] \in Seq(GoodPacket(s) \cup {Fin}) /\ Fin.result = 0
    BY DEF IInv, Fin
  <2>2. PICK i \in 1 .. Len(wire[s]) : wire[s][i].result # 0
    BY <1>5 DEF HasRefusal
  <2>3. wire[s][i] \in GoodPacket(s)
    BY <2>1, <2>2
  <2> QED
    BY <1>2, <2>3 DEF GoodPacket
<1>6. ASSUME NEW n \in Node, MentionsRefusal(packets[n], s) PROVE c <= opened
  <2>1. packets[n] \in Seq(GoodArrival(n))
    BY DEF IInv
  <2>2. PICK i \in 1 .. Len(packets[n]) : packets[n][i].session = s
    BY <1>6 DEF MentionsRefusal
  <2>3. packets[n][i] \in GoodArrival(n)
    BY <2>1, <2>2
  <2>4. s \in SessionsOf(n)
    BY <2>2, <2>3 DEF GoodArrival
  <2> QED
    BY <1>2, <2>4 DEF SessionsOf
<1>7. CASE HandledRefusal(s)
  BY <1>2, <1>7, OwnHandler DEF HandledRefusal
<1>8. CASE Refusing(u)
  BY <1>2, <1>8, OwnHandler DEF Refusing
<1> QED
  BY <1>1, <1>3, <1>4, <1>5, <1>6, <1>7, <1>8
  DEF GoingAway, BeingRefused, RefusalDue

\* A registration names the two nodes of its connection.
LEMMA RegisteredPair ==
  ASSUME IInv, NEW a \in Node, NEW b \in Node, NEW c \in Conn,
         infos[a][b] \in {<<c, "out">>, <<c, "in">>}
  PROVE  /\ c <= opened /\ {from[c], to[c]} = {a, b} /\ a # b
         /\ infos[a][b] = <<c, "out">> => from[c] = a /\ to[c] = b
         /\ infos[a][b] = <<c, "in">> => from[c] = b /\ to[c] = a
<1>1. PICK s \in Session : s = infos[a][b] /\ s \in {<<c, "out">>, <<c, "in">>} /\ s # NoSession
  BY EndsOf
<1>2. s[1] = c /\ s \in SessionsOf(a) /\ Owner(Peer(s)) = b /\ a # b
  BY <1>1 DEF IInv, GoodInfo
<1>3. c <= opened /\ Owner(s) = a
  BY <1>2 DEF SessionsOf
<1>4. <<c, "out">> # <<c, "in">>
  OBVIOUS
<1>5. c <= opened /\ a # b
  BY <1>2, <1>3
<1>6. CASE s = <<c, "out">>
  <2>1. from[c] = a /\ to[c] = b
    BY <1>2, <1>3, <1>6, EndsOf
  <2> QED
    BY <1>1, <1>4, <1>5, <1>6, <2>1
<1>7. CASE s = <<c, "in">>
  <2>1. from[c] = b /\ to[c] = a
    BY <1>2, <1>3, <1>7, EndsOf
  <2> QED
    BY <1>1, <1>4, <1>5, <1>7, <2>1
<1> QED
  BY <1>1, <1>6, <1>7

\* A registered session is an end of a connection.
LEMMA RegisteredEnd ==
  ASSUME TypeOK, NEW a \in Node, NEW b \in Node, infos[a][b] # NoSession
  PROVE  \E c \in Conn : infos[a][b] \in {<<c, "out">>, <<c, "in">>}
<1>1. infos[a][b] \in Session
  BY DEF TypeOK
<1> QED
  BY <1>1 DEF Session

\* The pairs after a step: what was backed still is, what stood firm stands,
\* what the step registers survives, and what it gives up is backed.
LEMMA TieFrame ==
  ASSUME IInv, IInv', PInv, DoomedOnce', Kept,
         \A a, b \in Node : Backed(a, b) => Backed(a, b)',
         \A a, b \in Node : \A c \in Conn :
           /\ infos[a][b] = <<c, "out">> \/ (infos[a][b] = <<c, "in">> /\ a < b)
           /\ Stands(c)
           => Stands(c)',
         \A a, b \in Node : \A c \in Conn :
           infos'[a][b] \in {<<c, "out">>, <<c, "in">>} =>
             infos[a][b] = infos'[a][b] \/ Survives(c)',
         \A c \in Conn : GoingAway(c)' =>
           GoingAway(c) \/ (c <= opened /\ (from[c] # to[c] => Backed(from[c], to[c])))
  PROVE  Firm' /\ Replaced'
<1>1. ASSUME NEW a \in Node, NEW b \in Node, Backed(a, b) PROVE Backed(a, b)'
  BY <1>1
<1>2. ASSUME NEW a \in Node, NEW b \in Node, NEW c \in Conn,
             infos'[a][b] = <<c, "out">> \/ (infos'[a][b] = <<c, "in">> /\ a < b)
      PROVE  Stands(c)'
  <2>1. CASE Survives(c)'
    BY <2>1 DEF Survives
  <2>2. CASE infos[a][b] = infos'[a][b]
    <3>1. Stands(c)
      BY <1>2, <2>2 DEF PInv, Firm
    <3> QED
      BY <1>2, <2>2, <3>1
  <2> QED
    BY <1>2, <2>1, <2>2
<1>3. ASSUME NEW c \in Conn, from'[c] # to'[c], GoingAway(c)'
      PROVE  Backed(from[c], to[c])'
  <2>1. /\ c <= opened
        /\ GoingAway(c) \/ (from[c] # to[c] => Backed(from[c], to[c]))
    BY <1>3, GoingAwayOpened DEF PInv, EndsInv
  <2>2. c \in 1 .. opened
    BY <2>1, BoundAssumption DEF Conn, IInv, TypeOK
  <2>3. from'[c] = from[c] /\ to'[c] = to[c] /\ from[c] \in Node /\ to[c] \in Node
    BY <2>2 DEF Kept, ConnKept, IInv, TypeOK
  <2>4. Backed(from[c], to[c])
    BY <1>3, <2>1, <2>3 DEF PInv, Replaced
  <2>5. PICK a \in Node, b \in Node : a = from[c] /\ b = to[c]
    BY <2>3
  <2>6. Backed(a, b)'
    BY <1>1, <2>4, <2>5
  <2> QED
    BY <2>3, <2>5, <2>6 DEF Backed
<1>4. ASSUME NEW a \in Node, NEW b \in Node, infos'[a][b] # NoSession
      PROVE  Backed(a, b)'
  <2>1. PICK c \in Conn : infos'[a][b] \in {<<c, "out">>, <<c, "in">>}
    <3>1. infos' [a][b] \in Session
      BY <1>4 DEF IInv, TypeOK, NoSession, NoConn
    <3> QED
      BY <3>1 DEF Session
  <2>2. CASE infos[a][b] = infos'[a][b]
    BY <1>1, <1>4, <2>2 DEF PInv, Replaced
  <2>3. CASE Survives(c)'
    <3>1. PICK s \in Session :
            s = infos'[a][b] /\ s \in {<<c, "out">>, <<c, "in">>} /\ s # NoSession
      BY <2>1, EndsOf
    <3>2. GoodInfo(a, b)' /\ NoSession' = NoSession
      BY DEF IInv, NoSession, NoConn
    <3>3. s \in SessionsOf(a)' /\ Owner(Peer(s))' = b
      BY <3>1, <3>2 DEF GoodInfo
    <3>4. c <= opened' /\ {from'[c], to'[c]} = {a, b}
      BY <3>1, <3>3 DEF SessionsOf, Owner, Peer
    <3> QED
      BY <2>3, <3>4 DEF Backed
  <2> QED
    BY <2>1, <2>2, <2>3
<1>5. Firm'
  BY <1>2 DEF Firm
<1>6. Replaced'
  <2>1. NoSession' = NoSession
    BY DEF NoSession, NoConn
  <2> QED
    BY <1>3, <1>4, <2>1 DEF Replaced
<1> QED
  BY <1>5, <1>6

\* Steps that tear nothing down.
LEMMA CalmStep ==
  ASSUME IInv, IInv', PInv, Kept, UNCHANGED destroy, NobodyCloses, NothingEnds, HandledOnce,
         \A a, b \in Node : \A c \in Conn :
           infos'[a][b] \in {<<c, "out">>, <<c, "in">>} =>
             infos[a][b] = infos'[a][b] \/ Survives(c)',
         \A c \in Conn : GoingAway(c)' =>
           GoingAway(c) \/ (c <= opened /\ (from[c] # to[c] => Backed(from[c], to[c])))
  PROVE  PInv'
<1>1. \A s \in Session : Doomed(s)' = Doomed(s)
  BY DEF Doomed
<1>2. OpenerEnds' /\ OtherFollows'
  BY <1>1, EndsFrame DEF PInv
<1>3. DoomedOnce'
  BY QueuedOnce DEF PInv, EndsInv
<1>4. ASSUME NEW c \in Conn, Stands(c) PROVE Stands(c)'
  <2>1. <<c, "out">> \in Session
    BY EndsOf
  <2> QED
    BY <1>1, <1>4, <2>1 DEF Stands, NobodyCloses
<1>5. \A a, b \in Node : Backed(a, b) => Backed(a, b)'
  BY <1>2, <1>4, BackedKept DEF Survives
<1>6. Firm' /\ Replaced'
  BY <1>3, <1>4, <1>5, TieFrame
<1> QED
  BY <1>2, <1>3, <1>6 DEF PInv, EndsInv

\* What goes away has been going away.
AwayShrink == \A c \in Conn : BeingRefused(c)' => BeingRefused(c)

\* A refusal is handed on, and not made, by the step.
LEMMA HandedOn ==
  ASSUME \A s \in Session :
           /\ RefusalDue(s)' => RefusalDue(s)
           /\ HandledRefusal(s)' => HandledRefusal(s) \/ RefusalDue(s)
           /\ Refusing(s)' => Refusing(s)
  PROVE  AwayShrink
<1> SUFFICES ASSUME NEW c \in Conn, BeingRefused(c)' PROVE BeingRefused(c)
  BY DEF AwayShrink
<1>1. <<c, "out">> \in Session /\ <<c, "in">> \in Session
  BY EndsOf
<1>2. Refusing(<<c, "in">>)' \/ RefusalDue(<<c, "out">>)' \/ HandledRefusal(<<c, "out">>)'
  BY DEF BeingRefused
<1> QED
  BY <1>1, <1>2 DEF BeingRefused

\* What is neither closed, queued nor refused by the step is going away already.
LEMMA AwayKept ==
  ASSUME NobodyCloses, UNCHANGED destroy, AwayShrink, NEW c \in Conn, GoingAway(c)'
  PROVE  GoingAway(c)
<1>1. <<c, "out">> \in Session /\ <<c, "in">> \in Session
  BY EndsOf
<1>2. Doomed(<<c, "out">>)' = Doomed(<<c, "out">>)
  BY DEF Doomed
<1>3. sess'[<<c, "out">>] = "closed" \/ Doomed(<<c, "out">>)' \/ BeingRefused(c)'
  BY DEF GoingAway
<1>4. sess'[<<c, "out">>] = "closed" => sess[<<c, "out">>] = "closed"
  BY <1>1 DEF NobodyCloses
<1> QED
  BY <1>1, <1>2, <1>3, <1>4 DEF AwayShrink, GoingAway

\* Steps that register nothing and refuse nothing, either.
LEMMA QuietPair ==
  ASSUME IInv, IInv', PInv, Kept, UNCHANGED <<destroy, infos>>,
         NobodyCloses, NothingEnds, HandledOnce, AwayShrink
  PROVE  PInv'
<1>1. \A c \in Conn : GoingAway(c)' => GoingAway(c)
  BY AwayKept
<1> QED
  BY <1>1, CalmStep

\* What is not written gives nothing away.
LEMMA UnchangedPair ==
  /\ UNCHANGED sess => NobodyCloses
  /\ UNCHANGED wire => NothingEnds
  /\ UNCHANGED <<nodeId, handler>> => HandledOnce
  /\ UNCHANGED <<wire, packets, handler>> => AwayShrink
<1>1. UNCHANGED wire => NothingEnds
  BY DEF NothingEnds
<1>2. UNCHANGED <<nodeId, handler>> => HandledOnce
  BY DEF HandledOnce, Handled
<1>3. UNCHANGED <<wire, packets, handler>> => AwayShrink
  BY HandedOn DEF RefusalDue, HandledRefusal, Refusing
<1> QED
  BY <1>1, <1>2, <1>3 DEF NobodyCloses

\* A handler that returns, or goes on from the reply.
LEMMA HandlersEnd ==
  ASSUME IInv,
         \A n \in Node :
           \/ handler'[n] \in {handler[n], Idle}
           \/ /\ handler[n].step \in {"reply", "setHostId", "setHostConnected"}
              /\ handler'[n].session = handler[n].session
              /\ handler'[n].step \in {"setHostId", "setHostConnected", "addInfo"}
  PROVE  /\ HandlersShrink
         /\ \A s \in Session : Refusing(s)' => Refusing(s)
         /\ UNCHANGED nodeId => HandledOnce
         /\ UNCHANGED <<wire, packets>> => AwayShrink
<1>1. HandlersShrink
  BY HandlersGoOn
<1>2. ASSUME NEW s \in Session, Refusing(s)' PROVE Refusing(s)
  <2>1. PICK n \in Node : handler'[n].session = s /\ handler'[n].step = "answer"
                          /\ handler'[n].result # 0
    BY <1>2 DEF Refusing
  <2>2. Idle.session # s
    BY PeerFacts DEF Idle
  <2>3. handler'[n] # Idle
    BY <2>1, <2>2
  <2>4. handler'[n] = handler[n]
    BY <2>1, <2>3
  <2> QED
    BY <2>1, <2>4 DEF Refusing
<1>3. UNCHANGED nodeId => HandledOnce
  BY <1>1 DEF HandledOnce, HandlersShrink
<1>4. UNCHANGED <<wire, packets>> => AwayShrink
  BY <1>1, <1>2, HandedOn DEF HandlersShrink, RefusalDue
<1> QED
  BY <1>1, <1>2, <1>3, <1>4

-----------------------------------------------------------------------------
(* Every action.                                                           *)

\* Nothing is there when the processes start.
LEMMA InitPair == Init => PInv
<1> SUFFICES ASSUME Init PROVE PInv
  OBVIOUS
<1>1. \A s \in Session : sess[s] = "none" /\ wire[s] = << >>
  BY DEF Init
<1>2. /\ \A n \in Node : /\ packets[n] = << >> /\ destroy[n] = << >>
                         /\ handler[n].session = NoSession
      /\ \A n, m \in Node : infos[n][m] = NoSession
  BY DEF Init, Idle
<1>3. \A s \in Session : ~Doomed(s)
  BY <1>2, NothingInEmpty DEF Doomed
<1>4. \A s \in Session : ~RefusalDue(s) /\ ~HandledRefusal(s) /\ ~Refusing(s)
  BY <1>1, <1>2, PeerFacts, NothingInEmpty DEF RefusalDue, HandledRefusal, Refusing
<1>5. \A c \in Conn : ~GoingAway(c)
  BY <1>1, <1>3, <1>4, EndsOf DEF GoingAway, BeingRefused
<1>6. EndsInv
  BY <1>1, <1>2, <1>3, NothingInEmpty, EndOnly
  DEF EndsInv, DoomedOnce, OpenerEnds, OtherFollows
<1>7. Firm /\ Replaced
  BY <1>2, <1>5, EndsOf DEF Firm, Replaced
<1> QED
  BY <1>6, <1>7 DEF PInv

\* The connect handler.
LEMMA ConnectedPair ==
  ASSUME IInv, IInv', PInv, Kept, NEW n \in Node, NEW h \in Hosts[n], Connected(n, h)
  PROVE  PInv'
<1>1. PICK c \in Conn : c = connecting[n][h].fd
  BY HostsAssumption DEF Connected, Selecting, IInv, TypeOK, Attempt
<1>2. sess[<<c, "out">>] = "none"
  <2>1. c # NoConn /\ h \in Node /\ h # NoNode /\ GoodAttempt(n, h)
    BY <1>1, HostsAssumption, NodeAssumption DEF Conn, NoConn, IInv, NoNode
  <2> QED
    BY <1>1, <2>1 DEF GoodAttempt, Connected, Selecting
<1>3. PICK s \in Session, u \in Session : s = <<c, "in">> /\ u = <<c, "out">>
  BY EndsOf
<1>4. PICK p : p = ClientInfo(n)
  OBVIOUS
<1>5. p # Fin /\ p.result = 0
  BY <1>4 DEF ClientInfo, Fin
<1>6. /\ sess' = [sess EXCEPT ![u] = "open"]
      /\ wire' = [wire EXCEPT ![s] = Append(wire[s], p)]
      /\ UNCHANGED <<nodeId, infos, packets, handler, destroy>>
  BY <1>1, <1>3, <1>4 DEF Connected
<1>7. NobodyCloses
  BY <1>2, <1>3, <1>6 DEF NobodyCloses, IInv, TypeOK
<1>8. /\ wire[s] \in Seq(Packet \cup {Fin}) /\ wire'[s] = Append(wire[s], p)
      /\ \A t \in Session : t # s => wire'[t] = wire[t]
  BY <1>6 DEF IInv, TypeOK
<1>9. NothingEnds
  BY <1>5, <1>8, EndAppended DEF NothingEnds
<1>10. HandledOnce
  BY <1>6, UnchangedPair
<1>11. AwayShrink
  <2>1. HasRefusal(wire'[s]) => HasRefusal(wire[s])
    BY <1>5, <1>8, RefusalAppended
  <2> QED
    BY <1>6, <1>8, <2>1, HandedOn DEF RefusalDue, HandledRefusal, Refusing
<1> QED
  BY <1>6, <1>7, <1>9, <1>10, <1>11, QuietPair

\* The acceptor.
LEMMA AcceptPair ==
  ASSUME IInv, IInv', PInv, Kept, NEW c \in Conn, Accept(c) PROVE PInv'
<1>1. <<c, "in">> \in Session
  BY EndsOf
<1>2. NobodyCloses
  BY <1>1 DEF Accept, NobodyCloses, IInv, TypeOK
<1> QED
  BY <1>2, UnchangedPair, QuietPair DEF Accept, nodeVars

\* A handler begins with what was queued for it.
LEMMA BeginHandlerPair ==
  ASSUME IInv, OInv, IInv', PInv, Kept, NEW n \in Node, BeginHandler(n) PROVE PInv'
<1>1. UNCHANGED <<connVars, sess, wire, infos, destroy>>
  BY DEF BeginHandler
<1>2. packets[n] # << >> /\ packets' = [packets EXCEPT ![n] = Tail(packets[n])]
  BY DEF BeginHandler
<1>3. PICK a \in GoodArrival(n) : a = Head(packets[n])
  BY <1>2, HeadTail DEF IInv
<1>4. PICK s \in Session : s = a.session
  BY DEF GoodArrival, SessionsOf
<1>5. /\ QueuesShrink /\ Queued(s)
      /\ a.packet.result # 0 => RefusalDue(s)
  BY <1>2, <1>3, <1>4, QueueHead DEF OInv
<1>6. NothingArrives
  BY <1>1, <1>5, UnchangedOnce, NothingNew DEF OInv
<1>7. NobodyCloses /\ NothingEnds
  BY <1>1, UnchangedPair
<1>8. CASE UNCHANGED <<nodeId, handler>>
  <2>1. AwayShrink
    BY <1>6, <1>8, HandedOn DEF NothingArrives, HandledRefusal, Refusing
  <2>2. HandledOnce
    BY <1>8, UnchangedPair
  <2> QED
    BY <1>1, <1>7, <2>1, <2>2, QuietPair
<1>9. CASE ~UNCHANGED <<nodeId, handler>>
  <2> DEFINE p == a.packet
             b == [session |-> s, id |-> p.id, result |-> p.result,
                   step |-> IF p.kind = "ClientInfo" THEN "register" ELSE "reply"]
  <2>1. nodeId' = [nodeId EXCEPT ![s] = p.id] /\ handler' = [handler EXCEPT ![n] = b]
    BY <1>3, <1>4, <1>9 DEF BeginHandler, SetNodeId
  <2>2. b.session = s /\ b.result = p.result /\ b.step \in {"register", "reply"}
    OBVIOUS
  <2>3. p.id \in Node /\ p.id # NoNode
    <3>1. p \in Packet
      BY DEF GoodArrival, Arrival
    <3> QED
      BY <3>1, NodeAssumption DEF Packet, NoNode
  <2>4. nodeId[s] = NoNode
    BY <1>5 DEF Waiting, OInv, Ordered
  <2>5. p.result # 0 => RefusalDue(s)
    BY <1>5
  <2> HIDE DEF p, b
  <2>6. /\ nodeId'[s] # NoNode /\ \A t \in Session : t # s => nodeId'[t] = nodeId[t]
        /\ handler'[n] = b /\ \A m \in Node : m # n => handler'[m] = handler[m]
    BY <2>1, <2>3 DEF IInv, TypeOK
  <2>7. HandledOnce
    <3>1. \A t \in Session : Handled(t)' => Handled(t) \/ t = s
      BY <2>2, <2>6 DEF Handled
    <3> QED
      BY <2>4, <2>6, <3>1 DEF HandledOnce
  <2>8. ASSUME NEW t \in Session
        PROVE  /\ HandledRefusal(t)' => HandledRefusal(t) \/ RefusalDue(t)
               /\ Refusing(t)' => Refusing(t)
    BY <2>2, <2>5, <2>6 DEF HandledRefusal, Refusing
  <2>9. AwayShrink
    BY <1>6, <2>8, HandedOn DEF NothingArrives
  <2> QED
    BY <1>1, <1>7, <2>7, <2>9, QuietPair
<1> QED
  BY <1>8, <1>9

\* The answer hands the refusal on to the other end.
LEMMA AnswerClientPair ==
  ASSUME IInv, OInv, IInv', PInv, Kept, NEW n \in Node, AnswerClient(n) PROVE PInv'
<1>1. handler[n] \in GoodHandler(n) /\ handler[n].step = "answer"
  BY AtStepGood DEF AnswerClient, Step, AtStep
<1>2. PICK s \in Session : s = handler[n].session
  BY <1>1, GoodHandlerFacts DEF IInv
<1>3. s[2] = "in"
  BY <1>1, <1>2, OwnHandler
<1>4. PICK u \in Session : u = Peer(s)
  BY PeerFacts
<1>5. UNCHANGED <<connVars, sess, nodeId, packets, infos, destroy>>
  BY DEF AnswerClient
<1>6. handler'[n] = Idle /\ \A m \in Node : m # n => handler'[m] = handler[m]
  BY DEF AnswerClient, Return, IInv, TypeOK
<1>7. /\ HandlersShrink /\ HandledOnce
      /\ \A t \in Session : Refusing(t)' => Refusing(t)
  BY <1>5, <1>6, HandlersEnd
<1>8. PICK p : p = ClientInfoReply(n, handler[n].result)
  OBVIOUS
<1>9. p.result = handler[n].result /\ p # Fin
  BY <1>8 DEF ClientInfoReply, Fin
<1>10. UNCHANGED wire \/ wire' = [wire EXCEPT ![u] = Append(wire[u], p)]
  BY <1>2, <1>4, <1>8 DEF AnswerClient, Send
<1>11. /\ wire[u] \in Seq(Packet \cup {Fin})
       /\ wire'[u] = wire[u] \/ wire'[u] = Append(wire[u], p)
       /\ \A t \in Session : t # u => wire'[t] = wire[t]
  BY <1>10 DEF IInv, TypeOK
<1>12. NothingEnds
  BY <1>9, <1>11, EndAppended DEF NothingEnds
<1>13. NobodyCloses
  BY <1>5, UnchangedPair
<1>14. AwayShrink
  <2> SUFFICES ASSUME NEW c \in Conn, BeingRefused(c)' PROVE BeingRefused(c)
    BY DEF AwayShrink
  <2>1. PICK v \in Session, w \in Session :
          v = <<c, "out">> /\ w = <<c, "in">> /\ Peer(w) = v /\ Peer(v) = w
    BY EndsOf
  <2>2. Refusing(w)' \/ RefusalDue(v)' \/ HandledRefusal(v)'
    BY <2>1 DEF BeingRefused
  <2>3. ASSUME RefusalDue(v)' PROVE RefusalDue(v) \/ (v = u /\ p.result # 0)
    <3>1. HasRefusal(wire'[v]) => HasRefusal(wire[v]) \/ (v = u /\ p.result # 0)
      BY <1>11, RefusalAppended
    <3> QED
      BY <1>5, <2>3, <3>1 DEF RefusalDue
  <2>4. v = u => w = s
    BY <1>4, <2>1, PeerFacts
  <2>5. p.result # 0 => Refusing(s)
    BY <1>1, <1>2, <1>9 DEF Refusing
  <2> QED
    BY <1>7, <2>1, <2>2, <2>3, <2>4, <2>5 DEF BeingRefused, HandlersShrink
<1> QED
  BY <1>5, <1>7, <1>12, <1>13, <1>14, QuietPair

\* A client is registered while its opener waits for the answer; it is refused
\* when the other end has registered another connection.
LEMMA RegisterClientPair ==
  ASSUME IInv, OInv, IInv', PInv, Kept, NEW n \in Node, RegisterClient(n) PROVE PInv'
<1>1. handler[n] \in GoodHandler(n) /\ handler[n].step = "register"
  BY AtStepGood DEF RegisterClient, Step, AtStep
<1>2. PICK s \in Session, id \in Node : s = handler[n].session /\ id = handler[n].id
  BY <1>1, GoodHandlerFacts DEF IInv
<1>3. /\ s[2] = "in" /\ Handled(s) /\ handler[n] \in Busy
      /\ id = Owner(Peer(s)) /\ Owner(s) = n /\ s[1] <= opened
  BY <1>1, <1>2, OwnHandler, GoodHandlerFacts DEF Handled, IInv
<1>4. PICK c \in Conn, u \in Session :
        s = <<c, "in">> /\ u = <<c, "out">> /\ Peer(s) = u /\ Peer(u) = s
  <2>1. s[1] \in Conn /\ s = <<s[1], "in">> /\ Peer(s) = <<s[1], "out">>
    BY <1>3, SessionIsEnd
  <2> QED
    BY <2>1, EndsOf
<1>5. c <= opened /\ from[c] = id /\ to[c] = n
  BY <1>3, <1>4, EndsOf
<1>6. UNCHANGED <<connVars, sess, nodeId, wire, packets, destroy>>
  BY DEF RegisterClient, sessVars
<1>7. PICK r : r = ReplyResult(n, id)
  OBVIOUS
<1>8. /\ \A m \in Node : m # n => handler'[m] = handler[m]
      /\ handler'[n].session = s /\ handler'[n].result = r /\ handler'[n].step = "answer"
  <2>1. handler' = [handler EXCEPT ![n] = [handler[n] EXCEPT !.result = r, !.step = "answer"]]
    BY <1>2, <1>7 DEF RegisterClient
  <2>2. PICK b : b = [handler[n] EXCEPT !.result = r, !.step = "answer"]
    OBVIOUS
  <2>3. b.session = s /\ b.result = r /\ b.step = "answer"
    BY <1>2, <1>3, <2>2 DEF Busy
  <2>4. handler \in [Node -> Busy \cup {Idle}]
    BY DEF IInv, TypeOK
  <2> QED
    BY <2>1, <2>2, <2>3, <2>4
<1>9. HandledOnce
  <2>1. \A t \in Session : Handled(t)' => Handled(t)
    BY <1>2, <1>8 DEF Handled
  <2> QED
    BY <1>6, <2>1 DEF HandledOnce
<1>10. Stands(c)'
  <2>1. nodeId[u] = NoNode
    BY <1>3, <1>4 DEF OInv, Ordered
  <2>2. sess[u] # "closed" /\ ~Doomed(u)
    BY <1>4, <2>1 DEF PInv, EndsInv, OpenerEnds
  <2>3. sess[u] # "none"
    <3>1. sess[s] # "none"
      BY <1>2, <1>1, GoodHandlerFacts DEF IInv
    <3> QED
      BY <1>3, <1>4, <3>1 DEF OInv, Ordered
  <2>4. sess[u] = "open"
    BY <2>2, <2>3 DEF IInv, TypeOK
  <2>5. ~Doomed(u)'
    BY <1>6, <2>2 DEF Doomed
  <2> QED
    BY <1>4, <1>6, <2>4, <2>5 DEF Stands
<1>11. ASSUME NEW a \in Node, NEW b \in Node, NEW d \in Conn,
              infos'[a][b] \in {<<d, "out">>, <<d, "in">>}
       PROVE  infos[a][b] = infos'[a][b] \/ Survives(d)'
  <2>1. \/ UNCHANGED infos
        \/ AddHostIdInfo(n, id, s)
    BY <1>2 DEF RegisterClient
  <2>2. infos'[a][b] = infos[a][b] \/ (a = n /\ b = id /\ infos'[a][b] = s)
    BY <2>1, AddHostIdInfoKept DEF IInv
  <2>3. ASSUME a = n, b = id, infos'[a][b] = s PROVE Survives(d)'
    <3>1. d = c
      BY <1>4, <1>11, <2>3
    <3>2. from' = from /\ to' = to
      BY <1>6 DEF connVars
    <3> QED
      BY <1>4, <1>5, <1>10, <2>3, <3>1, <3>2 DEF Survives
  <2> QED
    BY <2>2, <2>3
<1>12. ASSUME NEW d \in Conn, GoingAway(d)'
       PROVE  GoingAway(d) \/ (d <= opened /\ (from[d] # to[d] => Backed(from[d], to[d])))
  <2>1. PICK v \in Session, w \in Session : v = <<d, "out">> /\ w = <<d, "in">>
    BY EndsOf
  <2>2. sess'[v] = "closed" \/ Doomed(v)' \/ Refusing(w)' \/ RefusalDue(v)' \/ HandledRefusal(v)'
    BY <1>12, <2>1 DEF GoingAway, BeingRefused
  <2>3. (Doomed(v)' => Doomed(v)) /\ (RefusalDue(v)' => RefusalDue(v))
    BY <1>6 DEF Doomed, RefusalDue
  <2>4. HandledRefusal(v)' => HandledRefusal(v)
    BY <1>8 DEF HandledRefusal
  <2>5. Refusing(w)' => Refusing(w) \/ (w = s /\ r # 0)
    BY <1>8 DEF Refusing
  <2>6. ASSUME w = s, r # 0, from[d] # to[d] PROVE Backed(from[d], to[d])
    <3>1. d = c /\ id # n
      BY <1>4, <1>5, <2>1, <2>6
    <3>2. infos[n][id] # NoSession
      BY <1>7, <2>6, <3>1 DEF ReplyResult
    <3>3. Backed(n, id)
      BY <3>2 DEF PInv, Replaced
    <3>4. {n, id} = {id, n}
      OBVIOUS
    <3> QED
      BY <1>5, <3>1, <3>3, <3>4 DEF Backed
  <2>7. w = s => d <= opened
    BY <1>4, <1>5, <2>1
  <2> QED
    BY <1>6, <2>1, <2>2, <2>3, <2>4, <2>5, <2>6, <2>7 DEF GoingAway, BeingRefused
<1>13. NobodyCloses /\ NothingEnds
  BY <1>6, UnchangedPair
<1> QED
  BY <1>6, <1>9, <1>11, <1>12, <1>13, CalmStep

\* The opener registers what the other end has registered.
LEMMA RegisterServerPair ==
  ASSUME IInv, OInv, IInv', PInv, Kept, NEW n \in Node, RegisterServer(n) PROVE PInv'
<1>1. handler[n] \in GoodHandler(n) /\ handler[n].step = "addInfo"
  BY AtStepGood DEF RegisterServer, Step, AtStep
<1>2. PICK s \in Session, id \in Node : s = handler[n].session /\ id = handler[n].id
  BY <1>1, GoodHandlerFacts DEF IInv
<1>3. /\ s[2] = "out" /\ Handled(s) /\ id = Owner(Peer(s)) /\ Owner(s) = n
      /\ s[1] <= opened /\ sess[s] # "none"
  BY <1>1, <1>2, OwnHandler, GoodHandlerFacts DEF Handled, IInv
<1>4. id # n /\ Agreed(s)
  BY <1>1, <1>2 DEF GoodHandler
<1>5. PICK c \in Conn, u \in Session :
        s = <<c, "out">> /\ u = <<c, "in">> /\ Peer(s) = u /\ Peer(u) = s
  <2>1. s[1] \in Conn /\ s = <<s[1], "out">> /\ Peer(s) = <<s[1], "in">>
    BY <1>3, SessionIsEnd
  <2> QED
    BY <2>1, EndsOf
<1>6. c <= opened /\ from[c] = n /\ to[c] = id
  BY <1>3, <1>5, EndsOf
<1>7. UNCHANGED <<connVars, sess, nodeId, wire, packets, destroy>>
  BY DEF RegisterServer, sessVars
<1>8. handler'[n] = Idle /\ \A m \in Node : m # n => handler'[m] = handler[m]
  BY DEF RegisterServer, Return, IInv, TypeOK
<1>9. Stands(c)
  <2>1. sess[s] # "closed" /\ ~Doomed(s)
    BY <1>3 DEF PInv, EndsInv, OpenerEnds
  <2>2. sess[s] = "open"
    BY <1>3, <2>1 DEF IInv, TypeOK
  <2> QED
    BY <1>5, <2>1, <2>2 DEF Stands
<1>10. infos[id][n] = u
  <2>1. sess[u] # "closed"
    BY <1>5, <1>9 DEF Stands, PInv, EndsInv, OtherFollows
  <2> QED
    BY <1>3, <1>4, <1>5, <2>1 DEF Agreed
<1>11. \A a, b \in Node : infos'[a][b] = infos[a][b] \/ (a = n /\ b = id /\ infos'[a][b] = s)
  <2>1. AddHostIdInfo(n, id, s)
    BY <1>2 DEF RegisterServer
  <2> QED
    BY <2>1, AddHostIdInfoKept DEF IInv
<1>12. Survives(c)'
  <2>1. infos'[id][n] = u
    BY <1>4, <1>10, <1>11
  <2>2. from' = from /\ to' = to
    BY <1>7 DEF connVars
  <2>3. Stands(c)'
    BY <1>7, <1>9 DEF Stands, Doomed
  <2> QED
    BY <1>5, <1>6, <2>1, <2>2, <2>3 DEF Survives
<1>13. ASSUME NEW a \in Node, NEW b \in Node, NEW d \in Conn,
              infos'[a][b] \in {<<d, "out">>, <<d, "in">>}
       PROVE  infos[a][b] = infos'[a][b] \/ Survives(d)'
  <2>1. CASE infos'[a][b] = s
    <3>1. d = c
      BY <1>5, <1>13, <2>1
    <3> QED
      BY <1>12, <3>1
  <2> QED
    BY <1>11, <2>1
<1>14. NobodyCloses /\ NothingEnds /\ HandledOnce /\ AwayShrink
  BY <1>7, <1>8, UnchangedPair, HandlersEnd
<1>15. \A d \in Conn : GoingAway(d)' => GoingAway(d)
  BY <1>7, <1>14, AwayKept
<1> QED
  BY <1>7, <1>13, <1>14, <1>15, CalmStep

\* A registered connection, seen from the smaller id or from its opener,
\* survives.
LEMMA KnownSurvives ==
  ASSUME IInv, PInv, NEW a \in Node, NEW b \in Node, NEW e \in Conn,
         infos[a][b] = <<e, "out">> \/ (infos[a][b] = <<e, "in">> /\ a < b)
  PROVE  e <= opened /\ {from[e], to[e]} = {a, b} /\ Survives(e)
<1>1. infos[a][b] \in {<<e, "out">>, <<e, "in">>}
  OBVIOUS
<1>2. /\ e <= opened /\ {from[e], to[e]} = {a, b}
      /\ infos[a][b] = <<e, "out">> => from[e] = a /\ to[e] = b
      /\ infos[a][b] = <<e, "in">> => from[e] = b /\ to[e] = a
  BY <1>1, RegisteredPair
<1>3. Stands(e)
  BY DEF PInv, Firm
<1>4. CASE infos[a][b] = <<e, "in">>
  BY <1>2, <1>3, <1>4 DEF Survives
<1>5. CASE infos[a][b] = <<e, "out">>
  <2>1. PICK s \in Session, u \in Session :
          /\ s = <<e, "out">> /\ u = <<e, "in">> /\ Peer(s) = u /\ Peer(u) = s
          /\ Owner(s) = from[e] /\ Owner(u) = to[e] /\ s # NoSession
    BY EndsOf
  <2>2. s[2] = "out" /\ u[2] = "in"
    BY <2>1
  <2>3. Agreed(s)
    BY <1>5, <2>1, <2>2 DEF IInv, GoodInfo
  <2>4. sess[u] # "closed"
    BY <1>3, <2>1, <2>2 DEF Stands, PInv, EndsInv, OtherFollows
  <2>5. infos[to[e]][from[e]] = u
    BY <2>1, <2>3, <2>4 DEF Agreed
  <2> QED
    BY <1>2, <1>3, <2>1, <2>5 DEF Survives
<1> QED
  BY <1>4, <1>5

\* The handler of the reply tears down what was refused, or gives way to a
\* connection that survives.
LEMMA HandleReplyPair ==
  ASSUME IInv, OInv, IInv', PInv, Kept, NEW n \in Node, HandleReply(n) PROVE PInv'
<1>1. handler[n] \in GoodHandler(n) /\ handler[n].step = "reply"
  BY AtStepGood DEF HandleReply, Step, AtStep
<1>2. PICK s \in Session, id \in Node : s = handler[n].session /\ id = handler[n].id
  BY <1>1, GoodHandlerFacts DEF IInv
<1>3. /\ s[2] = "out" /\ nodeId[s] # NoNode /\ HandledNew(s) /\ handler[n] \in Busy
      /\ id = Owner(Peer(s)) /\ Owner(s) = n /\ s[1] <= opened /\ s \in SessionsOf(n)
      /\ sess[s] # "none" /\ Handled(s)
      /\ handler[n].result # 0 => HandledRefusal(s)
  BY <1>1, <1>2, OwnHandler, GoodHandlerFacts DEF HandledNew, HandledRefusal, Handled, IInv
<1>4. PICK c \in Conn, u \in Session :
        s = <<c, "out">> /\ u = <<c, "in">> /\ Peer(s) = u /\ Peer(u) = s
  <2>1. s[1] \in Conn /\ s = <<s[1], "out">> /\ Peer(s) = <<s[1], "in">>
    BY <1>3, SessionIsEnd
  <2> QED
    BY <2>1, EndsOf
<1>5. c <= opened /\ from[c] = n /\ to[c] = id
  BY <1>3, <1>4, EndsOf
<1>6. UNCHANGED <<connVars, sess, nodeId, wire, packets, infos>>
  BY DEF HandleReply, sessVars
<1>7. /\ \A m \in Node : m # n => handler'[m] = handler[m]
      /\ \/ handler'[n] = Idle
         \/ handler'[n].session = s /\ handler'[n].step = "setHostId"
  <2>1. Return(n) \/ GoTo(n, "setHostId")
    BY DEF HandleReply
  <2> QED
    BY <1>2, <1>3, <2>1, HandlerStep DEF IInv
<1>8. HandledOnce /\ AwayShrink
  BY <1>1, <1>2, <1>6, <1>7, HandlersEnd
<1>9. NobodyCloses /\ NothingEnds
  BY <1>6, UnchangedPair
<1>10. sess[s] = "open" /\ ~Doomed(s)
  <2>1. sess[s] # "closed" /\ ~Doomed(s)
    BY <1>3 DEF PInv, EndsInv, OpenerEnds
  <2> QED
    BY <1>3, <2>1 DEF IInv, TypeOK
<1>11. CASE UNCHANGED destroy
  BY <1>6, <1>8, <1>9, <1>11, QuietPair
<1>12. ASSUME NEW flag, TearDown(n, s, flag, FALSE), Return(n),
              \/ handler[n].result # 0
              \/ infos[n][id] # NoSession /\ n < id
       PROVE  PInv'
  <2>1. /\ \A t \in Session : Doomed(t)' => Doomed(t) \/ t = s
        /\ \A m \in Node : m # n => destroy'[m] = destroy[m]
        /\ \A t \in Session : Mentions(destroy'[n], t) => Mentions(destroy[n], t) \/ t = s
        /\ OneEach(destroy[n]) /\ ~Mentions(destroy[n], s) => OneEach(destroy'[n])
    BY <1>12, TearDownDooms DEF IInv
  <2>2. ~Handled(s)'
    <3>1. handler'[n] = Idle
      BY <1>12 DEF Return, IInv, TypeOK
    <3> QED
      BY <1>2, <1>7, <3>1, HandlerReturned
  <2>3. OpenerEnds' /\ OtherFollows'
    <3>1. NewlyDoomed(s)
      BY <1>3, <1>10, <2>2 DEF NewlyDoomed
    <3> QED
      BY <1>8, <1>9, <2>1, <3>1, EndsFrame DEF PInv
  <2>4. DoomedOnce'
    <3>1. ~Mentions(destroy[n], s)
      BY <1>10 DEF Doomed
    <3> QED
      BY <1>3, <2>1, <3>1, QueuedOnce DEF PInv, EndsInv
  <2>5. ASSUME NEW d \in Conn, d # c, Stands(d) PROVE Stands(d)'
    <3>1. PICK v \in Session : v = <<d, "out">>
      BY EndsOf
    <3>2. v # s
      <4>1. v[1] = d /\ s[1] = c
        BY <1>4, <3>1
      <4> QED
        BY <2>5, <4>1
    <3> QED
      BY <1>6, <2>1, <2>5, <3>1, <3>2 DEF Stands
  <2>6. ~Registered(s) /\ (handler[n].result # 0 => ~Registered(u))
    BY <1>3, <1>4 DEF OInv, RefusedIsNot
  <2>7. ASSUME handler[n].result = 0
        PROVE  \E e \in Conn : e # c /\ e <= opened /\ {from[e], to[e]} = {n, id} /\ Survives(e)
    <3>1. PICK e \in Conn : infos[n][id] \in {<<e, "out">>, <<e, "in">>}
      BY <1>12, <2>7, RegisteredEnd DEF IInv
    <3>2. infos[n][id] = <<e, "out">> \/ (infos[n][id] = <<e, "in">> /\ n < id)
      BY <1>12, <2>7, <3>1
    <3>3. e <= opened /\ {from[e], to[e]} = {n, id} /\ Survives(e)
      BY <3>2, KnownSurvives
    <3>4. infos[n][id] # s
      BY <2>6 DEF Registered
    <3>5. infos[n][id] # u
      <4>1. ASSUME infos[n][id] = <<c, "in">> PROVE from[c] = id /\ n # id
        <5>1. infos[n][id] \in {<<c, "out">>, <<c, "in">>}
          BY <4>1
        <5>2. /\ n # id
              /\ infos[n][id] = <<c, "in">> => from[c] = id /\ to[c] = n
          BY <5>1, RegisteredPair
        <5> QED
          BY <4>1, <5>2
      <4> QED
        BY <1>4, <1>5, <4>1
    <3>6. e # c
      BY <1>4, <3>1, <3>4, <3>5
    <3> QED
      BY <3>3, <3>6
  <2>8. ASSUME NEW a \in Node, NEW b \in Node, Backed(a, b) PROVE Backed(a, b)'
    <3>1. PICK d \in Conn : d <= opened /\ {from[d], to[d]} = {a, b} /\ Survives(d)
      BY <2>8 DEF Backed
    <3>2. \E e \in Conn : e # c /\ e <= opened /\ {from[e], to[e]} = {a, b} /\ Survives(e)
      <4>1. CASE d # c
        BY <3>1, <4>1
      <4>2. CASE d = c
        <5>1. infos[id][n] = u
          BY <1>4, <1>5, <3>1, <4>2 DEF Survives
        <5>2. Registered(u)
          BY <5>1 DEF Registered
        <5>3. handler[n].result = 0
          BY <2>6, <5>2
        <5> QED
          BY <1>5, <2>7, <3>1, <4>2, <5>3
      <4> QED
        BY <4>1, <4>2
    <3>3. PICK e \in Conn : e # c /\ e <= opened /\ {from[e], to[e]} = {a, b} /\ Survives(e)
      BY <3>2
    <3>4. Stands(e)'
      BY <2>5, <3>3 DEF Survives
    <3>5. Survives(e)' /\ from'[e] = from[e] /\ to'[e] = to[e]
      BY <2>3, <3>3, <3>4, SurvivesKept
    <3>6. opened' = opened
      BY <1>6 DEF connVars
    <3> QED
      BY <3>3, <3>5, <3>6 DEF Backed
  <2>9. ASSUME NEW a \in Node, NEW b \in Node, NEW d \in Conn,
               infos[a][b] = <<d, "out">> \/ (infos[a][b] = <<d, "in">> /\ a < b),
               Stands(d)
        PROVE  Stands(d)'
    <3>1. CASE d # c
      BY <2>5, <2>9, <3>1
    <3>2. CASE d = c
      <4>1. infos[a][b] = u /\ a < b
        BY <1>4, <2>6, <2>9, <3>2 DEF Registered
      <4>2. handler[n].result = 0
        BY <2>6, <4>1 DEF Registered
      <4>3. from[c] = b /\ to[c] = a
        <5>0. infos[a][b] = <<c, "in">>
          BY <1>4, <4>1
        <5>1. infos[a][b] \in {<<c, "out">>, <<c, "in">>}
          BY <5>0
        <5>2. /\ a # b
              /\ infos[a][b] = <<c, "in">> => from[c] = b /\ to[c] = a
          BY <5>1, RegisteredPair
        <5> QED
          BY <5>0, <5>2
      <4>4. a = id /\ b = n /\ n < id
        BY <1>5, <1>12, <4>2, <4>3
      <4>5. a \in Nat /\ b \in Nat
        BY NodeAssumption
      <4> QED
        BY <4>1, <4>4, <4>5
    <3> QED
      BY <3>1, <3>2
  <2>10. ASSUME NEW d \in Conn, GoingAway(d)'
         PROVE  GoingAway(d) \/ (d <= opened /\ (from[d] # to[d] => Backed(from[d], to[d])))
    <3>1. PICK v \in Session : v = <<d, "out">>
      BY EndsOf
    <3>2. sess'[v] = "closed" \/ Doomed(v)' \/ BeingRefused(d)'
      BY <2>10, <3>1 DEF GoingAway
    <3>3. CASE v = s
      <4>1. d = c
        BY <1>4, <3>1, <3>3
      <4>2. CASE handler[n].result # 0
        BY <1>3, <1>4, <4>1, <4>2 DEF GoingAway, BeingRefused
      <4>3. CASE handler[n].result = 0
        BY <1>5, <1>12, <4>1, <4>3 DEF PInv, Replaced
      <4> QED
        BY <4>2, <4>3
    <3>4. CASE v # s
      BY <1>6, <1>8, <2>1, <3>1, <3>2, <3>4 DEF GoingAway, AwayShrink
    <3> QED
      BY <3>3, <3>4
  <2>11. Firm' /\ Replaced'
    BY <1>6, <2>4, <2>8, <2>9, <2>10, TieFrame
  <2> QED
    BY <2>3, <2>4, <2>11 DEF PInv, EndsInv
<1>13. \/ UNCHANGED destroy
       \/ \E flag : /\ TearDown(n, s, flag, FALSE) /\ Return(n)
                    /\ \/ handler[n].result # 0
                       \/ infos[n][id] # NoSession /\ n < id
  BY <1>2 DEF HandleReply, GivesWay
<1> QED
  BY <1>11, <1>12, <1>13

\* A reactor reads a packet, or the end of the stream of a connection that
\* its opener has closed.
LEMMA ReceivePair ==
  ASSUME IInv, OInv, IInv', PInv, Kept, NEW s \in Session, Receive(s) PROVE PInv'
<1>1. UNCHANGED <<connVars, sess, nodeId, infos, handler>>
  BY DEF Receive
<1>2. /\ wire[s] \in Seq(Packet \cup {Fin}) /\ wire[s] # << >> /\ sess[s] = "open"
      /\ wire'[s] = Tail(wire[s]) /\ \A t \in Session : t # s => wire'[t] = wire[t]
  BY DEF Receive, IInv, TypeOK
<1>3. OneEnd(wire[s])
  <2>1. s[2] = "out" => ~HasEnd(wire[s])
    BY DEF PInv, EndsInv, OpenerEnds
  <2>2. s[2] = "in" => OneEnd(wire[s])
    BY DEF PInv, EndsInv, OtherFollows
  <2> QED
    BY <2>1, <2>2, SessionIsEnd DEF HasEnd, OneEnd
<1>4. /\ HasEnd(wire'[s]) => HasEnd(wire[s])
      /\ OneEnd(wire'[s])
      /\ Head(wire[s]) = Fin => HasEnd(wire[s]) /\ ~HasEnd(wire'[s])
  BY <1>2, <1>3, EndRead
<1>5. NothingEnds
  BY <1>2, <1>4 DEF NothingEnds
<1>6. NobodyCloses /\ HandledOnce
  BY <1>1, UnchangedPair
<1>7. AwayShrink
  <2>1. NothingArrives
    BY ReceiveArrives DEF OInv
  <2> QED
    BY <1>1, <2>1, HandedOn DEF NothingArrives, HandledRefusal, Refusing
<1>8. CASE Head(wire[s]) # Fin
  <2>1. UNCHANGED destroy
    BY <1>8 DEF Receive
  <2> QED
    BY <1>1, <1>5, <1>6, <1>7, <2>1, QuietPair
<1>9. CASE Head(wire[s]) = Fin
  <2>1. PICK n \in Node : n = Owner(s) /\ s \in SessionsOf(n)
    <3>1. sess[s] # "none" /\ s[1] <= opened
      BY DEF Receive, IInv
    <3> QED
      BY <3>1, OwnerInNode DEF IInv, SessionsOf
  <2>2. TearDown(n, s, 0, FALSE)
    BY <1>9, <2>1 DEF Receive
  <2>3. s[2] = "in"
    BY <1>4, <1>9, SessionIsEnd DEF PInv, EndsInv, OpenerEnds
  <2>4. sess[Peer(s)] = "closed" /\ ~Doomed(s)
    BY <1>4, <1>9, <2>3 DEF PInv, EndsInv, OtherFollows
  <2>5. NewlyDoomed(s)
    BY <1>2, <1>4, <1>9, <2>3, <2>4 DEF NewlyDoomed
  <2>6. /\ \A t \in Session : Doomed(t)' => Doomed(t) \/ t = s
        /\ \A m \in Node : m # n => destroy'[m] = destroy[m]
        /\ \A t \in Session : Mentions(destroy'[n], t) => Mentions(destroy[n], t) \/ t = s
        /\ OneEach(destroy[n]) /\ ~Mentions(destroy[n], s) => OneEach(destroy'[n])
    BY <2>2, TearDownDooms DEF IInv
  <2>7. OpenerEnds' /\ OtherFollows'
    BY <1>5, <1>6, <2>5, <2>6, EndsFrame DEF PInv
  <2>8. DoomedOnce'
    <3>1. ~Mentions(destroy[n], s)
      BY <2>4 DEF Doomed
    <3> QED
      BY <2>1, <2>6, <3>1, QueuedOnce DEF PInv, EndsInv
  <2>9. ASSUME NEW c \in Conn
        PROVE  /\ Stands(c) => Stands(c)'
               /\ GoingAway(c)' => GoingAway(c)
    <3>1. PICK v \in Session : v = <<c, "out">>
      BY EndsOf
    <3>2. v # s
      <4>1. v[2] = "out"
        BY <3>1
      <4> QED
        BY <2>3, <4>1
    <3>3. Doomed(v)' => Doomed(v)
      BY <2>6, <3>2
    <3>4. Stands(c) => Stands(c)'
      BY <1>1, <3>1, <3>3 DEF Stands
    <3>5. GoingAway(c)' => GoingAway(c)
      BY <1>1, <1>7, <3>1, <3>3 DEF GoingAway, AwayShrink
    <3> QED
      BY <3>4, <3>5
  <2>10. \A a, b \in Node : Backed(a, b) => Backed(a, b)'
    BY <2>7, <2>9, BackedKept DEF Survives
  <2>11. Firm' /\ Replaced'
    BY <1>1, <2>8, <2>9, <2>10, TieFrame
  <2> QED
    BY <2>7, <2>8, <2>11 DEF PInv, EndsInv
<1> QED
  BY <1>8, <1>9

\* The destroyer closes a session that was queued: the opener's, which the
\* other end will read, or the other end, when the opener's is gone.
LEMMA DestroyPair ==
  ASSUME IInv, OInv, IInv', PInv, Kept, NEW n \in Node, Destroy(n) PROVE PInv'
<1>1. destroy[n] \in Seq(Teardown) /\ destroy[n] # << >>
  BY DEF Destroy, IInv, TypeOK
<1>2. PICK d \in Teardown : d = Head(destroy[n])
  BY <1>1, HeadTail
<1>3. PICK s \in Session : s = d.session
  BY DEF Teardown
<1>4. /\ \A t : Mentions(Tail(destroy[n]), t) => Mentions(destroy[n], t)
      /\ OneEach(destroy[n]) => /\ OneEach(Tail(destroy[n]))
                                /\ ~Mentions(Tail(destroy[n]), s)
      /\ Mentions(destroy[n], s)
  BY <1>1, <1>2, <1>3, ArrivalTaken
<1>5. Doomed(s) /\ s \in SessionsOf(n) /\ OneEach(destroy[n])
  BY <1>4 DEF Doomed, PInv, EndsInv, DoomedOnce
<1>6. sess[s] = "open"
  BY <1>5, SessionIsEnd DEF PInv, EndsInv, OpenerEnds, OtherFollows
<1>7. PICK u \in Session : u = Peer(s) /\ Peer(u) = s /\ u # s
  BY PeerFacts
<1>8. /\ CloseSockets({s})
      /\ UNCHANGED <<connVars, nodeId, packets, handler>>
      /\ UNCHANGED infos \/ RemoveHostIdInfo(n, nodeId[s], s)
      /\ destroy' = [destroy EXCEPT ![n] = Tail(destroy[n])]
  BY <1>2, <1>3, <1>6 DEF Destroy, DisconnectClient
<1>9. sess'[s] = "closed" /\ \A t \in Session : t # s => sess'[t] = sess[t]
  BY <1>8 DEF CloseSockets
<1>10. /\ wire'[s] = << >>
       /\ \A t \in Session : t # s /\ t # u => wire'[t] = wire[t]
       /\ wire'[u] \in {<<Fin>>, Append(wire[u], Fin), wire[u]}
       /\ sess[u] = "closed" => wire'[u] = wire[u]
  <2>1. \A t \in Session : Peer(t) = s => t = u
    BY <1>7, PeerFacts
  <2>2. PICK reset :
          wire' = [t \in Session |->
            CASE t \in {s} -> << >>
              [] t \notin {s} /\ Peer(t) \in {s} /\ sess[t] # "closed" ->
                   IF t \in reset THEN <<Fin>> ELSE Append(wire[t], Fin)
              [] OTHER -> wire[t]]
    BY <1>8 DEF CloseSockets
  <2>3. wire'[s] = << >>
    BY <2>2
  <2>4. ASSUME NEW t \in Session, t # s, t # u PROVE wire'[t] = wire[t]
    BY <2>1, <2>2, <2>4
  <2>5. wire'[u] \in {<<Fin>>, Append(wire[u], Fin), wire[u]}
    BY <1>7, <2>2
  <2>6. sess[u] = "closed" => wire'[u] = wire[u]
    BY <1>7, <2>2
  <2> QED
    BY <2>3, <2>4, <2>5, <2>6
<1>11. /\ destroy'[n] = Tail(destroy[n])
       /\ \A m \in Node : m # n => destroy'[m] = destroy[m]
  BY <1>8 DEF IInv, TypeOK
<1>12. \A t \in Session : Doomed(t)' => Doomed(t) /\ t # s
  <2> SUFFICES ASSUME NEW t \in Session, NEW m \in Node, Mentions(destroy'[m], t)
               PROVE  Doomed(t) /\ t # s
    BY DEF Doomed
  <2>1. CASE m = n
    BY <1>4, <1>5, <1>11, <2>1 DEF Doomed
  <2>2. CASE m # n
    <3>1. Mentions(destroy[m], t)
      BY <1>11, <2>2
    <3>2. Owner(t) = m
      BY <3>1 DEF PInv, EndsInv, DoomedOnce, SessionsOf
    <3>3. Owner(s) = n
      BY <1>5 DEF SessionsOf
    <3> QED
      BY <2>2, <3>1, <3>2, <3>3 DEF Doomed
  <2> QED
    BY <2>1, <2>2
<1>13. DoomedOnce'
  BY <1>4, <1>5, <1>11, QueuedOnce DEF PInv, EndsInv
<1>14. OpenerEnds'
  <2> SUFFICES ASSUME NEW t \in Session, t[2] = "out"
               PROVE  /\ ~HasEnd(wire'[t])
                      /\ Doomed(t)' => sess'[t] = "open"
                      /\ Doomed(t)' \/ sess'[t] = "closed" => nodeId'[t] # NoNode /\ ~Handled(t)'
    BY DEF OpenerEnds, NoNode
  <2>1. /\ ~HasEnd(wire[t])
        /\ Doomed(t) => sess[t] = "open"
        /\ Doomed(t) \/ sess[t] = "closed" => nodeId[t] # NoNode /\ ~Handled(t)
    BY DEF PInv, EndsInv, OpenerEnds
  <2>2. t = u => sess[u] = "closed"
    <3>1. t = u => s[2] = "in"
      BY <1>7, SessionIsEnd
    <3> QED
      BY <1>5, <1>7, <3>1 DEF PInv, EndsInv, OtherFollows
  <2>3. wire'[t] \in {<< >>, wire[t]}
    BY <1>10, <2>2
  <2>4. Handled(t)' => Handled(t)
    BY <1>8 DEF Handled
  <2> QED
    BY <1>5, <1>8, <1>9, <1>12, <2>1, <2>3, <2>4, EndOnly
<1>15. OtherFollows'
  <2> SUFFICES ASSUME NEW t \in Session, t[2] = "in"
               PROVE  /\ HasEnd(wire'[t]) \/ Doomed(t)' \/ sess'[t] = "closed" =>
                           sess'[Peer(t)] = "closed"
                      /\ OneEnd(wire'[t])
                      /\ Doomed(t)' => sess'[t] = "open" /\ ~HasEnd(wire'[t])
    BY DEF OtherFollows, Peer
  <2>1. /\ HasEnd(wire[t]) \/ Doomed(t) \/ sess[t] = "closed" => sess[Peer(t)] = "closed"
        /\ OneEnd(wire[t])
        /\ Doomed(t) => sess[t] = "open" /\ ~HasEnd(wire[t])
    BY DEF PInv, EndsInv, OtherFollows
  <2>2. Peer(t) \in Session
    BY PeerFacts
  <2>3. CASE t = u
    <3>1. Peer(t) = s /\ ~HasEnd(wire[t]) /\ ~Doomed(t)
      BY <1>6, <1>7, <2>1, <2>3
    <3>2. wire[t] \in Seq(Packet \cup {Fin})
      BY DEF IInv, TypeOK
    <3>3. OneEnd(wire'[t])
      <4>1. wire'[t] \in {<<Fin>>, Append(wire[t], Fin), wire[t]}
        BY <1>10, <2>3
      <4>2. OneEnd(Append(wire[t], Fin))
        BY <3>1, <3>2, EndAppended
      <4> QED
        BY <2>1, <4>1, <4>2, EndOnly
    <3> QED
      BY <1>9, <1>12, <3>1, <3>3
  <2>4. CASE t # u
    <3>1. wire'[t] \in {<< >>, wire[t]}
      BY <1>10, <2>4
    <3>2. Doomed(t)' => wire'[t] = wire[t] /\ sess'[t] = sess[t]
      BY <1>9, <1>10, <1>12, <2>4
    <3>3. sess[Peer(t)] = "closed" => sess'[Peer(t)] = "closed"
      BY <1>9, <2>2
    <3>4. HasEnd(wire'[t]) => HasEnd(wire[t])
      BY <3>1, EndOnly
    <3>5. OneEnd(wire'[t])
      BY <2>1, <3>1, EndOnly
    <3>6. sess'[t] = "closed" => sess[t] = "closed" \/ Doomed(t)
      BY <1>5, <1>9
    <3> QED
      BY <1>12, <2>1, <3>2, <3>3, <3>4, <3>5, <3>6
  <2> QED
    BY <2>3, <2>4
<1>16. \A a, b \in Node : infos'[a][b] \in {infos[a][b], NoSession}
  <2>1. infos \in [Node -> [Node -> Session \cup {NoSession}]]
    BY DEF IInv, TypeOK
  <2>2. PICK id : id = nodeId[s]
    OBVIOUS
  <2>3. UNCHANGED infos \/ infos' = [infos EXCEPT ![n][id] = NoSession]
    BY <1>8, <2>2 DEF RemoveHostIdInfo
  <2> QED
    BY <2>1, <2>3
<1>17. AwayShrink
  <2>1. \A t \in Session : \/ wire'[t] = << >> \/ wire'[t] = <<Fin>>
                            \/ wire'[t] = Append(wire[t], Fin) \/ wire'[t] = wire[t]
    BY <1>10
  <2>2. StreamsShrink
    BY <2>1, StreamEnds DEF IInv
  <2>3. NothingArrives
    BY <1>8, <2>2, UnchangedOnce, NothingNew DEF OInv
  <2> QED
    BY <1>8, <2>3, HandedOn DEF NothingArrives, HandledRefusal, Refusing
<1>18. ASSUME NEW c \in Conn
       PROVE  /\ Stands(c) => Stands(c)'
              /\ GoingAway(c)' => GoingAway(c)
  <2>1. PICK v \in Session : v = <<c, "out">>
    BY EndsOf
  <2>2. Stands(c) => Stands(c)'
    BY <1>5, <1>9, <1>12, <2>1 DEF Stands
  <2>3. GoingAway(c)' => GoingAway(c)
    BY <1>5, <1>9, <1>12, <1>17, <2>1 DEF GoingAway, AwayShrink
  <2> QED
    BY <2>2, <2>3
<1>19. \A a, b \in Node : Backed(a, b) => Backed(a, b)'
  BY <1>15, <1>18, BackedKept DEF Survives
<1>20. \A a, b \in Node : \A c \in Conn :
         infos'[a][b] \in {<<c, "out">>, <<c, "in">>} => infos[a][b] = infos'[a][b]
  BY <1>16, EndsOf
<1>21. Firm' /\ Replaced'
  BY <1>13, <1>18, <1>19, <1>20, TieFrame
<1> QED
  BY <1>13, <1>14, <1>15, <1>21 DEF PInv, EndsInv

\* A step of a thread that leaves the sessions and what they say alone.
LEMMA CalmPair ==
  ASSUME IInv, IInv', PInv, Kept,
         UNCHANGED <<destroy, infos, sess, wire, nodeId, packets, handler>>
  PROVE  PInv'
BY UnchangedPair, QuietPair

\* Every step preserves it, when nothing is lost.
LEMMA NextPair ==
  ASSUME NothingIsLost, IInv, OInv, PInv, [Next]_vars PROVE PInv'
<1>1. IInv' /\ Kept
  BY NextInv
<1>2. ASSUME NEW n \in Node, Connector(n) PROVE PInv'
  <2>1. CASE Snapshot(n) \/ MarkWaiting(n)
    BY <1>1, <2>1, CalmPair DEF Snapshot, MarkWaiting, sessVars
  <2>2. ASSUME NEW h \in Hosts[n], PassOver(n, h) \/ StartConnect(n, h) PROVE PInv'
    BY <1>1, <2>2, CalmPair DEF PassOver, StartConnect, sessVars
  <2>3. ASSUME NEW h \in Hosts[n], Connected(n, h) PROVE PInv'
    BY <1>1, <2>3, ConnectedPair
  <2> QED
    BY <1>2, <2>1, <2>2, <2>3 DEF Connector
<1>3. ASSUME NEW n \in Node, NEW step \in {"setHostId", "setHostConnected"},
             AtStep(n, step), Return(n) \/ GoTo(n, "setHostConnected") \/ GoTo(n, "addInfo"),
             UNCHANGED <<destroy, infos, sess, wire, nodeId, packets>>
      PROVE  PInv'
  <2>1. handler[n] \in GoodHandler(n) /\ handler[n].step = step
    BY <1>3, AtStepGood DEF AtStep, Step
  <2>2. handler[n] \in Busy
    BY <2>1 DEF GoodHandler
  <2>3. \A m \in Node :
          \/ handler'[m] \in {handler[m], Idle}
          \/ /\ handler[m].step \in {"reply", "setHostId", "setHostConnected"}
             /\ handler'[m].session = handler[m].session
             /\ handler'[m].step \in {"setHostId", "setHostConnected", "addInfo"}
    BY <1>3, <2>1, <2>2, HandlerStep DEF IInv
  <2>4. HandledOnce /\ AwayShrink
    BY <1>3, <2>3, HandlersEnd
  <2> QED
    BY <1>1, <1>3, <2>4, UnchangedPair, QuietPair
<1>4. ASSUME NEW n \in Node, Processor(n) PROVE PInv'
  <2>1. CASE SetHostId(n)
    BY <1>3, <2>1 DEF SetHostId, sessVars
  <2>2. CASE SetHostConnected(n)
    BY <1>3, <2>2 DEF SetHostConnected, sessVars
  <2> QED
    BY <1>1, <1>4, <2>1, <2>2, BeginHandlerPair, RegisterClientPair, AnswerClientPair,
       HandleReplyPair, RegisterServerPair
    DEF Processor
<1>5. ASSUME NEW n \in Node, Destroyer(n) PROVE PInv'
  <2>1. ASSUME DestroyExpired(n) PROVE FALSE
    <3>1. destroy[n] \in Seq(Teardown) /\ destroy[n] # << >>
      BY <2>1 DEF DestroyExpired, IInv, TypeOK
    <3>2. Head(destroy[n]) \in Teardown
      BY <3>1, HeadTail
    <3>3. PICK s \in Session : s = Head(destroy[n]).session
      BY <3>2 DEF Teardown
    <3>4. Doomed(s)
      BY <3>1, <3>3, ArrivalTaken DEF Doomed
    <3>5. sess[s] = "open"
      BY <3>4, SessionIsEnd DEF PInv, EndsInv, OpenerEnds, OtherFollows
    <3> QED
      BY <2>1, <3>3, <3>5 DEF DestroyExpired
  <2> QED
    BY <1>1, <1>5, <2>1, DestroyPair DEF Destroyer
<1>6. \A k \in {"crash", "timeout"} : ~(faults[k] < MaxFault[k])
  <2>1. \A k \in {"crash", "timeout"} : faults[k] \in Nat /\ MaxFault[k] = 0
    BY DEF IInv, TypeOK, FaultKind, NothingIsLost
  <2> QED
    BY <2>1
<1>7. ASSUME NEW n \in Node, Crash(n) PROVE PInv'
  BY <1>6, <1>7 DEF Crash
<1>8. ASSUME NEW n \in Node, Restart(n) PROVE PInv'
  BY <1>1, <1>8, CalmPair DEF Restart, sessVars, nodeVars
<1>9. ASSUME NEW n \in Node, NEW h \in Hosts[n], Refused(n, h) PROVE PInv'
  BY <1>1, <1>9, CalmPair DEF Refused, sessVars
<1>10. ASSUME NEW c \in Conn, Accept(c) PROVE PInv'
  BY <1>1, <1>10, AcceptPair
<1>11. ASSUME NEW s \in Session, Receive(s) PROVE PInv'
  BY <1>1, <1>11, ReceivePair
<1>12. ASSUME NEW s \in Session, AliveTimeout(s) PROVE PInv'
  BY <1>6, <1>12 DEF AliveTimeout
<1>13. CASE UNCHANGED vars
  BY <1>1, <1>13, CalmPair DEF vars, sessVars, nodeVars
<1> QED
  BY <1>2, <1>4, <1>5, <1>7, <1>8, <1>9, <1>10, <1>11, <1>12, <1>13 DEF Next

-----------------------------------------------------------------------------
(* The theorems.                                                           *)

\* A registration always names the node at the other end of its connection.
THEOREM RegistrationCorrect == Spec => []RegistrationMatches
<1>1. IInv => RegistrationMatches
  BY DEF IInv, GoodInfo, RegistrationMatches
<1> QED
  BY <1>1, IInvHolds, PTL

\* A connection its opener has registered is registered at the other end, as
\* long as that end exists.
THEOREM AgreementCorrect == Spec => []HandshakeAgreement
<1>1. IInv => HandshakeAgreement
  <2> SUFFICES ASSUME IInv, NEW n \in Node, NEW m \in Node, NEW c \in Conn,
                      infos[n][m] = <<c, "out">>
               PROVE  infos[m][n] = <<c, "in">> \/ sess[<<c, "in">>] = "closed"
    BY DEF HandshakeAgreement
  <2>1. PICK s \in Session : s = <<c, "out">>
    BY DEF Session
  <2>2. s # NoSession /\ Peer(s) = <<c, "in">>
    BY <2>1, PeerFacts DEF Peer
  <2>3. s \in SessionsOf(n) /\ Owner(Peer(s)) = m /\ Agreed(s)
    <3>1. s = infos[n][m] /\ s[2] = "out" /\ GoodInfo(n, m)
      BY <2>1 DEF IInv
    <3> QED
      BY <2>2, <3>1 DEF GoodInfo
  <2>4. Owner(s) = n
    BY <2>3 DEF SessionsOf
  <2> QED
    BY <2>2, <2>3, <2>4 DEF Agreed
<1> QED
  BY <1>1, IInvHolds, PTL

\* A registration ends only with its session, and is never replaced.
THEOREM UnregisterCorrect == Spec => OnlyOwnTeardownUnregisters
<1>1. IInv /\ [Next]_vars => InfoKept
  BY NextInv DEF Kept
<1>2. InfoKept =>
        [\A n, m \in Node :
           infos[n][m] # NoSession /\ infos'[n][m] # infos[n][m] =>
             infos'[n][m] = NoSession /\ sess'[infos[n][m]] = "closed"]_vars
  BY DEF InfoKept
<1> QED
  BY <1>1, <1>2, IInvHolds, PTL DEF Spec, OnlyOwnTeardownUnregisters

\* A connection that was rejected, by the node itself or as a duplicate, is
\* registered at neither end, at any stage of its teardown
\* (P2PService.cpp:671-695, 899-904).
THEOREM RejectedCorrect == Spec => []RejectedIsNotRegistered
<1>1. IInv /\ OInv => RejectedIsNotRegistered
  <2> SUFFICES ASSUME IInv, OInv,
                      NEW n \in Node, NEW s \in Rejected(n), NEW a \in Node, NEW b \in Node
               PROVE  infos[a][b] \notin {s, Peer(s)}
    BY DEF RejectedIsNotRegistered
  <2>1. s \in Session
    BY DEF Rejected, SessionsOf
  <2>2. PICK u \in Session : u = Peer(s)
    BY <2>1, PeerFacts
  <2>3. ~Registered(s) /\ ~Registered(u)
    <3>1. CASE RefusalDue(s)
      <4>1. Waiting(s) /\ nodeId[s] = NoNode /\ ~Registered(s)
        BY <2>1, <3>1, KnownSessions DEF OInv, Ordered
      <4>2. CASE s[2] = "out"
        BY <2>1, <2>2, <3>1, <4>1, <4>2 DEF OInv, RefusedIsNot
      <4>3. CASE s[2] = "in"
        <5>1. u[2] = "out" /\ Peer(u) = s
          BY <2>1, <2>2, <4>3, PeerFacts
        <5>2. nodeId[u] = NoNode
          BY <4>1, <5>1 DEF OInv, Ordered
        <5> QED
          BY <4>1, <5>2, KnownSessions
      <4> QED
        BY <2>1, <4>2, <4>3, PeerFacts
    <3>2. CASE HandledRefusal(s)
      <4>1. s[2] = "out" /\ HandledNew(s)
        BY <2>1, <3>2, OwnHandler DEF HandledRefusal, HandledNew
      <4> QED
        BY <2>1, <2>2, <3>2, <4>1 DEF OInv, RefusedIsNot
    <3>3. CASE Flagged(s)
      BY <2>1, <2>2, <3>3 DEF OInv, RefusedIsNot
    <3>4. RefusalDue(s) \/ HandledRefusal(s) \/ Flagged(s)
      BY <2>1 DEF Rejected, RefusalDue, HasRefusal, MentionsRefusal, HandledRefusal, Flagged
    <3> QED
      BY <3>1, <3>2, <3>3, <3>4
  <2> QED
    BY <2>2, <2>3 DEF Registered
<1> QED
  BY <1>1, OInvHolds, PTL

\* The connector never has two unanswered connections to one host: an open
\* connection without an answer is the socket of the attempt at its host
\* (HostsConnector.cpp:39-50).
THEOREM OneAttemptCorrect == Spec => []OneAttemptPerHost
<1>1. IInv /\ OInv => OneAttemptPerHost
  <2> SUFFICES ASSUME IInv, OInv,
                      NEW c \in Conn, NEW d \in Conn, c # d,
                      from[c] = from[d], to[c] = to[d],
                      \A e \in {c, d} : /\ sess[<<e, "out">>] = "open"
                                        /\ nodeId[<<e, "out">>] = NoNode
               PROVE  FALSE
    BY DEF OneAttemptPerHost
  <2>1. ASSUME NEW e \in {c, d} PROVE connecting[from[e]][to[e]].fd = e
    <3>1. PICK s \in Session : s = <<e, "out">>
      BY DEF Session
    <3>2. s[1] = e /\ s[2] = "out" /\ Claimed(s)
      BY <3>1 DEF Claimed
    <3> QED
      BY <3>2 DEF OInv, OwnAttempt
  <2> QED
    BY <2>1
<1> QED
  BY <1>1, OInvHolds, PTL

\* When a connection of two nodes has been closed, another one of them is up
\* or being set up at both ends, and neither end is to be destroyed: the
\* handlers of the two sides never give way to each other, nor to a connection
\* that goes away itself (P2PService.cpp:671-695).  Refused attempts change
\* nothing of that.
THEOREM PairCorrect == NothingIsLost => (Spec => []PairKeepsConnection)
<1>1. ASSUME IInv, PInv PROVE PairKeepsConnection
  <2> SUFFICES ASSUME NEW c \in 1 .. opened, sess[<<c, "out">>] = "closed", from[c] # to[c]
               PROVE  \E d \in 1 .. opened :
                        /\ {from[d], to[d]} = {from[c], to[c]}
                        /\ sess[<<d, "out">>] = "open" /\ sess[<<d, "in">>] # "closed"
                        /\ \A n \in Node : \A i \in 1 .. Len(destroy[n]) :
                             destroy[n][i].session[1] # d
    BY DEF PairKeepsConnection
  <2>1. c \in Conn /\ opened \in Nat
    BY <1>1, BoundAssumption DEF IInv, TypeOK, Conn
  <2>2. Backed(from[c], to[c])
    BY <1>1, <2>1 DEF PInv, Replaced, GoingAway
  <2>3. PICK d \in Conn : d <= opened /\ {from[d], to[d]} = {from[c], to[c]} /\ Survives(d)
    BY <2>2 DEF Backed
  <2>4. PICK s \in Session, u \in Session :
          s = <<d, "out">> /\ u = <<d, "in">> /\ Peer(u) = s
    BY EndsOf
  <2>5. s[2] = "out" /\ u[2] = "in" /\ sess[s] = "open" /\ ~Doomed(s)
    BY <2>3, <2>4 DEF Survives, Stands
  <2>6. sess[u] # "closed" /\ ~Doomed(u)
    BY <1>1, <2>4, <2>5 DEF PInv, EndsInv, OtherFollows
  <2>7. ASSUME NEW n \in Node, NEW i \in 1 .. Len(destroy[n]), destroy[n][i].session[1] = d
        PROVE  FALSE
    <3>1. destroy[n] \in Seq(Teardown)
      BY <1>1 DEF IInv, TypeOK
    <3>2. destroy[n][i] \in Teardown
      BY <3>1
    <3>3. PICK t \in Session : t = destroy[n][i].session
      BY <3>2 DEF Teardown
    <3>4. t = s \/ t = u
      BY <2>4, <2>7, <3>3, SessionIsEnd
    <3>5. Doomed(t)
      BY <3>3 DEF Doomed, Mentions
    <3> QED
      BY <2>5, <2>6, <3>4, <3>5
  <2>8. d \in 1 .. opened
    BY <2>1, <2>3 DEF Conn
  <2> QED
    BY <2>3, <2>4, <2>5, <2>6, <2>7, <2>8
<1>2. ASSUME NothingIsLost PROVE IInv /\ OInv /\ PInv /\ [Next]_vars => PInv'
  BY <1>2, NextPair
<1>3. NothingIsLost => (IInv /\ OInv /\ PInv /\ [Next]_vars => PInv')
  BY <1>2
<1>4. SUFFICES ASSUME NothingIsLost PROVE Spec => []PairKeepsConnection
  OBVIOUS
<1>5. IInv /\ OInv /\ PInv /\ [Next]_vars => PInv'
  BY <1>3, <1>4
<1>6. IInv /\ PInv => PairKeepsConnection
  BY <1>1
<1> QED
  BY <1>5, <1>6, InitPair, OInvHolds, PTL DEF Spec
=============================================================================
