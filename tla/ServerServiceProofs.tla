------------------------ MODULE ServerServiceProofs ------------------------
(***************************************************************************)
(* Who looks after a session, and what is left of one that was closed, for *)
(* any clients, reactors and sizes of the dispatcher's queue.              *)
(*                                                                         *)
(* The invariant follows a session along its life.  Until the dispatcher   *)
(* has put it into the map of its reactor it is fresh, and nobody else has *)
(* heard of it; from then on nothing makes it fresh again.  What the       *)
(* destroyer has taken out of the map therefore stays out of it.           *)
(*                                                                         *)
(* It also follows the numbers of the connections.  Open connections have  *)
(* different ones, so a step by number reaches another session's           *)
(* connection only when the session's own is closed.                       *)
(***************************************************************************)
EXTENDS ServerService, SetInduction

Info == [session : Client, fromChecker : BOOLEAN]

\* The types the argument needs.
Types ==
    /\ queue \in Seq(Client)
    /\ teardowns \in Seq(Info)
    /\ dispatching = [session |-> dispatching.session, step |-> dispatching.step]
    /\ dispatching = Idle \/ dispatching.session \in Client
    /\ dispatching.step = "idle" => dispatching = Idle
    /\ destroyer = [session |-> destroyer.session, step |-> destroyer.step]
    /\ destroyer = Idle \/ destroyer.session \in Client
    /\ destroyer.step = "idle" => destroyer = Idle
    /\ handler \in Client \cup {NoClient}
    /\ sessions \cup tasks \cup packets \cup watched \cup offline \cup closed \subseteq Client
    /\ accepted \subseteq Client
    /\ epoll \in [Client -> Client \cup {NoClient}]
    /\ fd = [c \in Client |-> fd[c]]
    /\ relation = [s \in Client |-> relation[s]]

Queued == {queue[i] : i \in DOMAIN queue}
TornDown == {teardowns[i].session : i \in DOMAIN teardowns}

\* Every accepted session is handed to the dispatcher once.
HandedOnce ==
    /\ Queued \cup {dispatching.session} \subseteq accepted \cup {NoClient}
    /\ dispatching.session \notin Queued
    /\ \A i, j \in DOMAIN queue : queue[i] = queue[j] => i = j

BeingAdded == dispatching.step \in {"epoll", "sessions"}

\* The session is not yet in the map of a reactor.
Fresh(s) ==
    \/ s \notin accepted
    \/ s \in Queued
    \/ s = dispatching.session /\ BeingAdded

FreshIsUntouched ==
    \A s \in Client : Fresh(s) =>
        /\ s \notin sessions \cup tasks \cup packets \cup watched \cup offline \cup closed
                      \cup indexed \cup TornDown
        /\ s # handler /\ s # destroyer.session

\* Open connections have numbers of their own, and are registered for their
\* own sessions as long as these have a connection.
Numbered ==
    /\ \A c, d \in Open : fd[c] = fd[d] => c = d
    /\ shut \subseteq accepted \cap (closed \cup robbed)
    /\ \A c \in Registered : /\ c \in Open
                             /\ epoll[c] = c \/ {c, epoll[c]} \subseteq robbed

\* The sessions the other steps leave in order.
Spared == Client \ (strayed \cup robbed)

\* The steps of the dispatcher and of the destroyer leave the maps in order,
\* except for a session whose index was read before it was set, and one whose
\* connection was taken away.
InOrder ==
    /\ dispatching.step = "sessions" /\ dispatching.session \notin robbed =>
         epoll[dispatching.session] = dispatching.session
    /\ dispatching.step = "watch" => dispatching.session \in indexed
    /\ edge \subseteq Registered
    /\ \A s \in sessions \cap Spared : epoll[s] = s
    /\ destroyer.step = "close" /\ destroyer.session \in Spared =>
         destroyer.session \in indexed \ (sessions \cup Registered)
    /\ \A s \in closed \cap Spared :
         s \in (indexed \cap shut) \ (sessions \cup Registered) /\ relation[s] = NoReactor

\* NobodyUnwatched with the sessions of the queue as a set.
LookedAfter ==
    \A s \in sessions \cap Spared :
        s \in watched \cup offline \cup TornDown \cup {dispatching.session, destroyer.session}

IInv == Types /\ HandedOnce /\ FreshIsUntouched /\ Numbered /\ InOrder /\ LookedAfter

-----------------------------------------------------------------------------
(* The queue and the waiting teardowns as sets.                            *)

LEMMA NoClientIsNoClient == NoClient \notin Client
  BY NoClientAssumption

\* A session put behind the others.
LEMMA QueueAppend ==
    ASSUME queue \in Seq(Client), NEW c \in Client, queue' = Append(queue, c)
    PROVE  /\ queue' \in Seq(Client)
           /\ Queued' = Queued \cup {c}
           /\ c \notin Queued /\ (\A i, j \in DOMAIN queue : queue[i] = queue[j] => i = j)
                => \A i, j \in DOMAIN queue' : queue'[i] = queue'[j] => i = j
<1>1. /\ DOMAIN queue = 1..Len(queue)
      /\ DOMAIN queue' = 1..Len(queue) + 1
      /\ Len(queue) \in Nat
      /\ \A i \in 1..Len(queue) : queue'[i] = queue[i]
      /\ queue'[Len(queue) + 1] = c
      /\ queue' \in Seq(Client)
  OBVIOUS
<1>2. \A i \in DOMAIN queue' : i \in DOMAIN queue \/ i = Len(queue) + 1
  BY <1>1
<1>3. Queued' = Queued \cup {c}
  BY <1>1, <1>2 DEF Queued
<1>4. ASSUME c \notin Queued, \A i, j \in DOMAIN queue : queue[i] = queue[j] => i = j,
             NEW i \in DOMAIN queue', NEW j \in DOMAIN queue', queue'[i] = queue'[j]
      PROVE  i = j
  <2>1. \A k \in DOMAIN queue : queue[k] # c
    BY <1>4 DEF Queued
  <2> QED
    BY <1>1, <1>2, <1>4, <2>1
<1> QED
  BY <1>1, <1>3, <1>4

\* The session in front taken away.
LEMMA QueueTail ==
    ASSUME queue \in Seq(Client), queue # <<>>, queue' = Tail(queue),
           \A i, j \in DOMAIN queue : queue[i] = queue[j] => i = j
    PROVE  /\ queue' \in Seq(Client)
           /\ Head(queue) \in Queued /\ Head(queue) \in Client
           /\ Queued' = Queued \ {Head(queue)}
           /\ \A i, j \in DOMAIN queue' : queue'[i] = queue'[j] => i = j
<1>1. /\ DOMAIN queue = 1..Len(queue) /\ Len(queue) \in Nat \ {0}
      /\ DOMAIN queue' = 1..Len(queue) - 1
      /\ \A i \in 1..Len(queue) - 1 : queue'[i] = queue[i + 1]
      /\ Head(queue) = queue[1]
      /\ queue' \in Seq(Client)
  OBVIOUS
<1>2. \A i \in DOMAIN queue' : i + 1 \in DOMAIN queue /\ i + 1 # 1
  BY <1>1
<1>3. \A i \in DOMAIN queue : i = 1 \/ (i - 1 \in DOMAIN queue' /\ queue'[i - 1] = queue[i])
  BY <1>1
<1>4. Queued' \subseteq Queued \ {Head(queue)}
  <2> SUFFICES ASSUME NEW i \in DOMAIN queue'
               PROVE  queue'[i] \in Queued /\ queue'[i] # Head(queue)
    BY DEF Queued
  <2>1. queue'[i] = queue[i + 1] /\ i + 1 \in DOMAIN queue /\ 1 \in DOMAIN queue /\ i + 1 # 1
    BY <1>1, <1>2
  <2> QED
    BY <1>1, <2>1 DEF Queued
<1>5. Queued \ {Head(queue)} \subseteq Queued'
  BY <1>1, <1>3 DEF Queued
<1>6. ASSUME NEW i \in DOMAIN queue', NEW j \in DOMAIN queue', queue'[i] = queue'[j]
      PROVE  i = j
  <2>1. i + 1 = j + 1
    BY <1>1, <1>2, <1>6
  <2> QED
    BY <1>1, <2>1
<1>7. Head(queue) \in Queued /\ Head(queue) \in Client
  BY <1>1 DEF Queued
<1> QED
  BY <1>1, <1>4, <1>5, <1>6, <1>7

\* A teardown asked for.
LEMMA TearDownAdds ==
    ASSUME teardowns \in Seq(Info), NEW s \in Client, NEW b \in BOOLEAN, TearDown(s, b)
    PROVE  teardowns' \in Seq(Info) /\ TornDown' = TornDown \cup {s}
<1> DEFINE info == [session |-> s, fromChecker |-> b]
<1>1. info \in Info /\ teardowns' = Append(teardowns, info)
  BY DEF Info, TearDown
<1>2. /\ DOMAIN teardowns = 1..Len(teardowns)
      /\ DOMAIN teardowns' = 1..Len(teardowns) + 1
      /\ Len(teardowns) \in Nat
      /\ \A i \in 1..Len(teardowns) : teardowns'[i] = teardowns[i]
      /\ teardowns'[Len(teardowns) + 1] = info
      /\ teardowns' \in Seq(Info)
  BY <1>1
<1>3. \A i \in DOMAIN teardowns' : i \in DOMAIN teardowns \/ i = Len(teardowns) + 1
  BY <1>2
<1>4. info.session = s
  OBVIOUS
<1> HIDE DEF info
<1> QED
  BY <1>2, <1>3, <1>4 DEF TornDown

\* A teardown begun.
LEMMA TearDownTaken ==
    ASSUME teardowns \in Seq(Info), teardowns # <<>>, teardowns' = Tail(teardowns)
    PROVE  /\ teardowns' \in Seq(Info)
           /\ Head(teardowns) \in Info
           /\ TornDown = TornDown' \cup {Head(teardowns).session}
<1>1. /\ DOMAIN teardowns = 1..Len(teardowns) /\ Len(teardowns) \in Nat \ {0}
      /\ DOMAIN teardowns' = 1..Len(teardowns) - 1
      /\ \A i \in 1..Len(teardowns) - 1 : teardowns'[i] = teardowns[i + 1]
      /\ Head(teardowns) = teardowns[1] /\ Head(teardowns) \in Info
      /\ teardowns' \in Seq(Info)
  OBVIOUS
<1>2. \A i \in DOMAIN teardowns' : i + 1 \in DOMAIN teardowns
  BY <1>1
<1>3. \A i \in DOMAIN teardowns :
        i = 1 \/ (i - 1 \in DOMAIN teardowns' /\ teardowns'[i - 1] = teardowns[i])
  BY <1>1
<1>4. TornDown' \cup {Head(teardowns).session} \subseteq TornDown
  BY <1>1, <1>2 DEF TornDown
<1>5. TornDown \subseteq TornDown' \cup {Head(teardowns).session}
  BY <1>1, <1>3 DEF TornDown
<1> QED
  BY <1>1, <1>4, <1>5

\* Nothing else changes the two sets.
LEMMA SameSets ==
    /\ queue' = queue => Queued' = Queued
    /\ teardowns' = teardowns => TornDown' = TornDown
  BY DEF Queued, TornDown

-----------------------------------------------------------------------------
LEMMA InitIInv == Init => IInv
<1> SUFFICES ASSUME Init PROVE IInv
  OBVIOUS
<1>1. Queued = {} /\ TornDown = {} /\ DOMAIN queue = {}
  BY DEF Init, Queued, TornDown
<1>2. Types
  BY DEF Init, Types, Idle
<1>3. HandedOnce
  BY <1>1 DEF Init, HandedOnce, Idle
<1>4. FreshIsUntouched
  BY <1>1, NoClientIsNoClient DEF Init, FreshIsUntouched, Idle
<1>5. Numbered
  BY DEF Init, Numbered, Open, Registered
<1>6. InOrder
  BY NoClientIsNoClient DEF Init, InOrder, Idle
<1>7. LookedAfter
  BY DEF Init, LookedAfter
<1> QED
  BY <1>2, <1>3, <1>4, <1>5, <1>6, <1>7 DEF IInv

\* While the queue and the dispatcher stand still nobody becomes fresh.
LEMMA LineStandsStill ==
    ASSUME IInv, accepted' = accepted, queue' = queue, dispatching' = dispatching
    PROVE  HandedOnce' /\ Queued' = Queued /\ \A s \in Client : Fresh(s)' <=> Fresh(s)
<1>1. Queued' = Queued
  BY SameSets
<1> QED
  BY <1>1 DEF IInv, HandedOnce, Fresh, BeingAdded

\* Most steps leave the numbers alone.
LEMMA NumbersStandStill ==
    ASSUME IInv, UNCHANGED <<accepted, fdVars, epoll>>, closed \subseteq closed'
    PROVE  Numbered' /\ Open' = Open /\ Registered' = Registered
BY DEF IInv, Numbered, Open, Registered, fdVars

\* The clients, and what only they and the listening thread do.
LEMMA OnlyEdges ==
    ASSUME IInv, edge' \subseteq Registered,
           UNCHANGED <<accepted, fdVars, dispatchVars, reactorVars, packets, handler, checkerVars,
                       teardowns, destroyer, closed, strayed>>
    PROVE  IInv'
<1> USE DEF fdVars, dispatchVars, reactorVars, checkerVars
<1>1. TornDown' = TornDown
  BY SameSets
<1>2. Types'
  BY DEF IInv, Types
<1>3. HandedOnce' /\ \A s \in Client : Fresh(s)' <=> Fresh(s)
  BY LineStandsStill
<1>4. FreshIsUntouched'
  BY <1>1, <1>3 DEF IInv, FreshIsUntouched
<1>5. Numbered' /\ Registered' = Registered
  BY NumbersStandStill
<1>6. InOrder'
  <2>1. \A s : Fresh(s)' <=> Fresh(s)
    BY SameSets DEF Fresh, BeingAdded
  <2> QED
    BY <2>1, <1>5 DEF IInv, InOrder, Spared
<1>7. LookedAfter'
  BY <1>1 DEF IInv, LookedAfter, Spared
<1> QED
  BY <1>5, <1>2, <1>3, <1>4, <1>6, <1>7 DEF IInv

LEMMA ClientKeepsIInv ==
    ASSUME IInv, NEW c \in Client, Connect(c) \/ Beat(c) \/ Leave(c) \/ Refuse(c)
    PROVE  IInv'
<1>1. edge' \subseteq Registered
  BY DEF IInv, InOrder, Connect, Beat, Leave, Raise, Refuse, Registered
<1>2. UNCHANGED <<accepted, fdVars, dispatchVars, reactorVars, packets, handler, checkerVars,
                  teardowns, destroyer, closed, strayed>>
  BY DEF Connect, Beat, Leave, Refuse, acceptVars, packetVars, teardownVars, processVars
<1> QED
  BY <1>1, <1>2, OnlyEdges

LEMMA ListenerKeepsIInv ==
    ASSUME IInv, AcceptorWaits \/ OnConnect \/ AcceptFails \/ UNCHANGED vars
    PROVE  IInv'
<1>1. edge' \subseteq Registered
  BY DEF IInv, InOrder, AcceptorWaits, OnConnect, AcceptFails, vars, clientVars
<1>2. UNCHANGED <<accepted, fdVars, dispatchVars, reactorVars, packets, handler, checkerVars,
                  teardowns, destroyer, closed, strayed>>
  BY DEF AcceptorWaits, OnConnect, AcceptFails, vars, acceptVars, packetVars, teardownVars,
         processVars
<1> QED
  BY <1>1, <1>2, OnlyEdges

\* A session is new to everyone when it is accepted.
LEMMA AcceptKeepsIInv ==
    ASSUME IInv, NEW c \in Client, Accept(c)
    PROVE  IInv'
<1> USE DEF fdVars, clientVars, reactorVars, packetVars, checkerVars, teardownVars, processVars
<1>1. c \notin accepted /\ accepted' = accepted \cup {c}
  BY DEF Accept, Pending
<1>2. c \notin Queued /\ c # dispatching.session
  BY <1>1, NoClientIsNoClient DEF IInv, HandedOnce
<1>3. UNCHANGED <<edge, shut, robbed, dispatching, relation, indexed, reactorVars, packets, handler,
                  checkerVars, teardowns, destroyer, closed, strayed>>
  BY DEF Accept
<1>4. /\ queue' \in Seq(Client)
      /\ Queued' \subseteq Queued \cup {c} /\ Queued \subseteq Queued'
      /\ \A i, j \in DOMAIN queue' : queue'[i] = queue'[j] => i = j
  <2>1. queue \in Seq(Client) /\ \A i, j \in DOMAIN queue : queue[i] = queue[j] => i = j
    BY DEF IInv, Types, HandedOnce
  <2>2. CASE queue' = Append(queue, c)
    BY <1>2, <2>1, <2>2, QueueAppend
  <2>3. CASE queue' = queue
    BY <2>1, <2>3, SameSets
  <2> QED
    BY <2>2, <2>3 DEF Accept
<1>5. TornDown' = TornDown
  BY <1>3, SameSets
<1>6. \A s : Fresh(s)' => Fresh(s)
  BY <1>1, <1>3, <1>4 DEF Fresh, BeingAdded
<1>7. PICK n \in Free : fd' = [fd EXCEPT ![c] = n]
  BY DEF Accept
<1>8. Types'
  BY <1>1, <1>3, <1>4, <1>7 DEF IInv, Types
<1>9. Numbered' /\ Registered' = Registered
  <2>1. Open' = Open \cup {c} /\ c \notin Open
    BY <1>1, <1>3 DEF IInv, Numbered, Open
  <2>2. \A d \in Open : fd'[d] = fd[d] /\ fd[d] # n
    BY <1>7, <2>1 DEF IInv, Types, Open, Free
  <2>3. fd'[c] = n
    BY <1>7 DEF IInv, Types
  <2>4. \A d, e \in Open' : fd'[d] = fd'[e] => d = e
    BY <2>1, <2>2, <2>3 DEF IInv, Numbered
  <2>5. Registered' = Registered
    BY <1>3 DEF Registered
  <2> QED
    BY <1>1, <1>3, <2>1, <2>4, <2>5 DEF IInv, Numbered
<1>10. HandedOnce'
  BY <1>1, <1>2, <1>3, <1>4, NoClientIsNoClient DEF IInv, HandedOnce
<1>11. FreshIsUntouched'
  BY <1>3, <1>5, <1>6 DEF IInv, FreshIsUntouched
<1>12. InOrder'
  BY <1>3, <1>6, <1>9 DEF IInv, InOrder, Spared
<1>13. LookedAfter'
  BY <1>3, <1>5 DEF IInv, LookedAfter, Spared
<1> QED
  BY <1>8, <1>9, <1>10, <1>11, <1>12, <1>13 DEF IInv

-----------------------------------------------------------------------------
(* The dispatcher: a session is fresh until it is in the map.              *)

LEMMA DispatchKeepsIInv ==
    ASSUME IInv, Dispatch
    PROVE  IInv'
<1> DEFINE h == Head(queue)
<1> USE DEF fdVars, clientVars, acceptVars, reactorVars, packetVars, checkerVars, teardownVars
<1>1. dispatching = Idle /\ dispatching.session = NoClient /\ dispatching.step = "idle"
  BY DEF IInv, Types, Dispatch, At, Idle
<1>2. /\ queue' \in Seq(Client)
      /\ h \in Queued /\ h \in Client
      /\ Queued' = Queued \ {h}
      /\ \A i, j \in DOMAIN queue' : queue'[i] = queue'[j] => i = j
  BY QueueTail DEF IInv, Types, HandedOnce, Dispatch
<1>3. /\ dispatching' = [session |-> h, step |-> "epoll"]
      /\ relation' = [relation EXCEPT ![h] = ChosenReactor]
      /\ UNCHANGED <<accepted, fdVars, edge, indexed, reactorVars, packets, handler, checkerVars,
                     teardowns, destroyer, closed, strayed>>
  BY DEF Dispatch
<1> HIDE DEF h
<1>4. TornDown' = TornDown
  BY <1>3, SameSets
<1>5. \A s : Fresh(s)' => Fresh(s)
  BY <1>2, <1>3 DEF Fresh
<1>6. Fresh(h)
  BY <1>2 DEF Fresh
<1>7. Types'
  BY <1>2, <1>3 DEF IInv, Types, Idle
<1>8. HandedOnce'
  BY <1>1, <1>2, <1>3 DEF IInv, HandedOnce
<1>9. FreshIsUntouched'
  BY <1>3, <1>4, <1>5 DEF IInv, FreshIsUntouched
<1>10. Numbered' /\ Registered' = Registered
  BY <1>3, NumbersStandStill
<1>11. InOrder'
  <2>1. \A s \in closed : s \in Client /\ s # h
    BY <1>2, <1>6 DEF IInv, Types, FreshIsUntouched
  <2>2. \A s \in closed : relation'[s] = relation[s]
    BY <1>3, <2>1 DEF IInv, Types
  <2> QED
    BY <1>1, <1>3, <1>5, <2>2, <1>10 DEF IInv, InOrder, Spared
<1>12. LookedAfter'
  BY <1>1, <1>3, <1>4, NoClientIsNoClient DEF IInv, Types, LookedAfter, Spared
<1> QED
  BY <1>10, <1>7, <1>8, <1>9, <1>11, <1>12 DEF IInv

LEMMA AddToEpollKeepsIInv ==
    ASSUME IInv, AddToEpoll
    PROVE  IInv'
<1> DEFINE d == dispatching.session
<1> USE DEF acceptVars, packetVars, checkerVars, teardownVars, processVars
<1>1. dispatching.step = "epoll"
  BY DEF AddToEpoll, At
<1>2. d \in Client /\ dispatching' = [session |-> d, step |-> "sessions"]
  BY <1>1 DEF IInv, Types, Idle, AddToEpoll, Proceed
<1>3. UNCHANGED <<accepted, fd, shut, queue, relation, indexed, sessions, tasks, packets, handler,
                  checkerVars, teardowns, destroyer, closed, strayed>>
  BY DEF AddToEpoll
<1>4. PICK c \in Behind(d) : /\ epoll[c] = NoClient
                             /\ epoll' = [epoll EXCEPT ![c] = d]
                             /\ edge' \subseteq edge \cup {c}
                             /\ robbed' = IF c = d THEN robbed ELSE robbed \cup {c}
  BY DEF AddToEpoll
<1> HIDE DEF d
<1>5. d = dispatching.session
  BY DEF d
<1>6. Queued' = Queued /\ TornDown' = TornDown
  BY <1>3, SameSets
<1>7. \A s : Fresh(s)' <=> Fresh(s)
  BY <1>1, <1>2, <1>3, <1>5, <1>6 DEF Fresh, BeingAdded
<1>8. Fresh(d)
  BY <1>1, <1>5 DEF Fresh, BeingAdded
<1>9. /\ c \in Client /\ c \in Open /\ fd[c] = fd[d]
      /\ \A x \in Client : epoll'[x] = IF x = c THEN d ELSE epoll[x]
      /\ epoll' \in [Client -> Client \cup {NoClient}]
  BY <1>2, <1>4 DEF IInv, Types, Behind, Open
<1>10. /\ c = d \/ {c, d} \subseteq robbed'
      /\ robbed \subseteq robbed'
  <2>1. d \in accepted /\ d \notin closed
    BY <1>2, <1>5, <1>8, NoClientIsNoClient DEF IInv, HandedOnce, FreshIsUntouched
  <2>2. CASE d \in Open
    BY <1>4, <1>9, <2>2 DEF IInv, Numbered
  <2>3. CASE d \notin Open
    BY <1>4, <2>1, <2>3 DEF IInv, Numbered, Open
  <2> QED
    BY <1>4, <2>2, <2>3
<1>11. Types'
  BY <1>2, <1>3, <1>9 DEF IInv, Types, Idle
<1>12. HandedOnce'
  BY <1>2, <1>3, <1>5, <1>6 DEF IInv, HandedOnce
<1>13. FreshIsUntouched'
  BY <1>3, <1>6, <1>7 DEF IInv, FreshIsUntouched
<1>14. Registered' = Registered \cup {c}
  BY <1>2, <1>9, NoClientIsNoClient DEF Registered
<1>15. Numbered'
  <2>1. Open' = Open
    BY <1>3 DEF Open
  <2>2. \A x \in Registered' : x \in Open /\ (epoll'[x] = x \/ {x, epoll'[x]} \subseteq robbed')
    BY <1>9, <1>10, <1>14 DEF IInv, Numbered, Registered
  <2> QED
    BY <1>3, <1>10, <2>1, <2>2 DEF IInv, Numbered
<1>16. InOrder'
  <2>1. d # destroyer.session /\ d \notin closed
    BY <1>2, <1>8 DEF IInv, FreshIsUntouched
  <2>2. Spared' \subseteq Spared /\ (c = d \/ c \notin Spared')
    BY <1>3, <1>10 DEF Spared
  <2>3. d \notin robbed' => epoll'[d] = d
    BY <1>2, <1>9, <1>10
  <2>4. \A s \in sessions \cap Spared' : epoll'[s] = s
    BY <1>4, <1>9, <2>2, NoClientIsNoClient DEF IInv, InOrder, Spared
  <2>5. edge' \subseteq Registered'
    BY <1>4, <1>14 DEF IInv, InOrder
  <2>6. destroyer.step = "close" /\ destroyer.session \in Spared'
          => destroyer.session \in indexed \ (sessions \cup Registered')
    BY <1>14, <2>1, <2>2 DEF IInv, InOrder
  <2>7. \A s \in closed \cap Spared' : s \in (indexed \cap shut) \ (sessions \cup Registered')
                                        /\ relation[s] = NoReactor
    BY <1>14, <2>1, <2>2 DEF IInv, InOrder
  <2> QED
    BY <1>2, <1>3, <2>3, <2>4, <2>5, <2>6, <2>7 DEF InOrder
<1>17. LookedAfter'
  <2>1. Spared' \subseteq Spared
    BY <1>3, <1>10 DEF Spared
  <2> QED
    BY <1>2, <1>3, <1>5, <1>6, <2>1 DEF IInv, LookedAfter
<1> QED
  BY <1>11, <1>12, <1>13, <1>15, <1>16, <1>17 DEF IInv

\* The session is let go before anybody has heard of it.
LEMMA AddFailsKeepsIInv ==
    ASSUME IInv, AddFails
    PROVE  IInv'
<1> DEFINE d == dispatching.session
<1> USE DEF fdVars, clientVars, acceptVars, reactorVars, packetVars, checkerVars, teardownVars,
            processVars
<1>1. dispatching.step = "epoll"
  BY DEF AddFails, At
<1>2. /\ d \in Client
      /\ dispatching' = [session |-> NoClient, step |-> "idle"] /\ dispatching' = Idle
  BY <1>1 DEF IInv, Types, Idle, AddFails
<1>3. UNCHANGED <<accepted, fdVars, edge, queue, relation, indexed, reactorVars, packets, handler,
                  checkerVars, teardowns, destroyer, closed, strayed>>
  BY DEF AddFails
<1> HIDE DEF d
<1>4. d = dispatching.session
  BY DEF d
<1>5. Queued' = Queued /\ TornDown' = TornDown
  BY <1>3, SameSets
<1>6. d \in accepted /\ d \notin Queued /\ NoClient \notin Queued
  <2>1. Queued \subseteq Client
    BY DEF IInv, Types, Queued
  <2> QED
    BY <1>2, <1>4, <2>1, NoClientIsNoClient DEF IInv, HandedOnce
<1>7. \A s : Fresh(s)' => Fresh(s)
  BY <1>2, <1>3, <1>5 DEF Fresh, BeingAdded
<1>8. d \notin sessions
  BY <1>1, <1>2, <1>4 DEF IInv, FreshIsUntouched, Fresh, BeingAdded
<1>9. Types'
  BY <1>2, <1>3 DEF IInv, Types
<1>10. HandedOnce'
  BY <1>2, <1>3, <1>5, <1>6 DEF IInv, HandedOnce
<1>11. FreshIsUntouched'
  BY <1>3, <1>5, <1>7 DEF IInv, FreshIsUntouched
<1>12. Numbered' /\ Registered' = Registered
  BY <1>3, NumbersStandStill
<1>13. InOrder'
  BY <1>2, <1>3, <1>12 DEF IInv, InOrder, Spared
<1>14. LookedAfter'
  BY <1>2, <1>3, <1>4, <1>5, <1>8 DEF IInv, LookedAfter, Spared
<1> QED
  BY <1>9, <1>10, <1>11, <1>12, <1>13, <1>14 DEF IInv

LEMMA AddToSessionsKeepsIInv ==
    ASSUME IInv, AddToSessions
    PROVE  IInv'
<1> DEFINE d == dispatching.session
<1> USE DEF fdVars, clientVars, acceptVars, packetVars, checkerVars, teardownVars, processVars
<1>1. dispatching.step = "sessions"
  BY DEF AddToSessions, At
<1>2. d \in Client /\ dispatching' = [session |-> d, step |-> "index"]
  BY <1>1 DEF IInv, Types, Idle, AddToSessions, Proceed
<1>3. /\ sessions' = sessions \cup {d}
      /\ UNCHANGED <<accepted, fdVars, edge, queue, relation, indexed, epoll, tasks, packets,
                     handler, checkerVars, teardowns, destroyer, closed, strayed>>
  BY DEF AddToSessions
<1> HIDE DEF d
<1>4. d = dispatching.session
  BY DEF d
<1>5. Queued' = Queued /\ TornDown' = TornDown
  BY <1>3, SameSets
<1>6. d \in accepted /\ d \notin Queued
  BY <1>2, <1>4, NoClientIsNoClient DEF IInv, HandedOnce
<1>7. \A s : Fresh(s)' => Fresh(s) /\ s # d
  BY <1>1, <1>2, <1>3, <1>4, <1>5, <1>6 DEF Fresh, BeingAdded
<1>8. Fresh(d)
  BY <1>1, <1>4 DEF Fresh, BeingAdded
<1>9. Types'
  BY <1>2, <1>3 DEF IInv, Types, Idle
<1>10. HandedOnce'
  BY <1>2, <1>3, <1>4, <1>5 DEF IInv, HandedOnce
<1>11. FreshIsUntouched'
  BY <1>3, <1>5, <1>7 DEF IInv, FreshIsUntouched
<1>12. Numbered' /\ Registered' = Registered
  BY <1>3, NumbersStandStill
<1>13. InOrder'
  <2>1. d # destroyer.session /\ d \notin closed
    BY <1>2, <1>8 DEF IInv, FreshIsUntouched
  <2> QED
    BY <1>1, <1>2, <1>3, <1>4, <1>7, <2>1, <1>12 DEF IInv, InOrder, Spared
<1>14. LookedAfter'
  BY <1>2, <1>3, <1>4, <1>5 DEF IInv, LookedAfter, Spared
<1> QED
  BY <1>12, <1>9, <1>10, <1>11, <1>13, <1>14 DEF IInv

LEMMA SetIndexKeepsIInv ==
    ASSUME IInv, SetSlaveReactorIndex
    PROVE  IInv'
<1> DEFINE d == dispatching.session
<1> USE DEF fdVars, clientVars, acceptVars, reactorVars, packetVars, checkerVars, teardownVars,
            processVars
<1>1. dispatching.step = "index"
  BY DEF SetSlaveReactorIndex, At
<1>2. d \in Client /\ dispatching' = [session |-> d, step |-> "watch"]
  BY <1>1 DEF IInv, Types, Idle, SetSlaveReactorIndex, Proceed
<1>3. /\ indexed' = indexed \cup {d}
      /\ UNCHANGED <<accepted, fdVars, edge, queue, relation, reactorVars, packets, handler,
                     checkerVars, teardowns, destroyer, closed, strayed>>
  BY DEF SetSlaveReactorIndex
<1> HIDE DEF d
<1>4. d = dispatching.session
  BY DEF d
<1>5. Queued' = Queued /\ TornDown' = TornDown
  BY <1>3, SameSets
<1>6. d \in accepted /\ d \notin Queued
  BY <1>2, <1>4, NoClientIsNoClient DEF IInv, HandedOnce
<1>7. \A s : Fresh(s)' => Fresh(s) /\ s # d
  BY <1>2, <1>3, <1>5, <1>6 DEF Fresh, BeingAdded
<1>8. Types'
  BY <1>2, <1>3 DEF IInv, Types, Idle
<1>9. HandedOnce'
  BY <1>2, <1>3, <1>4, <1>5 DEF IInv, HandedOnce
<1>10. FreshIsUntouched'
  BY <1>3, <1>5, <1>7 DEF IInv, FreshIsUntouched
<1>11. Numbered' /\ Registered' = Registered
  BY <1>3, NumbersStandStill
<1>12. InOrder'
  BY <1>1, <1>2, <1>3, <1>7, <1>11 DEF IInv, InOrder, Spared
<1>13. LookedAfter'
  BY <1>2, <1>3, <1>4, <1>5 DEF IInv, LookedAfter, Spared
<1> QED
  BY <1>11, <1>8, <1>9, <1>10, <1>12, <1>13 DEF IInv

\* The dispatcher lets go of the session; the checker has it from now on.
LEMMA WatchKeepsIInv ==
    ASSUME IInv, Watch
    PROVE  IInv'
<1> DEFINE d == dispatching.session
<1> USE DEF fdVars, clientVars, acceptVars, reactorVars, packetVars, teardownVars, processVars
<1>1. dispatching.step = "watch"
  BY DEF Watch, At
<1>2. /\ d \in Client
      /\ dispatching' = [session |-> NoClient, step |-> "idle"] /\ dispatching' = Idle
  BY <1>1 DEF IInv, Types, Idle, Watch
<1>3. /\ watched' = watched \cup {d}
      /\ UNCHANGED <<accepted, fdVars, edge, queue, relation, indexed, reactorVars, packets,
                     handler, offline, teardowns, destroyer, closed, strayed>>
  BY DEF Watch, Supervised
<1> HIDE DEF d
<1>4. d = dispatching.session
  BY DEF d
<1>5. Queued' = Queued /\ TornDown' = TornDown
  BY <1>3, SameSets
<1>6. d \in accepted /\ d \notin Queued /\ NoClient \notin Queued
  <2>1. Queued \subseteq Client
    BY DEF IInv, Types, Queued
  <2> QED
    BY <1>2, <1>4, <2>1, NoClientIsNoClient DEF IInv, HandedOnce
<1>7. \A s : Fresh(s)' => Fresh(s) /\ s # d
  BY <1>2, <1>3, <1>5, <1>6 DEF Fresh, BeingAdded
<1>8. Types'
  BY <1>2, <1>3 DEF IInv, Types
<1>9. HandedOnce'
  BY <1>2, <1>3, <1>5, <1>6 DEF IInv, HandedOnce
<1>10. FreshIsUntouched'
  BY <1>3, <1>5, <1>7 DEF IInv, FreshIsUntouched
<1>11. Numbered' /\ Registered' = Registered
  BY <1>3, NumbersStandStill
<1>12. InOrder'
  BY <1>1, <1>2, <1>3, <1>7, <1>11 DEF IInv, InOrder, Spared
<1>13. LookedAfter'
  BY <1>2, <1>3, <1>4, <1>5 DEF IInv, LookedAfter, Spared
<1> QED
  BY <1>11, <1>8, <1>9, <1>10, <1>12, <1>13 DEF IInv

-----------------------------------------------------------------------------
(* The reactor and the handler: what they touch is not fresh.              *)

LEMMA OnlyKnown ==
    ASSUME IInv, NEW s \in Client, ~Fresh(s),
           UNCHANGED <<accepted, fdVars, dispatchVars, epoll, sessions, checkerVars, destroyer,
                       closed>>,
           edge' \subseteq Registered, strayed \subseteq strayed',
           tasks' \subseteq tasks \cup {s}, packets' \subseteq packets \cup {s},
           handler' \in {handler, s, NoClient},
           teardowns' \in Seq(Info),
           TornDown \subseteq TornDown', TornDown' \subseteq TornDown \cup {s}
    PROVE  IInv'
<1> USE DEF fdVars, dispatchVars, checkerVars
<1>1. Types'
  BY DEF IInv, Types
<1>2. HandedOnce' /\ \A c \in Client : Fresh(c)' <=> Fresh(c)
  BY LineStandsStill
<1>3. \A c : Fresh(c)' <=> Fresh(c)
  BY SameSets DEF Fresh, BeingAdded
<1>4. FreshIsUntouched'
  <2> SUFFICES ASSUME NEW c \in Client, Fresh(c)'
               PROVE  /\ c \notin sessions' \cup tasks' \cup packets' \cup watched' \cup offline'
                               \cup closed' \cup indexed' \cup TornDown'
                      /\ c # handler' /\ c # destroyer'.session
    BY DEF FreshIsUntouched
  <2>1. Fresh(c) /\ c # s
    BY <1>3
  <2> QED
    BY <2>1, NoClientIsNoClient DEF IInv, FreshIsUntouched
<1>5. Numbered' /\ Registered' = Registered
  BY NumbersStandStill
<1>6. InOrder'
  BY <1>3, <1>5 DEF IInv, InOrder, Spared
<1>7. LookedAfter'
  BY DEF IInv, LookedAfter, Spared
<1> QED
  BY <1>5, <1>1, <1>2, <1>4, <1>6, <1>7 DEF IInv

LEMMA ReactorEventKeepsIInv ==
    ASSUME IInv, NEW c \in Client, ReactorEvent(c)
    PROVE  IInv'
<1> DEFINE s == epoll[c]
<1> USE DEF fdVars, acceptVars, reactorVars, processVars
<1>1. /\ UNCHANGED <<accepted, fdVars, dispatchVars, epoll, sessions, tasks, handler, checkerVars,
                     destroyer, closed, strayed>>
      /\ edge' \subseteq Registered
  BY DEF ReactorEvent, IInv, InOrder
<1>2. teardowns \in Seq(Info) /\ s \in Client
  BY DEF IInv, Types, InOrder, Registered, ReactorEvent
<1>3. CASE s \notin sessions
  <2>1. UNCHANGED <<packets, teardowns>>
    BY <1>3 DEF ReactorEvent, EventDropped, Receive, Disconnect
  <2> QED
    BY <1>1, <2>1, OnlyEdges DEF reactorVars
<1>4. CASE s \in sessions
  <2>1. ~Fresh(s)
    BY <1>2, <1>4 DEF IInv, FreshIsUntouched
  <2>2. packets' \subseteq packets \cup {s} /\ (teardowns' = teardowns \/ TearDown(s, FALSE))
    BY <1>4 DEF ReactorEvent, EventDropped, Receive, Disconnect
  <2> HIDE DEF s
  <2>3. /\ teardowns' \in Seq(Info)
        /\ TornDown \subseteq TornDown' /\ TornDown' \subseteq TornDown \cup {s}
    BY <1>2, <2>2, TearDownAdds, SameSets
  <2> QED
    BY <1>1, <1>2, <2>1, <2>2, <2>3, OnlyKnown
<1> QED
  BY <1>3, <1>4

\* A reply is sent, or the session handed over, or an event raised.
LEMMA SendTaskOutcomes ==
    ASSUME accepted \subseteq Client, NEW s \in Client, SendTask(s)
    PROVE  /\ teardowns' = teardowns \/ TearDown(s, FALSE)
           /\ \A c \in edge' : c \in edge \/ c \in Registered
<1>1. CASE UNCHANGED <<edge, teardowns>>
  BY <1>1
<1>2. ASSUME NEW c \in Behind(s), Raise(c), UNCHANGED teardowns
      PROVE  UNCHANGED teardowns /\ \A d \in edge' : d \in edge \/ d \in Registered
  BY <1>2 DEF Raise, Registered, Behind, Open
<1>3. CASE TearDown(s, FALSE) /\ UNCHANGED edge
  BY <1>3
<1> QED
  BY <1>1, <1>2, <1>3 DEF SendTask

LEMMA SendTaskKeepsIInv ==
    ASSUME IInv, NEW s \in Client, SendTask(s)
    PROVE  IInv'
<1> USE DEF fdVars, acceptVars, packetVars, processVars
<1>1. /\ UNCHANGED <<accepted, fdVars, dispatchVars, epoll, sessions, packets, handler, checkerVars,
                     destroyer, closed, strayed>>
      /\ tasks' \subseteq tasks
  BY DEF SendTask
<1>2. /\ edge' \subseteq Registered
      /\ teardowns' = teardowns \/ TearDown(s, FALSE)
  BY SendTaskOutcomes DEF IInv, Types, InOrder
<1>3. ~Fresh(s)
  BY DEF SendTask, IInv, FreshIsUntouched
<1>4. /\ teardowns' \in Seq(Info)
      /\ TornDown \subseteq TornDown' /\ TornDown' \subseteq TornDown \cup {s}
  BY <1>2, TearDownAdds, SameSets DEF IInv, Types
<1> QED
  BY <1>1, <1>2, <1>3, <1>4, OnlyKnown

LEMMA HandleHeartbeatKeepsIInv ==
    ASSUME IInv, NEW s \in Client, HandleHeartbeat(s)
    PROVE  IInv'
<1> USE DEF fdVars, clientVars, acceptVars, reactorVars, teardownVars, processVars
<1>1. /\ UNCHANGED <<accepted, fdVars, dispatchVars, edge, epoll, sessions, tasks, checkerVars,
                     teardowns, destroyer, closed, strayed>>
      /\ packets' \subseteq packets
      /\ handler' \in {handler, s}
  BY DEF HandleHeartbeat
<1>2. ~Fresh(s)
  BY DEF HandleHeartbeat, IInv, FreshIsUntouched
<1>3. teardowns' \in Seq(Info) /\ TornDown' = TornDown /\ edge' \subseteq Registered
  BY <1>1, SameSets DEF IInv, Types, InOrder
<1> QED
  BY <1>1, <1>2, <1>3, OnlyKnown

LEMMA ReplyKeepsIInv ==
    ASSUME IInv, Reply
    PROVE  IInv'
<1> USE DEF fdVars, clientVars, acceptVars, teardownVars
<1>1. /\ UNCHANGED <<accepted, fdVars, dispatchVars, edge, epoll, sessions, packets, checkerVars,
                     teardowns, destroyer, closed>>
      /\ tasks' \subseteq tasks \cup {handler}
      /\ handler' = NoClient
      /\ strayed \subseteq strayed'
  BY DEF Reply, IndexRead
<1>2. handler \in Client /\ ~Fresh(handler)
  BY DEF Reply, IInv, Types, FreshIsUntouched
<1>3. teardowns' \in Seq(Info) /\ TornDown' = TornDown /\ edge' \subseteq Registered
  BY <1>1, SameSets DEF IInv, Types, InOrder
<1> QED
  BY <1>1, <1>2, <1>3, OnlyKnown

-----------------------------------------------------------------------------
(* The alive checker: a session leaves its map only for the list of those  *)
(* to report, and that list only for the destroyer's queue.                *)

LEMMA TickKeepsIInv ==
    ASSUME IInv, Tick
    PROVE  IInv'
<1> USE DEF fdVars, clientVars, acceptVars, dispatchVars, reactorVars, teardownVars, processVars
<1>1. /\ UNCHANGED <<edge, accepted, fdVars, dispatchVars, reactorVars, packets, handler, teardowns,
                     destroyer, closed, strayed>>
      /\ offline = {}
      /\ watched' \cup offline' \subseteq watched
      /\ \A s \in watched : Held(s) => s \in watched' \cup offline'
  BY DEF Tick
<1>2. TornDown' = TornDown
  BY <1>1, SameSets
<1>3. HandedOnce' /\ \A c \in Client : Fresh(c)' <=> Fresh(c)
  BY <1>1, LineStandsStill
<1>4. \A c : Fresh(c)' <=> Fresh(c)
  BY <1>1, SameSets DEF Fresh, BeingAdded
<1>5. Types'
  BY <1>1 DEF IInv, Types
<1>6. FreshIsUntouched'
  BY <1>1, <1>2, <1>3 DEF IInv, FreshIsUntouched
<1>7. Numbered' /\ Registered' = Registered
  BY <1>1, NumbersStandStill
<1>8. InOrder'
  BY <1>1, <1>4, <1>7 DEF IInv, InOrder, Spared
<1>9. LookedAfter'
  <2>1. \A s \in sessions : Held(s)
    BY DEF Held
  <2> QED
    BY <1>1, <1>2, <2>1 DEF IInv, LookedAfter, Spared
<1> QED
  BY <1>7, <1>3, <1>5, <1>6, <1>8, <1>9 DEF IInv

LEMMA ReportKeepsIInv ==
    ASSUME IInv, NEW s \in Client, Report(s)
    PROVE  IInv'
<1> USE DEF fdVars, clientVars, acceptVars, dispatchVars, reactorVars, packetVars, processVars
<1>1. /\ UNCHANGED <<edge, accepted, fdVars, dispatchVars, reactorVars, packets, handler, watched,
                     destroyer, closed, strayed>>
      /\ s \in offline /\ offline' = offline \ {s}
      /\ TearDown(s, TRUE)
  BY DEF Report
<1>2. teardowns' \in Seq(Info) /\ TornDown' = TornDown \cup {s}
  BY <1>1, TearDownAdds DEF IInv, Types
<1>3. HandedOnce' /\ \A c \in Client : Fresh(c)' <=> Fresh(c)
  BY <1>1, LineStandsStill
<1>4. \A c : Fresh(c)' <=> Fresh(c)
  BY <1>1, SameSets DEF Fresh, BeingAdded
<1>5. Types'
  BY <1>1, <1>2 DEF IInv, Types
<1>6. FreshIsUntouched'
  <2>1. ~Fresh(s)
    BY <1>1 DEF IInv, FreshIsUntouched
  <2> QED
    BY <1>1, <1>2, <1>3, <2>1 DEF IInv, FreshIsUntouched
<1>7. Numbered' /\ Registered' = Registered
  BY <1>1, NumbersStandStill
<1>8. InOrder'
  BY <1>1, <1>4, <1>7 DEF IInv, InOrder, Spared
<1>9. LookedAfter'
  BY <1>1, <1>2 DEF IInv, LookedAfter, Spared
<1> QED
  BY <1>7, <1>3, <1>5, <1>6, <1>8, <1>9 DEF IInv

-----------------------------------------------------------------------------
(* The destroyer: what it has taken out of the map is not put back.        *)

LEMMA DestroyKeepsIInv ==
    ASSUME IInv, Destroy
    PROVE  IInv'
<1> DEFINE s == Head(teardowns).session
<1> USE DEF fdVars, clientVars, acceptVars, dispatchVars, reactorVars, packetVars, checkerVars
<1>1. /\ UNCHANGED <<edge, accepted, fdVars, dispatchVars, reactorVars, packets, handler,
                     checkerVars, closed, strayed>>
      /\ destroyer = Idle /\ destroyer.session = NoClient
      /\ destroyer'.session = s /\ destroyer'.step \in {"unwatch", "remove"}
      /\ destroyer' = [session |-> destroyer'.session, step |-> destroyer'.step]
  BY DEF Destroy, Idle
<1>2. teardowns' \in Seq(Info) /\ s \in Client /\ TornDown = TornDown' \cup {s}
  BY TearDownTaken DEF Destroy, IInv, Types, Info
<1> HIDE DEF s
<1>3. HandedOnce' /\ \A c \in Client : Fresh(c)' <=> Fresh(c)
  BY <1>1, LineStandsStill
<1>4. \A c : Fresh(c)' <=> Fresh(c)
  BY <1>1, SameSets DEF Fresh, BeingAdded
<1>5. Types'
  BY <1>1, <1>2 DEF IInv, Types
<1>6. FreshIsUntouched'
  BY <1>1, <1>2, <1>3 DEF IInv, FreshIsUntouched
<1>7. Numbered' /\ Registered' = Registered
  BY <1>1, NumbersStandStill
<1>8. InOrder'
  BY <1>1, <1>4, <1>7 DEF IInv, InOrder, Spared
<1>9. LookedAfter'
  <2>1. NoClient \notin sessions
    BY NoClientIsNoClient DEF IInv, Types
  <2> QED
    BY <1>1, <1>2, <2>1 DEF IInv, LookedAfter, Spared
<1> QED
  BY <1>7, <1>3, <1>5, <1>6, <1>8, <1>9 DEF IInv

LEMMA RemoveSessionKeepsIInv ==
    ASSUME IInv, RemoveSession
    PROVE  IInv'
<1> USE DEF fdVars, clientVars, acceptVars, dispatchVars, reactorVars, packetVars, processVars
<1>1. /\ UNCHANGED <<edge, accepted, fdVars, dispatchVars, reactorVars, packets, handler, offline,
                     teardowns, closed, strayed>>
      /\ watched' = watched \ {destroyer.session}
      /\ destroyer' = [session |-> destroyer.session, step |-> "remove"]
      /\ destroyer.session \in Client
  BY DEF RemoveSession, IInv, Types, Idle
<1>2. TornDown' = TornDown
  BY <1>1, SameSets
<1>3. HandedOnce' /\ \A c \in Client : Fresh(c)' <=> Fresh(c)
  BY <1>1, LineStandsStill
<1>4. \A c : Fresh(c)' <=> Fresh(c)
  BY <1>1, SameSets DEF Fresh, BeingAdded
<1>5. Types'
  BY <1>1 DEF IInv, Types
<1>6. FreshIsUntouched'
  BY <1>1, <1>2, <1>3 DEF IInv, FreshIsUntouched
<1>7. Numbered' /\ Registered' = Registered
  BY <1>1, NumbersStandStill
<1>8. InOrder'
  BY <1>1, <1>4, <1>7 DEF IInv, InOrder, Spared
<1>9. LookedAfter'
  BY <1>1, <1>2 DEF IInv, LookedAfter, Spared
<1> QED
  BY <1>7, <1>3, <1>5, <1>6, <1>8, <1>9 DEF IInv

LEMMA RemoveClientKeepsIInv ==
    ASSUME IInv, RemoveClient
    PROVE  IInv'
<1> DEFINE s == destroyer.session
<1> USE DEF acceptVars, dispatchVars, packetVars, checkerVars
<1>1. /\ UNCHANGED <<accepted, fd, shut, dispatchVars, tasks, packets, handler, checkerVars,
                     teardowns, closed>>
      /\ strayed' = IF s \in indexed THEN strayed ELSE strayed \cup {s}
      /\ edge' = {c \in edge : epoll'[c] # NoClient}
      /\ destroyer' = [session |-> s, step |-> "close"]
      /\ s \in Client
  BY DEF RemoveClient, EraseClient, IndexRead, IInv, Types, Idle
<1>2. \/ \E c \in Behind(s) \cap Registered :
            /\ epoll' = [epoll EXCEPT ![c] = NoClient]
            /\ sessions' = sessions \ {s}
            /\ robbed' = IF c = s THEN robbed ELSE robbed \cup {c}
      \/ /\ s \notin indexed \/ Behind(s) \cap Registered = {}
         /\ sessions' = sessions /\ epoll' = epoll /\ robbed' = robbed
  BY DEF RemoveClient, EraseClient
<1> HIDE DEF s
<1>3. s = destroyer.session
  BY DEF s
<1>4. ~Fresh(s)
  BY <1>1, <1>3 DEF IInv, FreshIsUntouched
<1>5. TornDown' = TornDown /\ Open' = Open
  BY <1>1, SameSets DEF Open
<1>6. HandedOnce' /\ \A c \in Client : Fresh(c)' <=> Fresh(c)
  BY <1>1, LineStandsStill
\* What is registered for itself stays so, or has been taken away.
<1> DEFINE Kept == /\ robbed \subseteq robbed' /\ Spared' \subseteq Spared
                   /\ sessions' \subseteq sessions /\ sessions \subseteq sessions' \cup {s}
                   /\ epoll' \in [Client -> Client \cup {NoClient}]
                   /\ \A c \in Client : \/ epoll'[c] = epoll[c]
                                        \/ epoll'[c] = NoClient /\ (c = s \/ c \in robbed')
                   /\ s \in sessions' => sessions' = sessions /\ epoll' = epoll
<1>7. Kept
  <2>1. ASSUME NEW c \in Behind(s) \cap Registered,
               epoll' = [epoll EXCEPT ![c] = NoClient],
               sessions' = sessions \ {s},
               robbed' = IF c = s THEN robbed ELSE robbed \cup {c}
        PROVE  Kept
    <3>1. c \in Client
      BY DEF Registered
    <3> QED
      BY <1>1, <2>1, <3>1 DEF IInv, Types, Spared
  <2>2. ASSUME sessions' = sessions, epoll' = epoll, robbed' = robbed
        PROVE  Kept
    BY <1>1, <2>2 DEF IInv, Types, Spared
  <2> QED
    BY <1>2, <2>1, <2>2
<1>8. Types'
  BY <1>1, <1>7 DEF IInv, Types, Idle
<1>9. FreshIsUntouched'
  BY <1>1, <1>3, <1>5, <1>6, <1>7 DEF IInv, FreshIsUntouched
<1>10. Registered' \subseteq Registered
  BY <1>7 DEF Registered
<1>11. Numbered'
  BY <1>1, <1>5, <1>7, <1>10 DEF IInv, Numbered, Registered
\* Nothing is registered for the session, unless its index was not yet set.
<1>12. s \in Spared' => s \in indexed \ (sessions' \cup Registered')
  <2> SUFFICES ASSUME s \in Spared'
               PROVE  s \in indexed \ (sessions' \cup Registered')
    OBVIOUS
  <2>1. s \in indexed /\ s \in Spared
    BY <1>1, <1>7 DEF Spared
  <2>2. s \in Registered => s \in Behind(s)
    BY <1>1 DEF IInv, Numbered, Behind
  <2>3. s \in sessions => s \in Registered
    BY <1>1, <2>1, NoClientIsNoClient DEF IInv, InOrder, Registered
  <2>4. ASSUME NEW c \in Behind(s) \cap Registered,
               epoll' = [epoll EXCEPT ![c] = NoClient], sessions' = sessions \ {s}
        PROVE  s \notin sessions' \cup Registered'
    <3>1. s \in Registered => c = s
      BY <2>2 DEF IInv, Numbered, Behind
    <3> QED
      BY <1>1, <1>10, <2>4, <3>1 DEF IInv, Types, Registered
  <2>5. ASSUME Behind(s) \cap Registered = {}, sessions' = sessions
        PROVE  s \notin sessions' \cup Registered'
    BY <1>10, <2>2, <2>3, <2>5
  <2> QED
    BY <1>2, <2>1, <2>4, <2>5
<1>13. InOrder'
  <2>1. dispatching.step = "sessions" => dispatching.session # s
    BY <1>4 DEF Fresh, BeingAdded
  <2>2. dispatching.step = "sessions" /\ dispatching.session \notin robbed'
          => epoll'[dispatching.session] = dispatching.session
    BY <1>7, <2>1, NoClientIsNoClient DEF IInv, Types, InOrder, Idle
  <2>3. \A c \in sessions' \cap Spared' : epoll'[c] = c
    <3> SUFFICES ASSUME NEW c \in sessions' \cap Spared' PROVE epoll'[c] = c
      OBVIOUS
    <3>1. c \in Client /\ c \in sessions /\ epoll[c] = c
      BY <1>7 DEF IInv, InOrder, Spared
    <3>2. c # s \/ epoll' = epoll
      BY <1>7
    <3> QED
      BY <1>7, <3>1, <3>2 DEF Spared
  <2>4. edge' \subseteq Registered'
    BY <1>1 DEF IInv, InOrder, Registered
  <2>5. \A c \in closed \cap Spared' :
          /\ c \in (indexed \cap shut) \ (sessions' \cup Registered')
          /\ relation[c] = NoReactor
    BY <1>7, <1>10 DEF IInv, InOrder
  <2> QED
    BY <1>1, <1>12, <2>2, <2>3, <2>4, <2>5 DEF IInv, InOrder
<1>14. LookedAfter'
  BY <1>1, <1>3, <1>5, <1>7 DEF IInv, LookedAfter
<1> QED
  BY <1>6, <1>8, <1>9, <1>11, <1>13, <1>14 DEF IInv

LEMMA CloseKeepsIInv ==
    ASSUME IInv, Close
    PROVE  IInv'
<1> DEFINE s == destroyer.session
<1> USE DEF acceptVars, packetVars, checkerVars, processVars
<1>1. /\ UNCHANGED <<accepted, fd, queue, dispatching, indexed, sessions, tasks, packets, handler,
                     checkerVars, teardowns, strayed>>
      /\ relation' = [relation EXCEPT ![s] = NoReactor]
      /\ closed' = closed \cup {s}
      /\ shut' = shut \cup Behind(s)
      /\ robbed' = robbed \cup (Behind(s) \ {s})
      /\ epoll' = [c \in Client |-> IF c \in Behind(s) THEN NoClient ELSE epoll[c]]
      /\ edge' = edge \ Behind(s)
      /\ destroyer.step = "close"
      /\ destroyer' = Idle /\ destroyer'.session = NoClient /\ destroyer'.step = "idle"
      /\ s \in Client
  BY DEF Close, IInv, Types, Idle
<1> HIDE DEF s
<1>2. s = destroyer.session
  BY DEF s
<1>3. ~Fresh(s)
  BY <1>1, <1>2 DEF IInv, FreshIsUntouched
<1>4. TornDown' = TornDown
  BY <1>1, SameSets
<1>5. HandedOnce' /\ \A c \in Client : Fresh(c)' <=> Fresh(c)
  BY <1>1, LineStandsStill
<1>6. /\ Behind(s) \subseteq Client \cap Open
      /\ s \in Open <=> s \in Behind(s)
      /\ Spared' \subseteq Spared
      /\ \A c \in Behind(s) : c = s \/ (c \notin Spared' /\ c \in robbed')
  BY <1>1 DEF IInv, Types, Behind, Open, Spared
<1>7. s \in Spared' => s \in indexed \ (sessions \cup Registered)
  BY <1>1, <1>2, <1>6 DEF IInv, InOrder
<1>8. Types'
  <2>1. destroyer' = [session |-> destroyer'.session, step |-> destroyer'.step]
    BY <1>1 DEF Idle
  <2> QED
    BY <1>1, <2>1 DEF IInv, Types
<1>9. FreshIsUntouched'
  BY <1>1, <1>3, <1>4, <1>5, NoClientIsNoClient DEF IInv, FreshIsUntouched
<1>10. Registered' = Registered \ Behind(s)
  BY <1>1 DEF Registered
<1>11. s \in accepted
  BY <1>1, <1>3 DEF Fresh
<1>12. Numbered'
  <2>1. Open' = Open \ Behind(s)
    BY <1>1 DEF Open
  <2>2. shut' \subseteq accepted \cap (closed' \cup robbed')
    BY <1>1, <1>6, <1>11 DEF IInv, Numbered, Open
  <2>3. \A c \in Registered' : c \in Open' /\ (epoll'[c] = c \/ {c, epoll'[c]} \subseteq robbed')
    BY <1>1, <1>10, <2>1 DEF IInv, Numbered, Registered
  <2> QED
    BY <1>1, <2>1, <2>2, <2>3 DEF IInv, Numbered
<1>13. InOrder'
  <2>1. dispatching.step = "sessions" => dispatching.session # s
    BY <1>3 DEF Fresh, BeingAdded
  <2>2. dispatching.step = "sessions" /\ dispatching.session \notin robbed'
          => epoll'[dispatching.session] = dispatching.session
    <3> SUFFICES ASSUME dispatching.step = "sessions", dispatching.session \notin robbed'
                 PROVE  epoll'[dispatching.session] = dispatching.session
      OBVIOUS
    <3>1. dispatching.session \in Client
      BY DEF IInv, Types, Idle
    <3>2. dispatching.session \notin Behind(s)
      BY <1>1, <2>1
    <3> QED
      BY <1>1, <3>1, <3>2 DEF IInv, InOrder
  <2>3. \A c \in sessions \cap Spared' : epoll'[c] = c
    <3> SUFFICES ASSUME NEW c \in sessions \cap Spared' PROVE epoll'[c] = c
      OBVIOUS
    <3>1. c \in Client /\ epoll[c] = c /\ c # s
      BY <1>6, <1>7 DEF IInv, InOrder, Spared
    <3>2. c \notin Behind(s)
      BY <1>1, <3>1 DEF Spared
    <3> QED
      BY <1>1, <3>1, <3>2
  <2>4. \A c \in closed' \cap Spared' : relation'[c] = NoReactor
    <3> SUFFICES ASSUME NEW c \in closed' \cap Spared' PROVE relation'[c] = NoReactor
      OBVIOUS
    <3>1. c \in Client
      BY DEF Spared
    <3> QED
      BY <1>1, <1>6, <3>1 DEF IInv, Types, InOrder
  <2>5. s \in shut'
    BY <1>1, <1>6, <1>11 DEF Open
  <2>6. \A c \in closed' \cap Spared' : c \in (indexed \cap shut') \ (sessions \cup Registered')
    BY <1>1, <1>6, <1>7, <1>10, <2>5 DEF IInv, InOrder
  <2>7. edge' \subseteq Registered'
    BY <1>1, <1>10 DEF IInv, InOrder
  <2> QED
    BY <1>1, <2>2, <2>3, <2>4, <2>6, <2>7 DEF IInv, InOrder
<1>14. LookedAfter'
  BY <1>1, <1>2, <1>4, <1>6, <1>7 DEF IInv, LookedAfter
<1> QED
  BY <1>5, <1>8, <1>9, <1>12, <1>13, <1>14 DEF IInv

-----------------------------------------------------------------------------

-----------------------------------------------------------------------------
LEMMA NextKeepsIInv == IInv /\ [Next]_vars => IInv'
<1> SUFFICES ASSUME IInv, [Next]_vars PROVE IInv'
  OBVIOUS
<1>1. CASE UNCHANGED vars
  BY <1>1, ListenerKeepsIInv
<1>2. ASSUME NEW c \in Client, Connect(c) \/ Beat(c) \/ Leave(c)
      PROVE  IInv'
  BY <1>2, ClientKeepsIInv
<1>3. ASSUME NEW c \in Client, Step(c)
      PROVE  IInv'
  BY <1>3, ReactorEventKeepsIInv, SendTaskKeepsIInv, HandleHeartbeatKeepsIInv, ReportKeepsIInv,
     AcceptKeepsIInv, ClientKeepsIInv DEF Step
<1>4. CASE AcceptorWaits \/ OnConnect \/ AcceptFails
  BY <1>4, ListenerKeepsIInv
<1>5. CASE Dispatcher
  BY <1>5, DispatchKeepsIInv, AddToEpollKeepsIInv, AddFailsKeepsIInv, AddToSessionsKeepsIInv,
     SetIndexKeepsIInv, WatchKeepsIInv DEF Dispatcher
<1>6. CASE Reply
  BY <1>6, ReplyKeepsIInv
<1>7. CASE Tick
  BY <1>7, TickKeepsIInv
<1>8. CASE Destroyer
  BY <1>8, DestroyKeepsIInv, RemoveSessionKeepsIInv, RemoveClientKeepsIInv, CloseKeepsIInv
     DEF Destroyer
<1> QED
  BY <1>1, <1>2, <1>3, <1>4, <1>5, <1>6, <1>7, <1>8 DEF Next

LEMMA IInvHolds == Spec => []IInv
  BY InitIInv, NextKeepsIInv, PTL DEF Spec

\* However the threads take turns, a session in the map of a reactor is with
\* the alive checker, on its way to it, or on its way to the destroyer, unless
\* another session's step by number took its connection away
\* (ServerService.cpp:318-354, SessionAliveChecker.cpp:16-109).
THEOREM WatchedCorrect == Spec => []NobodyUnwatched
<1>1. IInv => NobodyUnwatched
  BY DEF IInv, LookedAfter, Types, Spared, TornDown, NobodyUnwatched
<1> QED
  BY <1>1, IInvHolds, PTL

\* However the threads take turns, and however numbers are used again, nothing
\* finds a session after its teardown and its connection is closed, unless its
\* number was another session's to close as well
\* (ServerService.cpp:49-92, SlaveReactor.cpp:314-328).
THEOREM ForgottenCorrect == Spec => []ClosedIsForgotten
<1>1. IInv => ClosedIsForgotten
  <2> SUFFICES ASSUME IInv, NEW s \in closed \ (strayed \cup robbed)
               PROVE  /\ s \notin sessions
                      /\ \A c \in Client : epoll[c] # s
                      /\ relation[s] = NoReactor
                      /\ s \in shut \ edge
    BY DEF ClosedIsForgotten
  <2>1. s \in Client /\ s \in closed \cap Spared
    BY DEF IInv, Types, Spared
  <2>2. /\ s \in shut /\ s \notin sessions /\ s \notin Registered /\ relation[s] = NoReactor
        /\ edge \subseteq Registered
    BY <2>1 DEF IInv, InOrder
  <2>3. ASSUME NEW c \in Client, epoll[c] = s PROVE FALSE
    <3>1. c \in Registered
      BY <2>1, <2>3, NoClientIsNoClient DEF Registered
    <3>2. c = s
      BY <2>3, <3>1 DEF IInv, Numbered
    <3> QED
      BY <2>2, <3>1, <3>2
  <2> QED
    BY <2>2, <2>3
<1> QED
  BY <1>1, IInvHolds, PTL

\* Sessions are torn down by the destroyer only.
LEMMA OnlyCloseCloses == ASSUME Next PROVE Close \/ closed' = closed
<1> USE DEF teardownVars
<1>1. ASSUME NEW c \in Client, Connect(c) \/ Beat(c) \/ Leave(c) \/ Step(c) PROVE closed' = closed
  BY <1>1 DEF Connect, Beat, Leave, Step, ReactorEvent, SendTask, HandleHeartbeat, Report, Accept,
              Refuse
<1>2. CASE AcceptorWaits \/ OnConnect \/ AcceptFails \/ Dispatcher
  BY <1>2 DEF AcceptorWaits, OnConnect, AcceptFails, Dispatcher, Dispatch, AddToEpoll, AddFails,
              AddToSessions, SetSlaveReactorIndex, Watch
<1>3. CASE Reply \/ Tick \/ Destroyer
  BY <1>3 DEF Reply, Tick, Destroyer, Destroy, RemoveSession, RemoveClient
<1> QED
  BY <1>1, <1>2, <1>3 DEF Next

\* The first teardown of a session closes its own connection and no other, as
\* long as nobody has closed that before, whatever numbers the kernel gave
\* (ServerService.cpp:48-92).
THEOREM FirstCloseCorrect == Spec => FirstCloseIsOwn
<1> DEFINE FirstClose == \A s \in closed' \ (closed \cup robbed) : shut' = shut \cup {s}
<1>1. IInv /\ [Next]_vars => [FirstClose]_vars
  <2> SUFFICES ASSUME IInv, Next PROVE FirstClose
    OBVIOUS
  <2>1. CASE closed' = closed
    BY <2>1
  <2>2. CASE Close
    <3> SUFFICES ASSUME NEW s \in closed' \ (closed \cup robbed) PROVE shut' = shut \cup {s}
      OBVIOUS
    <3>1. s = destroyer.session /\ s \in Client /\ shut' = shut \cup Behind(s)
      BY <2>2 DEF Close, IInv, Types, Idle
    <3>2. s \in accepted
      BY <3>1 DEF IInv, FreshIsUntouched, Fresh
    <3>3. s \in Open
      BY <3>2 DEF IInv, Numbered, Open
    <3>4. Behind(s) = {s}
      BY <3>3 DEF IInv, Numbered, Behind
    <3> QED
      BY <3>1, <3>4
  <2> QED
    BY <2>1, <2>2, OnlyCloseCloses
<1> QED
  BY <1>1, IInvHolds, PTL DEF Spec, FirstCloseIsOwn

-----------------------------------------------------------------------------
(* The types of all variables.                                             *)

\* The smallest size is one of the sizes.
LEMMA ChosenIsSize == ASSUME TypeOK PROVE ChosenReactor \in Nat
<1> DEFINE S == {sizes[r] : r \in DOMAIN sizes}
<1>1. S \subseteq Nat
  BY DEF TypeOK
<1>2. S # {}
  <2>1. 0 \in DOMAIN sizes
    BY SizeAssumption DEF TypeOK
  <2> QED
    BY <2>1
<1> HIDE DEF S
<1>3. \E m \in S : \A k \in S : m <= k
  BY <1>1, <1>2, LeastNatural
<1>4. Min(S) \in S
  BY <1>3 DEF Min
<1> QED
  BY <1>1, <1>4 DEF ChosenReactor, S

\* Updates of the functions keep their types.
LEMMA UpdateTypes ==
    ASSUME NEW T, NEW R, NEW f \in [T -> R], NEW x
    PROVE  /\ \A v \in R : [f EXCEPT ![x] = v] \in [T -> R]
           /\ R = Nat => [f EXCEPT ![x] = @ + 1] \in [T -> R]
<1>1. ASSUME NEW v \in R PROVE [f EXCEPT ![x] = v] \in [T -> R]
  OBVIOUS
<1>2. ASSUME R = Nat PROVE [f EXCEPT ![x] = @ + 1] \in [T -> R]
  <2>1. \A r \in T : f[r] \in Nat /\ f[r] + 1 \in Nat
    BY <1>2
  <2> QED
    BY <1>2, <2>1
<1> QED
  BY <1>1, <1>2

\* TypeOK with its sets of sessions one by one.
TypeParts ==
    /\ beats \in 0..MaxBeats
    /\ client \in [Client -> {"away", "here", "gone", "refused"}]
    /\ fd \in [Client -> Fd \cup {NoFd}]
    /\ epoll \in [Client -> Client \cup {NoClient}]
    /\ acceptor \in {"starting", "waiting", "accepting"}
    /\ queue \in Seq(Client)
    /\ dispatching \in [session : Client \cup {NoClient},
                        step : {"idle", "epoll", "sessions", "index", "watch"}]
    /\ sizes \in [0..(Reactors - 1) -> Nat]
    /\ relation \in [Client -> Int]
    /\ inbox \subseteq Client /\ edge \subseteq Client /\ accepted \subseteq Client
    /\ lost \subseteq Client /\ indexed \subseteq Client /\ shut \subseteq Client
    /\ sessions \subseteq Client /\ tasks \subseteq Client /\ packets \subseteq Client
    /\ news \subseteq Client /\ watched \subseteq Client /\ offline \subseteq Client
    /\ waiting \subseteq Client /\ closed \subseteq Client /\ strayed \subseteq Client
    /\ robbed \subseteq Client
    /\ handler \in Client \cup {NoClient}
    /\ teardowns \in Seq(Info)
    /\ destroyer \in [session : Client \cup {NoClient},
                      step : {"idle", "unwatch", "remove", "close"}]
    /\ crashed \in BOOLEAN

LEMMA PartsOfTypeOK == (TypeOK <=> TypeParts) /\ (TypeOK' <=> TypeParts')
  BY DEF TypeOK, TypeParts, Info

\* Every step keeps them.
LEMMA NextKeepsTypes == ASSUME IInv, TypeParts, Next PROVE TypeParts'
<1> USE DEF clientVars, fdVars, acceptVars, dispatchVars, reactorVars, packetVars, checkerVars,
            teardownVars, processVars
<1>1. ASSUME NEW c \in Client, Connect(c) \/ Beat(c) \/ Leave(c) \/ Refuse(c)
      PROVE  TypeParts'
  <2>1. client' \in [Client -> {"away", "here", "gone", "refused"}]
    BY <1>1, UpdateTypes DEF TypeParts, Connect, Beat, Leave, Refuse
  <2>2. edge' \subseteq Client /\ inbox' \subseteq Client /\ beats' \in 0..MaxBeats
    BY <1>1, SizeAssumption DEF TypeParts, Connect, Beat, Leave, Refuse, Raise
  <2> QED
    BY <1>1, <2>1, <2>2 DEF TypeParts, Connect, Beat, Leave, Refuse, AcceptorAfter
<1>2. ASSUME NEW s \in Client, ReactorEvent(s) PROVE TypeParts'
  <2>1. epoll[s] \in Client
    BY <1>2 DEF IInv, Types, InOrder, Registered, ReactorEvent
  <2>2. teardowns' \in Seq(Info)
    BY <1>2, <2>1, TearDownAdds DEF TypeParts, ReactorEvent, EventDropped, Receive, Disconnect
  <2>3. /\ edge' \subseteq Client /\ inbox' \subseteq Client
        /\ packets' \subseteq Client /\ waiting' \subseteq Client
    BY <1>2, <2>1 DEF TypeParts, ReactorEvent, EventDropped, Receive, Disconnect
  <2> QED
    BY <1>2, <2>2, <2>3 DEF TypeParts, ReactorEvent
<1>3. ASSUME NEW s \in Client, SendTask(s) PROVE TypeParts'
  <2>1. teardowns' \in Seq(Info)
    BY <1>3, TearDownAdds DEF TypeParts, SendTask
  <2>2. edge' \subseteq Client
    BY <1>3, SendTaskOutcomes DEF TypeParts, Registered
  <2>3. tasks' \subseteq Client
    BY <1>3 DEF TypeParts, SendTask
  <2> QED
    BY <1>3, <2>1, <2>2, <2>3 DEF TypeParts, SendTask
<1>4. ASSUME NEW s \in Client, HandleHeartbeat(s) PROVE TypeParts'
  <2>1. packets' \subseteq Client /\ news' \subseteq Client /\ handler' \in Client \cup {NoClient}
    BY <1>4 DEF TypeParts, HandleHeartbeat
  <2> QED
    BY <1>4, <2>1 DEF TypeParts, HandleHeartbeat
<1>5. ASSUME NEW s \in Client, Report(s) PROVE TypeParts'
  <2>1. teardowns' \in Seq(Info)
    BY <1>5, TearDownAdds DEF TypeParts, Report
  <2> QED
    BY <1>5, <2>1 DEF TypeParts, Report
<1>6. ASSUME NEW s \in Client, Accept(s) PROVE TypeParts'
  <2>1. queue' \in Seq(Client)
    BY <1>6, QueueAppend DEF TypeParts, Accept
  <2>2. lost' \subseteq Client /\ accepted' \subseteq Client
    BY <1>6 DEF TypeParts, Accept
  <2>3. fd' \in [Client -> Fd \cup {NoFd}]
    BY <1>6, UpdateTypes DEF TypeParts, Accept, Free
  <2> QED
    BY <1>6, <2>1, <2>2, <2>3 DEF TypeParts, Accept, AcceptorAfter
<1>7. ASSUME AcceptorWaits \/ OnConnect \/ AcceptFails \/ Tick PROVE TypeParts'
  BY <1>7 DEF TypeParts, AcceptorWaits, OnConnect, AcceptFails, Tick
<1>8. ASSUME Dispatch PROVE TypeParts'
  <2>1. queue \in Seq(Client) /\ queue # <<>>
    BY <1>8 DEF TypeParts, Dispatch
  <2>2. queue' \in Seq(Client) /\ Head(queue) \in Client
    BY <1>8, <2>1 DEF Dispatch
  <2>3. relation' \in [Client -> Int]
    <3>1. ChosenReactor \in Int
      BY ChosenIsSize, PartsOfTypeOK
    <3> QED
      BY <1>8, <3>1, UpdateTypes DEF TypeParts, Dispatch
  <2>4. crashed' \in BOOLEAN
    BY <1>8, Zenon DEF Dispatch
  <2>5. dispatching' \in [session : Client \cup {NoClient},
                          step : {"idle", "epoll", "sessions", "index", "watch"}]
    BY <1>8, <2>2 DEF Dispatch
  <2> QED
    BY <1>8, <2>2, <2>3, <2>4, <2>5 DEF TypeParts, Dispatch
<1>9. ASSUME AddToEpoll \/ AddToSessions \/ SetSlaveReactorIndex PROVE TypeParts'
  <2>1. dispatching.session \in Client
    BY <1>9 DEF IInv, Types, AddToEpoll, AddToSessions, SetSlaveReactorIndex, At, Idle
  <2>2. dispatching' \in [session : Client \cup {NoClient},
                          step : {"idle", "epoll", "sessions", "index", "watch"}]
    BY <1>9 DEF TypeParts, AddToEpoll, AddToSessions, SetSlaveReactorIndex, Proceed
  <2>3. epoll' \in [Client -> Client \cup {NoClient}]
    BY <1>9, <2>1, UpdateTypes DEF TypeParts, AddToEpoll, AddToSessions, SetSlaveReactorIndex
  <2>4. /\ edge' \subseteq Client /\ robbed' \subseteq Client
        /\ sessions' \subseteq Client /\ indexed' \subseteq Client
    BY <1>9, <2>1 DEF TypeParts, AddToEpoll, AddToSessions, SetSlaveReactorIndex, Behind, Open
  <2> QED
    BY <1>9, <2>2, <2>3, <2>4 DEF TypeParts, AddToEpoll, AddToSessions, SetSlaveReactorIndex
<1>10. ASSUME Watch \/ AddFails PROVE TypeParts'
  <2>1. Watch => dispatching.session \in Client
    BY <1>10 DEF IInv, Types, Watch, At, Idle
  <2>2. watched' \subseteq Client
    BY <1>10, <2>1 DEF TypeParts, Watch, Supervised, AddFails
  <2>3. sizes' \in [0..(Reactors - 1) -> Nat]
    BY <1>10, UpdateTypes DEF TypeParts, Watch, AddFails
  <2>4. dispatching' \in [session : Client \cup {NoClient},
                          step : {"idle", "epoll", "sessions", "index", "watch"}]
    BY <1>10 DEF Watch, AddFails, Idle
  <2> QED
    BY <1>10, <2>2, <2>3, <2>4 DEF TypeParts, Watch, AddFails
<1>11. ASSUME Reply PROVE TypeParts'
  <2>1. crashed' \in BOOLEAN
    BY <1>11, Zenon DEF Reply, IndexRead
  <2>2. strayed' \subseteq Client /\ tasks' \subseteq Client
    BY <1>11 DEF TypeParts, Reply, IndexRead
  <2> QED
    BY <1>11, <2>1, <2>2 DEF TypeParts, Reply
<1>12. ASSUME Destroy PROVE TypeParts'
  <2>1. /\ teardowns' \in Seq(Info) /\ Head(teardowns) \in Info
    BY <1>12, TearDownTaken DEF TypeParts, Destroy
  <2>2. crashed' \in BOOLEAN
    BY <1>12, Zenon DEF Destroy
  <2>3. waiting' \subseteq Client
    BY <1>12, <2>1 DEF TypeParts, Destroy, Info
  <2>4. destroyer' \in [session : Client \cup {NoClient},
                        step : {"idle", "unwatch", "remove", "close"}]
    BY <1>12, <2>1 DEF Destroy, Info
  <2> QED
    BY <1>12, <2>1, <2>2, <2>3, <2>4 DEF TypeParts, Destroy
<1>13. ASSUME RemoveSession PROVE TypeParts'
  BY <1>13 DEF TypeParts, RemoveSession
<1>14. ASSUME RemoveClient PROVE TypeParts'
  <2>1. destroyer.session \in Client
    BY <1>14 DEF IInv, Types, RemoveClient, Idle
  <2>2. crashed' \in BOOLEAN
    BY <1>14, Zenon DEF RemoveClient, IndexRead
  <2>3. strayed' \subseteq Client
    BY <1>14, <2>1 DEF TypeParts, RemoveClient, IndexRead
  <2>4. epoll' \in [Client -> Client \cup {NoClient}]
    BY <1>14, UpdateTypes DEF TypeParts, RemoveClient, EraseClient
  <2>5. /\ sessions' \subseteq Client /\ edge' \subseteq Client /\ robbed' \subseteq Client
        /\ shut' = shut
    BY <1>14 DEF TypeParts, RemoveClient, EraseClient, Behind, Open
  <2>6. destroyer' \in [session : Client \cup {NoClient},
                        step : {"idle", "unwatch", "remove", "close"}]
    BY <1>14 DEF TypeParts, RemoveClient
  <2> QED
    BY <1>14, <2>2, <2>3, <2>4, <2>5, <2>6 DEF TypeParts, RemoveClient
<1>15. ASSUME Close PROVE TypeParts'
  <2>1. destroyer.session \in Client
    BY <1>15 DEF IInv, Types, Close, Idle
  <2>2. relation' \in [Client -> Int]
    <3>1. NoReactor \in Int /\ relation \in [Client -> Int]
      BY DEF TypeParts, NoReactor
    <3>2. relation' = [relation EXCEPT ![destroyer.session] = NoReactor]
      BY <1>15 DEF Close
    <3> QED
      BY <3>1, <3>2, UpdateTypes, Zenon
  <2>3. closed' \subseteq Client
    BY <1>15, <2>1 DEF TypeParts, Close
  <2>4. destroyer' \in [session : Client \cup {NoClient},
                        step : {"idle", "unwatch", "remove", "close"}]
    BY <1>15 DEF Close, Idle
  <2>5. epoll' \in [Client -> Client \cup {NoClient}]
    BY <1>15 DEF TypeParts, Close
  <2>6. shut' \subseteq Client /\ robbed' \subseteq Client /\ edge' \subseteq Client
    BY <1>15 DEF TypeParts, Close, Behind, Open
  <2> QED
    BY <1>15, <2>2, <2>3, <2>4, <2>5, <2>6 DEF TypeParts, Close
<1>16. ASSUME NEW s \in Client, Step(s) PROVE TypeParts'
  BY <1>1, <1>2, <1>3, <1>4, <1>5, <1>6, <1>16 DEF Step
<1>17. ASSUME Dispatcher \/ Destroyer PROVE TypeParts'
  BY <1>8, <1>9, <1>10, <1>12, <1>13, <1>14, <1>15, <1>17 DEF Dispatcher, Destroyer
<1> QED
  BY <1>1, <1>7, <1>11, <1>16, <1>17 DEF Next

\* Every variable has its type; the reactor chosen for a session is a number
\* even where it is not a reactor's (ServerService.cpp, SessionDispatcher.cpp:43).
THEOREM TypeCorrect == Spec => []TypeOK
<1>1. Init => TypeOK
  <2>1. Init => TypeParts
    <3>1. Init => relation \in [Client -> Int] /\ sizes \in [0..(Reactors - 1) -> Nat]
      BY DEF Init, NoReactor
    <3>2. Init => fd \in [Client -> Fd \cup {NoFd}] /\ epoll \in [Client -> Client \cup {NoClient}]
      <4>1. ASSUME NEW R, NEW x PROVE [c \in Client |-> x] \in [Client -> R \cup {x}]
        OBVIOUS
      <4> QED
        BY <4>1 DEF Init
    <3>3. Init => client \in [Client -> {"away", "here", "gone", "refused"}]
                  /\ beats \in 0..MaxBeats
      BY SizeAssumption DEF Init
    <3>4. Init => queue \in Seq(Client) /\ teardowns \in Seq(Info)
      BY DEF Init
    <3>5. Init => /\ dispatching \in [session : Client \cup {NoClient},
                                      step : {"idle", "epoll", "sessions", "index", "watch"}]
                  /\ destroyer \in [session : Client \cup {NoClient},
                                    step : {"idle", "unwatch", "remove", "close"}]
      BY DEF Init, Idle
    <3> QED
      BY <3>1, <3>2, <3>3, <3>4, <3>5 DEF Init, TypeParts
  <2> QED
    BY <2>1, PartsOfTypeOK
<1>2. IInv /\ TypeOK /\ [Next]_vars => TypeOK'
  <2>1. TypeOK /\ UNCHANGED vars => TypeOK'
    BY DEF TypeOK, vars, clientVars, fdVars, acceptVars, dispatchVars, reactorVars, packetVars,
           checkerVars, teardownVars, processVars
  <2> QED
    BY <2>1, NextKeepsTypes, PartsOfTypeOK
<1> QED
  BY <1>1, <1>2, IInvHolds, PTL DEF Spec
=============================================================================
