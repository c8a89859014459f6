--------------------------- MODULE ShutdownProofs ---------------------------
(***************************************************************************)
(* A null is in a queue, or has been taken from it, only when the thread's *)
(* token has been set, for stop sets the token before it wakes the thread  *)
(* up; and a thread with its token set handles nothing.                    *)
(***************************************************************************)
EXTENDS Shutdown, TLAPS

\* The two queues hold items and nulls; the main thread is at one of the
\* threads, and has set its token when it goes on to wake it up.
Types ==
    /\ queue \in [Queued -> Seq({"item", "null"})]
    /\ item \in [Queued -> {"none", "item", "null"}]
    /\ main.at \in DOMAIN StopOrder
    /\ main = [phase |-> main.phase, at |-> main.at, step |-> main.step]
    /\ main.phase \in {"starting", "running"} => main.step = "request"
    /\ Stopping("wake") => ToStop \in asked

NullMeansAsked ==
    \A t \in Queued :
        item[t] = "null" \/ (\E i \in 1..Len(queue[t]) : queue[t][i] = "null") => t \in asked

IInv == Types /\ NullMeansAsked /\ NullIsNotHandled

-----------------------------------------------------------------------------
\* Appending to one of the queues keeps what the invariant says of both.
LEMMA AppendKeeps ==
    ASSUME IInv, NEW t \in Queued, NEW e \in {"item", "null"},
           e = "null" => t \in asked,
           queue' = [queue EXCEPT ![t] = Append(@, e)],
           asked' = asked, item' = item
    PROVE  queue' \in [Queued -> Seq({"item", "null"})] /\ NullMeansAsked'
<1>1. queue[t] \in Seq({"item", "null"})
  BY DEF IInv, Types
<1>2. /\ Append(queue[t], e) \in Seq({"item", "null"})
      /\ Len(Append(queue[t], e)) = Len(queue[t]) + 1
      /\ \A i \in 1..Len(queue[t]) + 1 :
           Append(queue[t], e)[i] = IF i <= Len(queue[t]) THEN queue[t][i] ELSE e
  BY <1>1
<1>3. queue' \in [Queued -> Seq({"item", "null"})]
  BY <1>2 DEF IInv, Types
<1>4. ASSUME NEW u \in Queued, NEW i \in 1..Len(queue'[u]), queue'[u][i] = "null"
      PROVE  u \in asked
  <2>1. CASE u = t
    <3>1. queue'[u] = Append(queue[t], e)
      BY <2>1 DEF IInv, Types
    <3>2. CASE i <= Len(queue[t])
      BY <1>1, <1>2, <1>4, <2>1, <3>1, <3>2 DEF IInv, NullMeansAsked
    <3>3. CASE ~(i <= Len(queue[t]))
      BY <1>1, <1>2, <1>4, <2>1, <3>1, <3>3
    <3> QED
      BY <3>2, <3>3
  <2>2. CASE u # t
    <3>1. queue'[u] = queue[u]
      BY <2>2 DEF IInv, Types
    <3> QED
      BY <1>4, <3>1 DEF IInv, NullMeansAsked
  <2> QED
    BY <2>1, <2>2
<1> QED
  BY <1>3, <1>4 DEF IInv, NullMeansAsked

\* What the main thread does next.
LEMMA NextThreadKeeps ==
    ASSUME IInv, NextThread
    PROVE  /\ main'.at \in DOMAIN StopOrder
           /\ main' = [phase |-> main'.phase, at |-> main'.at, step |-> main'.step]
           /\ main'.phase \in {"starting", "running"} => main'.step = "request"
           /\ ~Stopping("wake")'
<1>1. /\ DOMAIN StopOrder = 1..8 /\ Len(StopOrder) = 8
  BY DEF StopOrder
<1>2. /\ main.at \in 1..8
      /\ main = [phase |-> main.phase, at |-> main.at, step |-> main.step]
  BY <1>1 DEF IInv, Types
<1>3. CASE main.at < 8
  <2>1. main' = [phase |-> main.phase, at |-> main.at + 1, step |-> "request"]
    BY <1>1, <1>2, <1>3 DEF NextThread
  <2> QED
    BY <1>1, <1>2, <1>3, <2>1 DEF Stopping
<1>4. CASE ~(main.at < 8)
  <2>1. main' = [phase |-> "stopped", at |-> main.at, step |-> main.step]
    BY <1>1, <1>2, <1>4 DEF NextThread
  <2> QED
    BY <1>1, <1>2, <1>4, <2>1 DEF Stopping
<1> QED
  BY <1>2, <1>3, <1>4

LEMMA InitIInv == Init => IInv
<1> SUFFICES ASSUME Init PROVE IInv
  OBVIOUS
<1>1. DOMAIN StopOrder = 1..8
  BY DEF StopOrder
<1>2. Types
  BY <1>1 DEF Init, Types, Stopping
<1>3. NullMeansAsked
  BY DEF Init, NullMeansAsked
<1> QED
  BY <1>2, <1>3 DEF Init, IInv, NullIsNotHandled

\* The steps that touch neither the main thread, nor a queue, nor an item.
LEMMA OthersKeepIInv ==
    ASSUME IInv, main' = main, asked' = asked, queue' = queue, item' = item, crashed' = crashed
    PROVE  IInv'
<1>1. Types'
  BY DEF IInv, Types, Stopping, ToStop
<1>2. NullMeansAsked'
  BY DEF IInv, NullMeansAsked
<1> QED
  BY <1>1, <1>2 DEF IInv, NullIsNotHandled

\* The same, when the main thread only goes on.
LEMMA WakeKeepsIInv ==
    ASSUME IInv, Stopping("wake"), asked' = asked, item' = item, crashed' = crashed, NextThread,
           queue' \in [Queued -> Seq({"item", "null"})], NullMeansAsked'
    PROVE  IInv'
<1>1. Types'
  BY NextThreadKeeps DEF IInv, Types
<1> QED
  BY <1>1 DEF IInv, NullIsNotHandled

LEMMA MainKeepsIInv == IInv /\ (Start \/ Exit \/ Request \/ Wake) => IInv'
<1> SUFFICES ASSUME IInv, Start \/ Exit \/ Request \/ Wake PROVE IInv'
  OBVIOUS
<1>1. main = [phase |-> main.phase, at |-> main.at, step |-> main.step]
  BY DEF IInv, Types
<1>2. CASE Start
  <2>1. main' = [phase |-> "running", at |-> main.at, step |-> main.step]
    BY <1>1, <1>2 DEF Start
  <2>2. Types'
    BY <1>2, <2>1 DEF Start, IInv, Types, Stopping
  <2> QED
    BY <1>2, <2>2 DEF Start, IInv, NullMeansAsked, NullIsNotHandled
<1>3. CASE Exit
  <2>1. main' = [phase |-> "stopping", at |-> main.at, step |-> main.step]
    BY <1>1, <1>3 DEF Exit
  <2>2. Types'
    BY <1>3, <2>1 DEF Exit, IInv, Types, Stopping, ToStop
  <2> QED
    BY <1>3, <2>2 DEF Exit, IInv, NullMeansAsked, NullIsNotHandled
<1>4. CASE Request
  <2>1. main' = [phase |-> main.phase, at |-> main.at, step |-> "wake"]
    BY <1>1, <1>4 DEF Request
  <2>2. Types'
    BY <1>4, <2>1 DEF Request, RequestStop, IInv, Types, Stopping, ToStop
  <2> QED
    BY <1>4, <2>2 DEF Request, RequestStop, IInv, NullMeansAsked, NullIsNotHandled
<1>5. CASE Wake
  <2>1. Stopping("wake") /\ asked' = asked /\ item' = item /\ crashed' = crashed
    BY <1>5 DEF Wake
  <2>2. CASE WakeByNull
    <3>1. queue' \in [Queued -> Seq({"item", "null"})] /\ NullMeansAsked'
      BY <2>1, <2>2, AppendKeeps DEF WakeByNull, IInv, Types
    <3> QED
      BY <2>1, <2>2, <3>1, WakeKeepsIInv DEF WakeByNull
  <2>3. CASE queue' = queue /\ NextThread
    <3>1. queue' \in [Queued -> Seq({"item", "null"})] /\ NullMeansAsked'
      BY <2>1, <2>3 DEF IInv, Types, NullMeansAsked
    <3> QED
      BY <2>1, <2>3, <3>1, WakeKeepsIInv
  <2>4. CASE queue' = queue /\ main' = main
    BY <2>1, <2>4, OthersKeepIInv
  <2> QED
    BY <1>5, <2>2, <2>3, <2>4
       DEF Wake, WakeReactor, WakeAcceptor, WakeDestroyer, Join, WakeNobody
<1> QED
  BY <1>2, <1>3, <1>4, <1>5

\* Taking the front of a queue moves a null to the item.
LEMMA DequeueKeepsIInv ==
    ASSUME IInv, NEW t \in Queued, Dequeue(t)
    PROVE  IInv'
<1>1. queue[t] \in Seq({"item", "null"}) /\ queue[t] # <<>>
  BY DEF IInv, Types, Dequeue
<1>2. /\ Tail(queue[t]) \in Seq({"item", "null"})
      /\ Len(Tail(queue[t])) = Len(queue[t]) - 1
      /\ \A i \in 1..Len(Tail(queue[t])) : Tail(queue[t])[i] = queue[t][i + 1]
      /\ Head(queue[t]) = queue[t][1] /\ 1 \in 1..Len(queue[t])
  BY <1>1
<1>3. /\ queue' = [queue EXCEPT ![t] = Tail(queue[t])]
      /\ item' = [item EXCEPT ![t] = queue[t][1]]
      /\ main' = main /\ asked' = asked /\ crashed' = crashed
  BY <1>2 DEF Dequeue
<1>4. queue[t][1] \in {"item", "null"}
  BY <1>1, <1>2
<1>5. Types'
  BY <1>2, <1>3, <1>4 DEF IInv, Types, Stopping, ToStop
<1>6. ASSUME NEW u \in Queued, NEW i \in 1..Len(queue'[u]), queue'[u][i] = "null"
      PROVE  u \in asked
  <2>1. CASE u = t
    <3>1. queue'[u] = Tail(queue[t])
      BY <1>3, <2>1 DEF IInv, Types
    <3>2. i + 1 \in 1..Len(queue[t]) /\ queue[t][i + 1] = "null"
      BY <1>1, <1>2, <1>6, <3>1
    <3> QED
      BY <2>1, <3>2 DEF IInv, NullMeansAsked
  <2>2. CASE u # t
    <3>1. queue'[u] = queue[u]
      BY <1>3, <2>2 DEF IInv, Types
    <3> QED
      BY <1>6, <3>1 DEF IInv, NullMeansAsked
  <2> QED
    BY <2>1, <2>2
<1>7. ASSUME NEW u \in Queued, item'[u] = "null"
      PROVE  u \in asked
  <2>1. CASE u = t
    BY <1>2, <1>3, <1>7, <2>1 DEF IInv, Types, NullMeansAsked
  <2>2. CASE u # t
    BY <1>3, <1>7, <2>2 DEF IInv, Types, NullMeansAsked
  <2> QED
    BY <2>1, <2>2
<1>8. NullMeansAsked'
  BY <1>3, <1>6, <1>7 DEF NullMeansAsked
<1> QED
  BY <1>3, <1>5, <1>8 DEF IInv, NullIsNotHandled

LEMMA HandleKeepsIInv ==
    ASSUME IInv, NEW t \in Queued, Handle(t)
    PROVE  IInv'
<1>1. /\ item' = [item EXCEPT ![t] = "none"]
      /\ main' = main /\ asked' = asked /\ queue' = queue
  BY DEF Handle
<1>2. Types'
  BY <1>1 DEF IInv, Types, Stopping, ToStop
<1>3. NullMeansAsked'
  <2>1. \A u \in Queued : item'[u] = "null" => item[u] = "null"
    BY <1>1 DEF IInv, Types
  <2> QED
    BY <1>1, <2>1 DEF IInv, NullMeansAsked
<1>4. ~crashed'
  BY DEF Handle, HandledUnlessAsked, IInv, NullMeansAsked, NullIsNotHandled
<1> QED
  BY <1>2, <1>3, <1>4 DEF IInv, NullIsNotHandled

\* An item for a queue, from the acceptor or from a worker of the decoder.
LEMMA EnqueueKeepsIInv ==
    ASSUME IInv, NEW t \in Queued, Enqueue(t),
           main' = main, asked' = asked, item' = item, crashed' = crashed
    PROVE  IInv'
<1>1. queue' \in [Queued -> Seq({"item", "null"})] /\ NullMeansAsked'
  BY AppendKeeps DEF Enqueue
<1>2. Types'
  BY <1>1 DEF IInv, Types, Stopping, ToStop
<1> QED
  BY <1>1, <1>2 DEF IInv, NullIsNotHandled

LEMMA NextKeepsIInv == IInv /\ [Next]_vars => IInv'
<1> SUFFICES ASSUME IInv, [Next]_vars PROVE IInv'
  OBVIOUS
<1>1. CASE Start \/ Exit \/ Request \/ Wake
  BY <1>1, MainKeepsIInv
<1>2. ASSUME NEW t \in Queued, Dequeue(t) PROVE IInv'
  BY <1>2, DequeueKeepsIInv
<1>3. ASSUME NEW t \in Queued, Handle(t) PROVE IInv'
  BY <1>3, HandleKeepsIInv
<1>4. CASE PoolWorks
  <2>1. "processor" \in Queued /\ Enqueue("processor")
    BY <1>4 DEF PoolWorks, Queued
  <2> QED
    BY <1>4, <2>1, EnqueueKeepsIInv DEF PoolWorks
<1>5. CASE Acceptor
  <2>1. main' = main /\ asked' = asked /\ item' = item /\ crashed' = crashed
    BY <1>5 DEF Acceptor
  <2>2. CASE Enqueue("dispatcher")
    BY <2>1, <2>2, EnqueueKeepsIInv DEF Queued
  <2>3. CASE queue' = queue
    BY <2>1, <2>3, OthersKeepIInv
  <2> QED
    BY <1>5, <2>2, <2>3 DEF Acceptor, AcceptorWorks
<1>6. CASE Connect \/ CheckerWorks \/ ReactorWorks \/ ListenerWorks \/ Destroyer
  BY <1>6, OthersKeepIInv DEF Connect, CheckerWorks, ReactorWorks, ListenerWorks, Destroyer
<1>7. ASSUME NEW t \in Brief, End(t) PROVE IInv'
  BY <1>7, OthersKeepIInv DEF End
<1>8. CASE UNCHANGED vars
  BY <1>8, OthersKeepIInv DEF vars
<1> QED
  BY <1>1, <1>2, <1>3, <1>4, <1>5, <1>6, <1>7, <1>8 DEF Next, Works

\* For any number of clients and events: the null that wakes the dispatcher
\* or the processor up is never handled as a session or a packet
\* (SessionDispatcher.cpp:29-40, SessionServiceDataProcessor.cpp:21-31).
THEOREM NullCorrect == Spec => []NullIsNotHandled
<1>1. IInv => NullIsNotHandled
  BY DEF IInv
<1> QED
  BY InitIInv, NextKeepsIInv, <1>1, PTL DEF Spec
=============================================================================
