------------------------------ MODULE Shutdown ------------------------------
(***************************************************************************)
(* How the threads of a service are started and asked to stop (Thread.cpp, *)
(* ThreadPool.cpp, start and stop of P2PService and of ServerService).     *)
(*                                                                         *)
(* Stopping a Thread sets its stop token and joins nothing; what wakes the *)
(* thread up is left to its owner: a null in its queue, a notification, a  *)
(* write to an eventfd, or nothing where it never sleeps for long.         *)
(*                                                                         *)
(* There is one thread of each kind: "checker" stands for all that work    *)
(* at an interval (alive checker, heartbeats, connector, distance vector), *)
(* "processor" for the processor of service packets, "pool" for the pools  *)
(* of the decoder and of the module processor.                             *)
(***************************************************************************)
EXTENDS Integers, Sequences

CONSTANTS
    MaxClients, \* bound on the connections clients open
    MaxEvents   \* bound on the events of the reactor

ASSUME BoundAssumption == MaxClients \in Nat /\ MaxEvents \in Nat

VARIABLES
    blocking,  \* the listening socket blocks: ServerService, not P2PService
    main,      \* what the main thread does, and to which thread
    asked,     \* the threads with a stop token set
    pc,        \* where each thread is
    queue,     \* the queues of the dispatcher and of the processor
    item,      \* what each of them has taken from its queue
    interval,  \* m_destroyInterval
    teardowns, \* the number of m_waitingDestroySessionInfos
    wakeup,    \* the eventfd of the reactor has been written to
    events,    \* events of the reactor to come
    clients,   \* connections to come
    pending,   \* connections that wait to be accepted
    missed,    \* the threads that were notified to stop when not waiting
    crashed    \* a null has been handled

vars == <<blocking, main, asked, pc, queue, item, interval, teardowns, wakeup, events, clients,
          pending, missed, crashed>>

Queued == {"dispatcher", "processor"}

StopOrder == <<"checker", "pool", "processor", "listener", "acceptor", "destroyer", "dispatcher",
               "reactor">>

\* Those whose work is a single step here.
Brief == {"checker", "pool", "listener", "reactor"}

Threads == {StopOrder[i] : i \in DOMAIN StopOrder}

Init ==
    /\ blocking \in BOOLEAN
    /\ main = [phase |-> "starting", at |-> 1, step |-> "request"]
    /\ asked = {}
    /\ pc = [t \in Threads |-> "new"]
    /\ queue = [t \in Queued |-> <<>>]
    /\ item = [t \in Queued |-> "none"]
    /\ interval = 1 /\ teardowns = 0
    /\ wakeup = FALSE /\ events = MaxEvents
    /\ clients = MaxClients /\ pending = 0
    /\ missed = {} /\ crashed = FALSE

Goto(t, step) == pc' = [pc EXCEPT ![t] = step]

-----------------------------------------------------------------------------
(***************************************************************************)
(* The main thread                                                         *)
(***************************************************************************)

\* What a thread that runs already leaves for one that does not waits for it.
Start ==
    /\ main.phase = "starting"
    /\ pc' = [t \in Threads |-> "body"]
    /\ main' = [main EXCEPT !.phase = "running"]
    /\ UNCHANGED <<blocking, asked, queue, item, interval, teardowns, wakeup, events, clients,
                   pending, missed, crashed>>

\* A signal has ended the loop of main.
Exit ==
    /\ main.phase = "running"
    /\ main' = [main EXCEPT !.phase = "stopping"]
    /\ UNCHANGED <<blocking, asked, pc, queue, item, interval, teardowns, wakeup, events, clients,
                   pending, missed, crashed>>

Stopping(step) == main.phase = "stopping" /\ main.step = step

Stopped == main.phase = "stopped"

ToStop == StopOrder[main.at]

NextThread ==
    main' = IF main.at < Len(StopOrder)
            THEN [main EXCEPT !.at = @ + 1, !.step = "request"]
            ELSE [main EXCEPT !.phase = "stopped"]

\* request_stop.
RequestStop(t) == asked' = asked \cup {t}

Request ==
    /\ Stopping("request")
    /\ RequestStop(ToStop)
    /\ main' = [main EXCEPT !.step = "wake"]
    /\ UNCHANGED <<blocking, pc, queue, item, interval, teardowns, wakeup, events, clients,
                   pending, missed, crashed>>

\* A notification that finds the thread elsewhere is lost.
Notify(t) ==
    /\ pc' = IF pc[t] = "waiting" THEN [pc EXCEPT ![t] = "notified"] ELSE pc
    /\ missed' = IF pc[t] = "waiting" THEN missed ELSE missed \cup {t}

WakeByNull ==
    /\ ToStop \in Queued
    /\ queue' = [queue EXCEPT ![ToStop] = Append(@, "null")]
    /\ NextThread
    /\ UNCHANGED <<pc, interval, wakeup, missed>>

\* Mutant: the eventfd is not written to.
LeaveAsleep == wakeup' = wakeup

\* The write to the eventfd.
WriteWakeup == wakeup' = TRUE

WakeReactor ==
    /\ ToStop = "reactor"
    /\ WriteWakeup
    /\ NextThread
    /\ UNCHANGED <<pc, queue, interval, missed>>

WakeAcceptor ==
    /\ ToStop = "acceptor"
    /\ Notify("acceptor")
    /\ NextThread
    /\ UNCHANGED <<queue, interval, wakeup>>

\* Neither step of stop takes the mutex of the destroyer's queue.
WakeDestroyer ==
    /\ ToStop = "destroyer"
    /\ \/ /\ interval # 0 /\ interval' = 0
          /\ UNCHANGED <<main, pc, missed>>
       \/ /\ interval = 0 /\ Notify("destroyer")
          /\ NextThread
          /\ UNCHANGED interval
    /\ UNCHANGED <<queue, wakeup>>

\* The threads of a pool are joined.
Join ==
    /\ ToStop = "pool"
    /\ pc["pool"] = "ended"
    /\ NextThread
    /\ UNCHANGED <<pc, queue, interval, wakeup, missed>>

WakeNobody ==
    /\ ToStop \in {"checker", "listener"}
    /\ NextThread
    /\ UNCHANGED <<pc, queue, interval, wakeup, missed>>

Wake ==
    /\ Stopping("wake")
    /\ \/ WakeByNull \/ WakeReactor \/ WakeAcceptor \/ WakeDestroyer \/ Join \/ WakeNobody
    /\ UNCHANGED <<blocking, asked, item, teardowns, events, clients, pending, crashed>>

-----------------------------------------------------------------------------
(***************************************************************************)
(* The threads                                                             *)
(***************************************************************************)

\* The loop of a Thread: the token is tested after each iteration.
Again(t) == IF t \in asked THEN "ended" ELSE "body"

\* The reactor sleeps in epoll_wait until its eventfd is written to; the
\* others wake up by themselves.
Awake(t) == t # "reactor" \/ wakeup

End(t) ==
    /\ t \in Brief \cap asked
    /\ pc[t] = "body"
    /\ Awake(t)
    /\ Goto(t, "ended")
    /\ UNCHANGED <<blocking, main, asked, queue, item, interval, teardowns, wakeup, events,
                   clients, pending, missed, crashed>>

Goes(t) == pc[t] = "body" /\ t \notin asked

Enqueue(t) == queue' = [queue EXCEPT ![t] = Append(@, "item")]

\* The mutex of the destroyer's queue is free.
Unlocked == pc["destroyer"] # "falling asleep"

\* addSession of the destroyer, under its mutex.
AddTeardown ==
    /\ Unlocked
    /\ teardowns' = teardowns + 1
    /\ pc' = [pc EXCEPT !["destroyer"] = IF @ = "waiting" THEN "notified" ELSE @]

\* At an interval: does its work, which may find a session offline.
CheckerWorks ==
    /\ Goes("checker")
    /\ events > 0 /\ events' = events - 1
    /\ AddTeardown
    /\ UNCHANGED <<blocking, main, asked, queue, item, interval, wakeup, clients, pending, missed,
                   crashed>>

\* wait_dequeue, before which the token was tested.
Dequeue(t) ==
    /\ pc[t] = "body"
    /\ queue[t] # <<>>
    /\ queue' = [queue EXCEPT ![t] = Tail(@)]
    /\ item' = [item EXCEPT ![t] = Head(queue[t])]
    /\ Goto(t, "dequeued")
    /\ UNCHANGED <<blocking, main, asked, interval, teardowns, wakeup, events, clients, pending,
                   missed, crashed>>

\* Mutant: the token is not looked at after the wait.
HandledAlways(t) == TRUE

\* The token is looked at once more before the item is.
HandledUnlessAsked(t) == t \notin asked

Handle(t) ==
    /\ pc[t] = "dequeued"
    /\ crashed' = (crashed \/ (HandledUnlessAsked(t) /\ item[t] = "null"))
    /\ item' = [item EXCEPT ![t] = "none"]
    /\ Goto(t, Again(t))
    /\ UNCHANGED <<blocking, main, asked, queue, interval, teardowns, wakeup, events, clients,
                   pending, missed>>

\* A worker waits for a task with a timeout, and a task may bring a packet.
PoolWorks ==
    /\ Goes("pool")
    /\ events > 0 /\ events' = events - 1
    /\ Enqueue("processor")
    /\ UNCHANGED <<blocking, main, asked, pc, item, interval, teardowns, wakeup, clients, pending,
                   missed, crashed>>

\* epoll_wait returns for an event; that of the eventfd only ends it.
ReactorWorks ==
    /\ Goes("reactor")
    /\ events > 0 /\ events' = events - 1
    /\ AddTeardown
    /\ UNCHANGED <<blocking, main, asked, queue, item, interval, wakeup, clients, pending, missed,
                   crashed>>

\* select with a timeout; the token is looked at before the connection is
\* reported.
ListenerWorks ==
    /\ Goes("listener")
    /\ pending > 0 /\ pc["acceptor"] = "waiting"
    /\ Goto("acceptor", "notified")
    /\ UNCHANGED <<blocking, main, asked, queue, item, interval, teardowns, wakeup, events,
                   clients, pending, missed, crashed>>

Connect ==
    /\ clients > 0
    /\ clients' = clients - 1
    /\ pending' = pending + 1
    /\ UNCHANGED <<blocking, main, asked, pc, queue, item, interval, teardowns, wakeup, events,
                   missed, crashed>>

\* A wait without a predicate, then accepts until there is nothing to accept
\* (a socket that does not block) or the token is seen after an accept.
AcceptorWorks ==
    \/ pc["acceptor"] = "body" /\ Goto("acceptor", "waiting") /\ UNCHANGED <<queue, pending>>
    \/ /\ pc["acceptor"] = "notified"
       /\ Goto("acceptor", IF "acceptor" \in asked THEN "ended" ELSE "accepting")
       /\ UNCHANGED <<queue, pending>>
    \/ /\ pc["acceptor"] = "accepting" /\ pending > 0
       /\ pending' = pending - 1
       /\ Enqueue("dispatcher")
       /\ Goto("acceptor", IF "acceptor" \in asked THEN "ended" ELSE "accepting")
    \/ /\ pc["acceptor"] = "accepting" /\ pending = 0 /\ ~blocking
       /\ Goto("acceptor", Again("acceptor"))
       /\ UNCHANGED <<queue, pending>>

Acceptor ==
    /\ AcceptorWorks
    /\ UNCHANGED <<blocking, main, asked, item, interval, teardowns, wakeup, events, clients,
                   missed, crashed>>

\* The predicate is false, the mutex still held; then it waits.
DestroyerWaits ==
    \/ /\ pc["destroyer"] \in {"body", "notified"}
       /\ interval # 0 /\ teardowns = 0
       /\ Goto("destroyer", "falling asleep")
    \/ pc["destroyer"] = "falling asleep" /\ Goto("destroyer", "waiting")

DestroyerDrains ==
    \/ /\ pc["destroyer"] \in {"body", "notified"}
       /\ interval = 0 \/ teardowns > 0
       /\ Goto("destroyer", "draining") /\ UNCHANGED teardowns
    \/ /\ pc["destroyer"] = "draining"
       /\ \/ teardowns > 0 /\ teardowns' = teardowns - 1 /\ UNCHANGED pc
          \/ teardowns = 0 /\ Goto("destroyer", Again("destroyer")) /\ UNCHANGED teardowns

Destroyer ==
    /\ (DestroyerWaits /\ UNCHANGED teardowns) \/ DestroyerDrains
    /\ UNCHANGED <<blocking, main, asked, queue, item, interval, wakeup, events, clients, pending,
                   missed, crashed>>

-----------------------------------------------------------------------------
Works ==
    \/ CheckerWorks \/ PoolWorks \/ ReactorWorks \/ ListenerWorks \/ Acceptor \/ Destroyer
    \/ \E t \in Queued : Dequeue(t) \/ Handle(t)

Next ==
    \/ Start \/ Exit \/ Request \/ Wake
    \/ Connect
    \/ \E t \in Brief : End(t)
    \/ Works

\* A thread goes on while it can; no event, client or signal need ever come.
Fairness ==
    /\ WF_vars(Start) /\ WF_vars(Request) /\ WF_vars(Wake)
    /\ \A t \in Brief : WF_vars(End(t))
    /\ \A t \in Queued : WF_vars(Dequeue(t)) /\ WF_vars(Handle(t))
    /\ WF_vars(Acceptor) /\ WF_vars(Destroyer)

Spec == Init /\ [][Next]_vars
FairSpec == Spec /\ Fairness

-----------------------------------------------------------------------------
(***************************************************************************)
(* Properties                                                              *)
(***************************************************************************)

\* The null that wakes the dispatcher or the processor up is never handled as
\* a session or a packet (SessionDispatcher.cpp:29-40,
\* SessionServiceDataProcessor.cpp:21-31): the token is set first.
NullIsNotHandled == ~crashed

\* Waits for a notification that has been lost, or for a client that may never
\* come.
Stuck(t) ==
    \/ t \in missed /\ pc[t] = "waiting"
    \/ t = "acceptor" /\ blocking /\ pc[t] = "accepting" /\ pending = 0

\* Once stop has returned every thread ends, whatever it was doing: only the
\* acceptor and the destroyer can be left behind (Acceptor.cpp:29 and 43,
\* SessionDestroyer.cpp:17).
ThreadsEnd == Stopped ~> \A t \in Threads : pc[t] = "ended" \/ Stuck(t)
=============================================================================
