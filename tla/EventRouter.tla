---------------------------- MODULE EventRouter ----------------------------
(***************************************************************************)
(* app12.cpp: several managers, each with a thread, a queue and a pipe,    *)
(* and the main thread, which registers them with the router, starts them, *)
(* routes their events to each other by type and finally stops them.       *)
(*                                                                         *)
(* The pipes are the module PipedEvent, one per manager.  The queues are   *)
(* sequences with try_emplace(), empty() and front()/pop() as single       *)
(* steps: SPSCQueue shows that the ring buffer is such a queue and         *)
(* TxChannel that stale indices do not reach the manager's wake-up.        *)
(***************************************************************************)
EXTENDS Integers, Sequences, FiniteSets, Functions

CONSTANTS Order,             \* the managers, in the order main() handles them
          Types,             \* Event::Type
          WillConsume,       \* [manager -> set of types]
          EventType(_, _),   \* EventType(m, n): type of the n-th event m creates
          Capacity,          \* elements a txQueue holds
          MaxReady,          \* size of the array passed to epoll_wait
          PipeCapacity,
          MaxEvents          \* bound: [manager -> events its thread creates]

Managers == Range(Order)

ASSUME RouterAssumption == /\ Order \in Seq(Managers) /\ Order # << >> /\ IsInjective(Order)
                           /\ WillConsume \in [Managers -> SUBSET Types]
                           /\ MaxEvents \in [Managers -> Nat]
                           /\ \A m \in Managers : \A n \in 1 .. MaxEvents[m] : EventType(m, n) \in Types
                           /\ Capacity \in Nat \ {0} /\ MaxReady \in Nat \ {0}
                           /\ PipeCapacity \in Nat \ {0}

VARIABLES fired, bytes, fpc, cpc,   \* the managers' txEvent
          mpc,         \* mpc[m]: where m's thread is
          mRunning,    \* mRunning[m]: m's _running
          queue,       \* queue[m]: m's txQueue; an event is its number
          made,        \* made[m]: events m's thread created
          dropped,     \* dropped[m]: events try_emplace() refused
          producers,   \* managers known to the router and to epoll
          consumers,   \* consumers[t]: managers that get events of type t
          counters,    \* managers whose Prometheus counters are registered
          running,     \* main's running
          lpc, next,   \* the main thread, and its position in Order
          ready,       \* managers epoll_wait reported and not yet served
          cur, batch,  \* the manager being served, the list its Produce() returns
          delivered    \* delivered[c][p]: events of p passed to c's Consume()

pipeVars == <<fired, bytes, fpc, cpc>>
threadVars == <<mpc, queue, made, dropped>>
setupVars == <<producers, consumers, counters>>
routeVars == <<ready, cur, batch, delivered>>
vars == <<pipeVars, threadVars, mRunning, setupVars, running, lpc, next, routeVars>>

P == INSTANCE PipedEvent WITH Pipes <- Managers

Init == /\ P!Init
        /\ mpc = [m \in Managers |-> "new"]
        /\ mRunning = [m \in Managers |-> TRUE]
        /\ queue = [m \in Managers |-> << >>]
        /\ made = [m \in Managers |-> 0]
        /\ dropped = [m \in Managers |-> {}]
        /\ producers = {} /\ counters = {}
        /\ consumers = [t \in Types |-> {}]
        /\ running = TRUE
        /\ lpc = "addProducer" /\ next = 1
        /\ ready = {} /\ cur = Order[1] /\ batch = << >>
        /\ delivered = [c \in Managers |-> [p \in Managers |-> << >>]]
-----------------------------------------------------------------------------
(***************************************************************************)
(* The threads of the managers: while (_running.load()) _runImpl().        *)
(***************************************************************************)
ThreadExit(m) == /\ mpc[m] = "top" /\ ~mRunning[m]
                 /\ mpc' = [mpc EXCEPT ![m] = "exited"]
                 /\ UNCHANGED <<pipeVars, queue, made, dropped, mRunning,
                                setupVars, running, lpc, next, routeVars>>

(***************************************************************************)
(* _runImpl(): create the next event and try_emplace() it.                 *)
(***************************************************************************)
RunImpl(m) == /\ mpc[m] = "top" /\ mRunning[m]
              /\ made[m] < MaxEvents[m]
              /\ made' = [made EXCEPT ![m] = @ + 1]
              /\ \/ /\ Len(queue[m]) < Capacity
                    /\ queue' = [queue EXCEPT ![m] = Append(@, made[m] + 1)]
                    /\ mpc' = [mpc EXCEPT ![m] = "count"]
                 \/ /\ Len(queue[m]) = Capacity
                    /\ queue' = queue
                    /\ mpc' = [mpc EXCEPT ![m] = "drop"]
              /\ UNCHANGED <<pipeVars, dropped, mRunning,
                             setupVars, running, lpc, next, routeVars>>

(***************************************************************************)
(* IncrementCounter(_eventTxCounter), between the publication of the event *)
(* and Fire().  What the counter shows is TxChannel's CountersAgree.       *)
(***************************************************************************)
CountTx(m) == /\ mpc[m] = "count"
              /\ mpc' = [mpc EXCEPT ![m] = "fire"]
              /\ UNCHANGED <<pipeVars, queue, made, dropped, mRunning,
                             setupVars, running, lpc, next, routeVars>>

CountDrop(m) == /\ mpc[m] = "drop"
                /\ dropped' = [dropped EXCEPT ![m] = @ \cup {made[m]}]
                /\ mpc' = [mpc EXCEPT ![m] = "top"]
                /\ UNCHANGED <<pipeVars, queue, made, mRunning,
                               setupVars, running, lpc, next, routeVars>>

Fire(m) == /\ mpc[m] = "fire"
           /\ IF fpc[m] = "idle" THEN P!FireCheck(m) ELSE P!FireStore(m) \/ P!FireWrite(m)
           /\ mpc' = [mpc EXCEPT ![m] = IF fpc'[m] = "idle" THEN "top" ELSE "fire"]
           /\ UNCHANGED <<queue, made, dropped, mRunning,
                          setupVars, running, lpc, next, routeVars>>

ManagerThread(m) == \/ ThreadExit(m) \/ RunImpl(m) \/ CountTx(m) \/ CountDrop(m) \/ Fire(m)
-----------------------------------------------------------------------------
(***************************************************************************)
(* main() goes through the managers several times, in their order; after   *)
(* the last one it does the next thing.                                    *)
(***************************************************************************)
Advance(again, after) == IF next < Len(Order)
                         THEN lpc' = again /\ next' = next + 1
                         ELSE lpc' = after /\ next' = 1

(***************************************************************************)
(* Faulty variants of the steps below, used to see that the properties     *)
(* notice them: registering a consumer replaces the others of its type, a  *)
(* Produce() that takes one event only, events echoed to their producer.   *)
(***************************************************************************)
AddConsumerLast == /\ lpc = "addConsumer"
                   /\ consumers' = [t \in Types |-> IF t \in WillConsume[Order[next]]
                                                    THEN {Order[next]} ELSE consumers[t]]
                   /\ Advance("addConsumer", "run")
                   /\ UNCHANGED <<pipeVars, threadVars, mRunning, producers, counters, running, routeVars>>

DrainOne == /\ lpc = "drain" /\ queue[cur] # << >>
            /\ batch' = Append(batch, Head(queue[cur]))
            /\ queue' = [queue EXCEPT ![cur] = Tail(@)]
            /\ lpc' = "route"
            /\ UNCHANGED <<pipeVars, mpc, made, dropped, mRunning, setupVars, running,
                           next, ready, cur, delivered>>

RouteEcho == /\ lpc = "route" /\ batch # << >>
             /\ LET t == EventType(cur, Head(batch))
                IN  delivered' = [c \in Managers |-> IF c \in consumers[t]
                                                     THEN [delivered[c] EXCEPT ![cur] = Append(@, Head(batch))]
                                                     ELSE delivered[c]]
             /\ batch' = Tail(batch)
             /\ UNCHANGED <<pipeVars, threadVars, mRunning, setupVars, running, lpc, next, ready, cur>>

-----------------------------------------------------------------------------
AddProducer == /\ lpc = "addProducer"
               /\ producers' = producers \cup {Order[next]}
               /\ Advance("addProducer", "addConsumer")
               /\ UNCHANGED <<pipeVars, threadVars, mRunning, consumers, counters, running, routeVars>>

AddConsumer == /\ lpc = "addConsumer"
               /\ consumers' = [t \in Types |-> IF t \in WillConsume[Order[next]]
                                                THEN consumers[t] \cup {Order[next]} ELSE consumers[t]]
               /\ Advance("addConsumer", "run")
               /\ UNCHANGED <<pipeVars, threadVars, mRunning, producers, counters, running, routeVars>>

(***************************************************************************)
(* SetPrometheus() and Run(): register the counters, start the thread.     *)
(***************************************************************************)
Run == /\ lpc = "run"
       /\ LET m == Order[next]
          IN  /\ counters' = counters \cup {m}
              /\ mpc' = [mpc EXCEPT ![m] = "top"]
       /\ Advance("run", "loop")
       /\ UNCHANGED <<pipeVars, queue, made, dropped, mRunning, producers, consumers,
                      running, routeVars>>

SignalHandler == /\ running
                 /\ running' = FALSE
                 /\ UNCHANGED <<pipeVars, threadVars, mRunning, setupVars, lpc, next, routeVars>>

CheckRunning == /\ lpc = "loop"
                /\ lpc' = IF running THEN "wait" ELSE "stop"
                /\ UNCHANGED <<pipeVars, threadVars, mRunning, setupVars, running, next, routeVars>>

(***************************************************************************)
(* epoll_wait(): up to MaxReady of the readable descriptors, in an order   *)
(* of the kernel's choosing.                                               *)
(***************************************************************************)
ReadableProducers == {m \in producers : P!Readable(m)}

Wait == /\ lpc = "wait"
        /\ ReadableProducers # {}
        /\ ready' \in {s \in SUBSET ReadableProducers :
                         Cardinality(s) = IF Cardinality(ReadableProducers) <= MaxReady
                                          THEN Cardinality(ReadableProducers) ELSE MaxReady}
        /\ lpc' = "serve"
        /\ UNCHANGED <<pipeVars, threadVars, mRunning, setupVars, running, next, cur, batch, delivered>>

(***************************************************************************)
(* It times out (0), is interrupted by the signal (-1, EINTR), or fails,   *)
(* which ends the loop.                                                    *)
(***************************************************************************)
WaitInVain == /\ lpc = "wait"
              /\ ReadableProducers = {} \/ ~running
              /\ lpc' = "loop"
              /\ UNCHANGED <<pipeVars, threadVars, mRunning, setupVars, running, next, routeVars>>

WaitFails == /\ lpc = "wait"
             /\ running' = FALSE
             /\ lpc' = "loop"
             /\ UNCHANGED <<pipeVars, threadVars, mRunning, setupVars, next, routeVars>>

Serve == /\ lpc = "serve"
         /\ \E p \in ready : /\ cur' = p /\ ready' = ready \ {p}
                             /\ lpc' = "consume"
         /\ UNCHANGED <<pipeVars, threadVars, mRunning, setupVars, running, next, batch, delivered>>

AllServed == /\ lpc = "serve" /\ ready = {}
             /\ lpc' = "loop"
             /\ UNCHANGED <<pipeVars, threadVars, mRunning, setupVars, running, next, routeVars>>

(***************************************************************************)
(* Produce(): txEvent.Consume(), then move the queue to the list.          *)
(***************************************************************************)
ConsumeEvent == /\ lpc = "consume"
                /\ IF cpc[cur] = "idle" THEN P!ConsumeCheck(cur)
                                        ELSE P!ConsumeRead(cur) \/ P!ConsumeReset(cur)
                /\ lpc' = IF cpc'[cur] = "idle" THEN "drain" ELSE "consume"
                /\ UNCHANGED <<threadVars, mRunning, setupVars, running, next, routeVars>>

Drain == /\ lpc = "drain" /\ queue[cur] # << >>
         /\ batch' = Append(batch, Head(queue[cur]))
         /\ queue' = [queue EXCEPT ![cur] = Tail(@)]
         /\ UNCHANGED <<pipeVars, mpc, made, dropped, mRunning, setupVars, running,
                        lpc, next, ready, cur, delivered>>

Drained == /\ lpc = "drain" /\ queue[cur] = << >>
           /\ lpc' = "route"
           /\ UNCHANGED <<pipeVars, threadVars, mRunning, setupVars, running, next, routeVars>>

(***************************************************************************)
(* Pass a clone of the event to every consumer of its type that is not its *)
(* producer.                                                               *)
(***************************************************************************)
Route == /\ lpc = "route" /\ batch # << >>
         /\ LET t == EventType(cur, Head(batch))
            IN  delivered' = [c \in Managers |-> IF c \in consumers[t] \ {cur}
                                                 THEN [delivered[c] EXCEPT ![cur] = Append(@, Head(batch))]
                                                 ELSE delivered[c]]
         /\ batch' = Tail(batch)
         /\ UNCHANGED <<pipeVars, threadVars, mRunning, setupVars, running, lpc, next, ready, cur>>

Routed == /\ lpc = "route" /\ batch = << >>
          /\ lpc' = "serve"
          /\ UNCHANGED <<pipeVars, threadVars, mRunning, setupVars, running, next, routeVars>>

(***************************************************************************)
(* Stop() for each manager: clear its _running, join its thread if it was  *)
(* started.                                                                *)
(***************************************************************************)
Stop == /\ lpc = "stop"
        /\ mRunning' = [mRunning EXCEPT ![Order[next]] = FALSE]
        /\ lpc' = "join"
        /\ UNCHANGED <<pipeVars, threadVars, setupVars, running, next, routeVars>>

Join == /\ lpc = "join" /\ mpc[Order[next]] \in {"new", "exited"}
        /\ Advance("stop", "ended")
        /\ UNCHANGED <<pipeVars, threadVars, mRunning, setupVars, running, routeVars>>
-----------------------------------------------------------------------------
MainThread == \/ AddProducer \/ AddConsumer \/ Run \/ CheckRunning
              \/ Wait \/ WaitInVain \/ Serve \/ AllServed \/ ConsumeEvent
              \/ Drain \/ Drained \/ Route \/ Routed \/ Stop \/ Join

Ended == lpc = "ended" /\ UNCHANGED vars

Next == \/ \E m \in Managers : ManagerThread(m)
        \/ MainThread \/ WaitFails \/ SignalHandler \/ Ended

Spec == Init /\ [][Next]_vars

(***************************************************************************)
(* Every thread is scheduled; epoll_wait need not fail and no signal need  *)
(* ever come.                                                              *)
(***************************************************************************)
FairSpec == Spec /\ WF_vars(MainThread) /\ \A m \in Managers : WF_vars(ManagerThread(m))
-----------------------------------------------------------------------------
TypeOK == /\ P!TypeOK
          /\ mpc \in [Managers -> {"new", "top", "count", "fire", "drop", "exited"}]
          /\ mRunning \in [Managers -> BOOLEAN] /\ running \in BOOLEAN
          /\ \A m \in Managers : /\ made[m] \in 0 .. MaxEvents[m]
                                 /\ queue[m] \in Seq(1 .. MaxEvents[m])
                                 /\ Len(queue[m]) <= Capacity
                                 /\ dropped[m] \subseteq 1 .. MaxEvents[m]
          /\ producers \subseteq Managers /\ counters \subseteq Managers
          /\ consumers \in [Types -> SUBSET Managers]
          /\ lpc \in {"addProducer", "addConsumer", "run", "loop", "wait", "serve", "consume",
                      "drain", "route", "stop", "join", "ended"}
          /\ next \in 1 .. Len(Order)
          /\ ready \subseteq Managers /\ cur \in Managers /\ batch \in Seq(1 .. MaxEvents[cur])
          /\ \A c, p \in Managers : delivered[c][p] \in Seq(1 .. MaxEvents[p])

(***************************************************************************)
(* No lost wake-up, for each manager by itself: unless its thread is still *)
(* on its way to the end of Fire() or the main thread is going to serve    *)
(* it, events in its queue mean a byte in its pipe.                        *)
(***************************************************************************)
BeingServed(m) == m \in ready \/ (m = cur /\ lpc \in {"consume", "drain"})

NoLostWakeup == \A m \in Managers :
                  mpc[m] \notin {"count", "fire"} /\ ~BeingServed(m) /\ queue[m] # << >> => P!Readable(m)

(***************************************************************************)
(* What epoll_wait reported stays true until it is acted on: a manager in  *)
(* ready still has its byte when its turn comes, so that Consume() in its  *)
(* Produce() neither blocks the other managers nor returns early.          *)
(***************************************************************************)
ReadyStaysReadable == \A m \in ready : P!Readable(m) /\ fired[m]

(***************************************************************************)
(* Routing.  Of what p produced, c has got exactly the events of the types *)
(* it will consume that have left p's queue and the batch, each once, in   *)
(* the order p created them; and nothing if c is p.                        *)
(***************************************************************************)
Pending(p) == Range(queue[p]) \cup dropped[p]
              \cup (IF cur = p THEN Range(batch) ELSE {})
              \cup (IF mpc[p] = "drop" THEN {made[p]} ELSE {})

Wanted(c, p) == {n \in (1 .. made[p]) \ Pending(p) : c # p /\ EventType(p, n) \in WillConsume[c]}

RoutedByType == \A c, p \in Managers : LET d == delivered[c][p]
                                       IN  /\ Range(d) = Wanted(c, p)
                                           /\ \A i, j \in DOMAIN d : i < j => d[i] < d[j]

(***************************************************************************)
(* IncrementCounter() is only called with a registered counter: a manager  *)
(* receives, sends or drops nothing before its own Run().                  *)
(***************************************************************************)
CountersRegistered == \A m \in Managers : m \notin counters =>
                        /\ made[m] = 0
                        /\ \A p \in Managers : delivered[m][p] = << >>

(***************************************************************************)
(* What the main thread does with the producers it polls: it serves those  *)
(* that are still readable, hands every event to the managers that consume *)
(* its type and no other, and to none that is not running.                 *)
(***************************************************************************)
RoutedRight == TypeOK /\ RoutedByType /\ ReadyStaysReadable /\ CountersRegistered

(***************************************************************************)
(* An accepted event reaches every other manager that consumes its type,   *)
(* unless the program is told to stop.                                     *)
(***************************************************************************)
Delivered == \A p, c \in Managers : \A n \in 1 .. MaxEvents[p] :
               c # p /\ EventType(p, n) \in WillConsume[c] =>
                 (mpc[p] = "count" /\ made[p] = n) ~> (~running \/ n \in Range(delivered[c][p]))

(***************************************************************************)
(* After a signal or a failed epoll_wait, in whatever call the threads and *)
(* main() are, main() ends with every thread joined.                       *)
(***************************************************************************)
ShutsDown == ~running ~> (lpc = "ended" /\ \A m \in Managers : mpc[m] = "exited")

(***************************************************************************)
(* Accepted events arrive everywhere, and the program ends when told to.   *)
(***************************************************************************)
Served == Delivered /\ ShutsDown
=============================================================================
