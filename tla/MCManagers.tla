------------------------------ MODULE MCManagers ------------------------------
(***************************************************************************)
(* The repository's own parts that app11 and app12 do not have, side by    *)
(* side: app4 to app7 and app10 with their main loop, app8, app1 to app3,  *)
(* LockeFreeQueue, EventPoller and the descriptors of PipedEvent.  A       *)
(* behaviour runs one of them; the others stay as they are at the start.   *)
(***************************************************************************)
EXTENDS Naturals

CONSTANTS Capacity, MaxEvents, PipeCapacity,   \* of OneManager and TryLockManager
          MAX_QUEUE_SIZE,                      \* of PeerManagers
          Producers, MaxNodes,                 \* of LockeFreeQueue
          Managers, LastSource, None,          \* of EventPoller
          Events, Standard, LastFd             \* of PipeDescriptors

VARIABLES part,
          oneApp, oneFired, oneBytes, oneFpc, oneCpc, oneQueue, reserved, oneMpc, oneMade,
          oneDropped, oneLpc, oneBatch, oneReceived, missed, oneMRunning, oneRunning,
          tryFired, tryBytes, tryFpc, tryCpc, mutex, list, tryMpc, tryMRunning, tryMade,
          tryDropped, tryLpc, tryRunning, tryBatch, tryReceived,
          peerApp, peerMpc, peerMRunning, peerQueue, peerFired, peerMade, peerDropped, counters,
          peerRunning, peerLpc, peerNext, ready, peerCur, peerBatch, peerReceived, uncounted,
          head, tail, listNext, live, ppc, new, prev, listCpc, listCur, nxt, order, out,
          pollLife, pollOwner, pollFired, interest, _watchers, reported, added, astray,
          pipeOwner, fds, pipeFired, pipeBytes, pipeLife, asked, stray

oneVars == <<oneApp, oneFired, oneBytes, oneFpc, oneCpc, oneQueue, reserved, oneMpc, oneMade,
             oneDropped, oneLpc, oneBatch, oneReceived, missed, oneMRunning, oneRunning>>
triesVars == <<tryFired, tryBytes, tryFpc, tryCpc, mutex, list, tryMpc, tryMRunning, tryMade,
               tryDropped, tryLpc, tryRunning, tryBatch, tryReceived>>
peersVars == <<peerApp, peerMpc, peerMRunning, peerQueue, peerFired, peerMade, peerDropped,
               counters, peerRunning, peerLpc, peerNext, ready, peerCur, peerBatch, peerReceived,
               uncounted>>
listVars == <<head, tail, listNext, live, ppc, new, prev, listCpc, listCur, nxt, order, out>>
pollerVars == <<pollLife, pollOwner, pollFired, interest, _watchers, reported, added, astray>>
pipesVars == <<pipeOwner, fds, pipeFired, pipeBytes, pipeLife, asked, stray>>

One == INSTANCE OneManager WITH
    Apps <- {"app4", "app5", "app6", "app7", "app10"}, app <- oneApp, fired <- oneFired,
    bytes <- oneBytes, fpc <- oneFpc, cpc <- oneCpc, queue <- oneQueue, mpc <- oneMpc, made <- oneMade, dropped <- oneDropped,
    lpc <- oneLpc, batch <- oneBatch, received <- oneReceived, mRunning <- oneMRunning,
    running <- oneRunning
Tries == INSTANCE TryLockManager WITH
    fired <- tryFired, bytes <- tryBytes, fpc <- tryFpc,
    cpc <- tryCpc, mpc <- tryMpc, mRunning <- tryMRunning, made <- tryMade, dropped <- tryDropped,
    lpc <- tryLpc, running <- tryRunning, batch <- tryBatch, received <- tryReceived
Peers == INSTANCE PeerManagers WITH
    Apps <- {"app1", "app2", "app3"}, app <- peerApp,
    mpc <- peerMpc, mRunning <- peerMRunning, queue <- peerQueue, fired <- peerFired,
    made <- peerMade, dropped <- peerDropped, running <- peerRunning, lpc <- peerLpc,
    next <- peerNext, cur <- peerCur, batch <- peerBatch, received <- peerReceived
List == INSTANCE LockeFreeQueue WITH
    next <- listNext, cpc <- listCpc, cur <- listCur
Poller == INSTANCE EventPoller WITH
    MaxFd <- LastSource, life <- pollLife, owner <- pollOwner, fired <- pollFired
Descs == INSTANCE PipeDescriptors WITH
    MaxFd <- LastFd, owner <- pipeOwner, fired <- pipeFired, bytes <- pipeBytes, life <- pipeLife

(***************************************************************************)
(* What the parts assume; and the programs are started with a standard     *)
(* input, for PipedEvent takes descriptor 0 for a closed one.              *)
(***************************************************************************)
ASSUME PartsAssumption == /\ One!ManagerAssumption /\ Tries!TryLockAssumption /\ Peers!PeerAssumption
                          /\ List!NodesAssumption /\ Poller!PollerAssumption /\ Descs!StandardAssumption
                          /\ PipeCapacity \in Nat \ {0} /\ MAX_QUEUE_SIZE \in Nat /\ LastSource \in Nat
                          /\ 0 \in Standard

Init == /\ part \in {"manager", "try", "peers", "list", "poller", "pipes"}
        /\ One!Init /\ Tries!Init /\ Peers!Init /\ List!Init /\ Poller!Init /\ Descs!Init
        /\ (part # "manager" => oneApp = "app4") /\ (part # "peers" => peerApp = "app1")

vars == <<part, oneVars, triesVars, peersVars, listVars, pollerVars, pipesVars>>

Manager == part = "manager" /\ One!Next /\ UNCHANGED <<part, triesVars, peersVars, listVars, pollerVars, pipesVars>>
TryLock == part = "try" /\ Tries!Next /\ UNCHANGED <<part, oneVars, peersVars, listVars, pollerVars, pipesVars>>
PeerPair == part = "peers" /\ Peers!Next /\ UNCHANGED <<part, oneVars, triesVars, listVars, pollerVars, pipesVars>>
LinkedList == part = "list" /\ List!Next /\ UNCHANGED <<part, oneVars, triesVars, peersVars, pollerVars, pipesVars>>
Polling == part = "poller" /\ Poller!Next /\ UNCHANGED <<part, oneVars, triesVars, peersVars, listVars, pipesVars>>
Descriptors == part = "pipes" /\ Descs!Next /\ UNCHANGED <<part, oneVars, triesVars, peersVars, listVars, pollerVars>>

(***************************************************************************)
(* No manager is left to be created: the poller and the pipes may rest.    *)
(***************************************************************************)
Rest == part \in {"poller", "pipes"} /\ UNCHANGED vars

Next == Manager \/ TryLock \/ PeerPair \/ LinkedList \/ Polling \/ Descriptors \/ Rest

(***************************************************************************)
(* Both threads of a program, a producer inside emplace_back(), the        *)
(* consumer that calls swap() and the loop that calls Wait() are           *)
(* scheduled.  No signal need ever come.                                   *)
(***************************************************************************)
Fairness == /\ WF_oneVars(part = "manager" /\ One!ManagerThread)
            /\ WF_oneVars(part = "manager" /\ One!MainThread)
            /\ WF_triesVars(part = "try" /\ Tries!ManagerThread)
            /\ WF_triesVars(part = "try" /\ Tries!MainThread)
            /\ WF_peersVars(part = "peers" /\ Peers!Main)
            /\ \A m \in {Peers!A, Peers!B} : WF_peersVars(part = "peers" /\ Peers!Thread(m))
            /\ \A p \in Producers : /\ WF_listVars(part = "list" /\ List!Exchange(p))
                                    /\ WF_listVars(part = "list" /\ List!Link(p))
            /\ WF_listVars(part = "list" /\ List!Swap)
            /\ WF_pollerVars(part = "poller" /\ Poller!MainLoop)

Spec == Init /\ [][Next]_vars /\ Fairness
-----------------------------------------------------------------------------
(***************************************************************************)
(* In app1 to app10 every event created is dropped, on its way once or     *)
(* consumed, and in order; a drain takes all it must, and an event that is *)
(* left in the queue has its wake-up in the pipe or, where the queue is    *)
(* drained before the wake-up is consumed, a flag that lets the next       *)
(* Fire() write one.  app8's lists have one user at a time and its second  *)
(* list is never used.                                                     *)
(***************************************************************************)
EventsKept == /\ part = "manager" => /\ One!TypeOK /\ One!EachEventOnce /\ One!DrainTakesAll
                                     /\ One!NoLostWakeup /\ One!StrandedUntilNextFire
              /\ part = "try" => Tries!ListsRight
              /\ part = "peers" => /\ Peers!EachEventOnce /\ Peers!NoLostWakeup
                                   /\ Peers!LengthBound /\ Peers!AlwaysCounted

(***************************************************************************)
(* LockeFreeQueue: no thread touches a deleted node, the list is cut only  *)
(* where a producer is about to link, swap() takes the elements in order,  *)
(* and the destructor frees all nodes.                                     *)
(***************************************************************************)
ListRight == part = "list" => /\ List!TypeOK /\ List!NoUseAfterDelete /\ List!OnlyCutByLinkers
                              /\ List!TakenInOrder /\ List!NoLeak

(***************************************************************************)
(* Descriptor numbers are reused and nobody is confused: Fire() signals    *)
(* the own pipe, a destroyed event leaves none open, and Execute() takes   *)
(* the descriptor's present manager and consumer.                          *)
(***************************************************************************)
DescriptorsRight == /\ part = "pipes" => Descs!FireSignals /\ Descs!NoneLeaks
                    /\ part = "poller" => Poller!RightPair

(***************************************************************************)
(* What must happen does: after a signal every program ends with its       *)
(* threads joined, also app8, where nothing moves any more once Produce()  *)
(* has kept the first mutex; events in a list of app1 to app3 are          *)
(* consumed, an element in LockeFreeQueue is taken however its             *)
(* predecessors' producers are delayed, and a manager that was added and   *)
(* has fired is served.                                                    *)
(***************************************************************************)
EverythingServed == /\ One!ShutsDown /\ Tries!Served /\ Peers!ShutsDown /\ Peers!Delivered
                    /\ List!EventuallyTaken /\ Poller!EveryoneServed
=============================================================================
