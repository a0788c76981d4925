--------------------------- MODULE MutexManagers ---------------------------
(***************************************************************************)
(* main.cpp: managers that protect a std::list with a mutex.  ManagerA and *)
(* ManagerB produce events of their own type for ManagerC; ManagerC queues *)
(* every event it consumes again, and main() returns it to the manager of  *)
(* its type.  main() never calls managerB->Run(), so ManagerB has neither  *)
(* a thread nor counters.  (app1, app2 and app3 have the producers without *)
(* ManagerC; app2 and app3 also lack the size check.)                      *)
(*                                                                         *)
(* A list is only changed, and the wake-up only fired or consumed, under   *)
(* the mutex, but the thread of a manager reads the size of its list       *)
(* without it.  That data race is on one word: the build's load returns    *)
(* the size before or after a swap() that runs at the same time.           *)
(***************************************************************************)
EXTENDS Integers, Sequences, Functions

CONSTANTS MAX_QUEUE_SIZE,
          Started,        \* the producers main() calls Run() for
          MaxEvents,      \* bound: events a thread creates or drops
          PipeCapacity

Order == <<"ManagerA", "ManagerB", "ManagerC">>
Managers == Range(Order)
C == "ManagerC"
Producers == Managers \ {C}

ASSUME MutexAssumption == /\ MAX_QUEUE_SIZE \in Nat /\ MaxEvents \in Nat
                          /\ PipeCapacity \in Nat \ {0}
                          /\ Started \subseteq Producers

VARIABLES fired, bytes, fpc, cpc,   \* the managers' txEvent
          mpc, mRunning,   \* each manager's thread and _running
          mutex,           \* mutex[m]: "free", or who holds m's txMutex
          queue,           \* queue[m]: m's txQueue; an event is <<its creator, its number>>
          made, dropped,   \* attempts of m's thread so far, and those dropped
          counters,        \* managers whose counters are registered
          txCount, rxCount,
          running,         \* main's running
          lpc, next,       \* main(), and its position in Order while stopping
          ready, cur,      \* descriptors epoll_wait reported; the manager being served
          batch,           \* the list Produce() returned, less what was passed on
          received         \* received[m]: numbers of the events returned to m, in order

pipeVars == <<fired, bytes, fpc, cpc>>
threadVars == <<mpc, made, dropped>>
mainVars == <<running, lpc, next, ready, cur, batch, received>>
countVars == <<counters, txCount, rxCount>>
vars == <<pipeVars, threadVars, mRunning, mutex, queue, countVars, mainVars>>

P == INSTANCE PipedEvent WITH Pipes <- Managers

Init == /\ P!Init
        /\ mpc = [m \in Managers |-> "new"] /\ mRunning = [m \in Managers |-> TRUE]
        /\ mutex = [m \in Managers |-> "free"]
        /\ queue = [m \in Managers |-> << >>]
        /\ made = [m \in Producers |-> 0] /\ dropped = [m \in Producers |-> {}]
        /\ counters = {}
        /\ txCount = [m \in Managers |-> 0] /\ rxCount = [m \in Managers |-> 0]
        /\ running = TRUE /\ lpc = "start" /\ next = 1
        /\ ready = {} /\ cur = C /\ batch = << >>
        /\ received = [m \in Producers |-> << >>]
-----------------------------------------------------------------------------
(***************************************************************************)
(* Faulty variants of the steps below, used to see that the properties     *)
(* notice them: a Produce() that does not hold the mutex, a Consume() that *)
(* overwrites the list.                                                    *)
(***************************************************************************)
SwapAndUnlock == /\ lpc = "lock" /\ mutex[cur] = "free"
                 /\ batch' = queue[cur]
                 /\ queue' = [queue EXCEPT ![cur] = << >>]
                 /\ lpc' = "consume"
                 /\ UNCHANGED <<pipeVars, threadVars, mRunning, mutex, countVars,
                                running, next, ready, cur, received>>

ConsumeOverwrites == /\ lpc = "forward" /\ cur # C /\ batch # << >>
                     /\ mutex[C] = "free" /\ mutex' = [mutex EXCEPT ![C] = "main"]
                     /\ queue' = [queue EXCEPT ![C] = <<Head(batch)>>]
                     /\ batch' = Tail(batch)
                     /\ rxCount' = [rxCount EXCEPT ![C] = @ + 1]
                     /\ txCount' = [txCount EXCEPT ![C] = @ + 1]
                     /\ lpc' = "fire"
                     /\ UNCHANGED <<pipeVars, threadVars, mRunning, counters, running, next, ready, cur, received>>

-----------------------------------------------------------------------------
(***************************************************************************)
(* The thread of a producer.  _runImpl() looks at the size, without the    *)
(* mutex, and counts a dropped event if the list is too long; otherwise it *)
(* locks, adds an event, counts it, fires and unlocks.                     *)
(***************************************************************************)
ThreadExit(m) == /\ mpc[m] = "top" /\ ~mRunning[m]
                 /\ mpc' = [mpc EXCEPT ![m] = "exited"]
                 /\ UNCHANGED <<pipeVars, made, dropped, mRunning, mutex, queue, countVars, mainVars>>

CheckSize(m) == /\ mpc[m] = "top" /\ mRunning[m]
                /\ made[m] < MaxEvents
                /\ mpc' = [mpc EXCEPT ![m] = IF Len(queue[m]) > MAX_QUEUE_SIZE THEN "drop" ELSE "lock"]
                /\ made' = [made EXCEPT ![m] = @ + 1]
                /\ UNCHANGED <<pipeVars, dropped, mRunning, mutex, queue, countVars, mainVars>>

CountDrop(m) == /\ mpc[m] = "drop"
                /\ dropped' = [dropped EXCEPT ![m] = @ \cup {made[m]}]
                /\ mpc' = [mpc EXCEPT ![m] = "top"]
                /\ UNCHANGED <<pipeVars, made, mRunning, mutex, queue, countVars, mainVars>>

Emplace(m) == /\ mpc[m] = "lock"
              /\ mutex[m] = "free" /\ mutex' = [mutex EXCEPT ![m] = "thread"]
              /\ queue' = [queue EXCEPT ![m] = Append(@, <<m, made[m]>>)]
              /\ mpc' = [mpc EXCEPT ![m] = "count"]
              /\ UNCHANGED <<pipeVars, made, dropped, mRunning, countVars, mainVars>>

CountTx(m) == /\ mpc[m] = "count"
              /\ txCount' = [txCount EXCEPT ![m] = @ + 1]
              /\ mpc' = [mpc EXCEPT ![m] = "fire"]
              /\ UNCHANGED <<pipeVars, made, dropped, mRunning, mutex, queue, counters, rxCount, mainVars>>

Fire(m) == /\ mpc[m] = "fire"
           /\ IF fpc[m] = "idle" THEN P!FireCheck(m) ELSE P!FireStore(m) \/ P!FireWrite(m)
           /\ mpc' = [mpc EXCEPT ![m] = IF fpc'[m] = "idle" THEN "unlock" ELSE "fire"]
           /\ UNCHANGED <<made, dropped, mRunning, mutex, queue, countVars, mainVars>>

Unlock(m) == /\ mpc[m] = "unlock"
             /\ mutex' = [mutex EXCEPT ![m] = "free"]
             /\ mpc' = [mpc EXCEPT ![m] = "top"]
             /\ UNCHANGED <<pipeVars, made, dropped, mRunning, queue, countVars, mainVars>>

ProducerThread(m) == \/ ThreadExit(m) \/ CheckSize(m) \/ CountDrop(m) \/ Emplace(m)
                     \/ CountTx(m) \/ Fire(m) \/ Unlock(m)
-----------------------------------------------------------------------------
(***************************************************************************)
(* main() starts the producers and then ManagerC, whose _runImpl() only    *)
(* waits on an epoll instance that watches nothing.                        *)
(***************************************************************************)
Run == /\ lpc = "start"
       /\ counters' = counters \cup Started
       /\ mpc' = [m \in Managers |-> IF m \in Started THEN "top" ELSE mpc[m]]
       /\ lpc' = "startC"
       /\ UNCHANGED <<pipeVars, made, dropped, mRunning, mutex, queue, txCount, rxCount,
                      running, next, ready, cur, batch, received>>

RunC == /\ lpc = "startC"
        /\ counters' = counters \cup {C}
        /\ mpc' = [mpc EXCEPT ![C] = "top"]
        /\ lpc' = "loop"
        /\ UNCHANGED <<pipeVars, made, dropped, mRunning, mutex, queue, txCount, rxCount,
                       running, next, ready, cur, batch, received>>

SignalHandler == /\ running
                 /\ running' = FALSE
                 /\ UNCHANGED <<pipeVars, threadVars, mRunning, mutex, queue, countVars,
                                lpc, next, ready, cur, batch, received>>

CheckRunning == /\ lpc = "loop"
                /\ lpc' = IF running THEN "wait" ELSE "stop"
                /\ UNCHANGED <<pipeVars, threadVars, mRunning, mutex, queue, countVars,
                               running, next, ready, cur, batch, received>>

(***************************************************************************)
(* epoll_wait(): all three descriptors are watched and fit into the array; *)
(* with none readable it times out, and a signal may interrupt it.         *)
(***************************************************************************)
Wait == /\ lpc = "wait"
        /\ \/ /\ ready' = {m \in Managers : P!Readable(m)}
              /\ lpc' = IF ready' = {} THEN "loop" ELSE "serve"
           \/ ~running /\ lpc' = "loop" /\ ready' = {}
        /\ UNCHANGED <<pipeVars, threadVars, mRunning, mutex, queue, countVars,
                       running, next, cur, batch, received>>

Serve == /\ lpc = "serve"
         /\ \E m \in ready : cur' = m /\ ready' = ready \ {m}
         /\ lpc' = "lock"
         /\ UNCHANGED <<pipeVars, threadVars, mRunning, mutex, queue, countVars,
                        running, next, batch, received>>

AllServed == /\ lpc = "serve" /\ ready = {}
             /\ lpc' = "loop"
             /\ UNCHANGED <<pipeVars, threadVars, mRunning, mutex, queue, countVars,
                            running, next, ready, cur, batch, received>>

(***************************************************************************)
(* Produce(): lock, take the whole list, consume the wake-up, unlock.      *)
(***************************************************************************)
Swap == /\ lpc = "lock"
        /\ mutex[cur] = "free" /\ mutex' = [mutex EXCEPT ![cur] = "main"]
        /\ batch' = queue[cur]
        /\ queue' = [queue EXCEPT ![cur] = << >>]
        /\ lpc' = "consume"
        /\ UNCHANGED <<pipeVars, threadVars, mRunning, countVars, running, next, ready, cur, received>>

ConsumeEvent == /\ lpc = "consume"
                /\ IF cpc[cur] = "idle" THEN P!ConsumeCheck(cur)
                                        ELSE P!ConsumeRead(cur) \/ P!ConsumeReset(cur)
                /\ lpc' = IF cpc'[cur] = "idle" THEN "unlock" ELSE "consume"
                /\ UNCHANGED <<threadVars, mRunning, mutex, queue, countVars,
                               running, next, ready, cur, batch, received>>

Produced == /\ lpc = "unlock"
            /\ mutex' = [mutex EXCEPT ![cur] = "free"]
            /\ lpc' = "forward"
            /\ UNCHANGED <<pipeVars, threadVars, mRunning, queue, countVars,
                           running, next, ready, cur, batch, received>>

(***************************************************************************)
(* Execute(): ManagerC consumes the events of A and B.  Its Consume() adds *)
(* each one to its own list and fires its own wake-up, under its mutex.    *)
(***************************************************************************)
ConsumeC == /\ lpc = "forward" /\ cur # C /\ batch # << >>
            /\ mutex[C] = "free" /\ mutex' = [mutex EXCEPT ![C] = "main"]
            /\ queue' = [queue EXCEPT ![C] = Append(@, Head(batch))]
            /\ batch' = Tail(batch)
            /\ rxCount' = [rxCount EXCEPT ![C] = @ + 1]
            /\ txCount' = [txCount EXCEPT ![C] = @ + 1]
            /\ lpc' = "fire"
            /\ UNCHANGED <<pipeVars, threadVars, mRunning, counters, running, next, ready, cur, received>>

FireC == /\ lpc = "fire"
         /\ IF fpc[C] = "idle" THEN P!FireCheck(C) ELSE P!FireStore(C) \/ P!FireWrite(C)
         /\ lpc' = IF fpc'[C] = "idle" THEN "unlockC" ELSE "fire"
         /\ UNCHANGED <<threadVars, mRunning, mutex, queue, countVars,
                        running, next, ready, cur, batch, received>>

UnlockC == /\ lpc = "unlockC"
           /\ mutex' = [mutex EXCEPT ![C] = "free"]
           /\ lpc' = "forward"
           /\ UNCHANGED <<pipeVars, threadVars, mRunning, queue, countVars,
                          running, next, ready, cur, batch, received>>

(***************************************************************************)
(* main() returns what ManagerC produced to the manager of its type.       *)
(***************************************************************************)
Return == /\ lpc = "forward" /\ cur = C /\ batch # << >>
          /\ LET m == Head(batch)[1]
             IN  /\ received' = [received EXCEPT ![m] = Append(@, Head(batch)[2])]
                 /\ rxCount' = [rxCount EXCEPT ![m] = @ + 1]
          /\ batch' = Tail(batch)
          /\ UNCHANGED <<pipeVars, threadVars, mRunning, mutex, queue, counters, txCount,
                         running, lpc, next, ready, cur>>

Forwarded == /\ lpc = "forward" /\ batch = << >>
             /\ lpc' = "serve"
             /\ UNCHANGED <<pipeVars, threadVars, mRunning, mutex, queue, countVars,
                            running, next, ready, cur, batch, received>>

(***************************************************************************)
(* Stop() for each manager; only a thread that was started is joined.      *)
(***************************************************************************)
Stop == /\ lpc = "stop"
        /\ mRunning' = [mRunning EXCEPT ![Order[next]] = FALSE]
        /\ lpc' = "join"
        /\ UNCHANGED <<pipeVars, threadVars, mutex, queue, countVars,
                       running, next, ready, cur, batch, received>>

Join == /\ lpc = "join" /\ mpc[Order[next]] \in {"new", "exited"}
        /\ IF next = Len(Order) THEN lpc' = "ended" /\ next' = next
                                ELSE lpc' = "stop" /\ next' = next + 1
        /\ UNCHANGED <<pipeVars, threadVars, mRunning, mutex, queue, countVars,
                       running, ready, cur, batch, received>>
-----------------------------------------------------------------------------
MainThread == \/ Run \/ RunC \/ CheckRunning \/ Wait \/ Serve \/ AllServed
              \/ Swap \/ ConsumeEvent \/ Produced \/ ConsumeC \/ FireC \/ UnlockC
              \/ Return \/ Forwarded \/ Stop \/ Join

Ended == lpc = "ended" /\ UNCHANGED vars

Next == \/ \E m \in Producers : ProducerThread(m)
        \/ ThreadExit(C) \/ MainThread \/ SignalHandler \/ Ended

Spec == Init /\ [][Next]_vars

(***************************************************************************)
(* Every thread is scheduled; no signal need ever come.  The mutex is not  *)
(* taken to be fair: a thread that keeps taking it before main() can stops *)
(* doing so when its list is too long.                                     *)
(***************************************************************************)
FairSpec == /\ Spec
            /\ WF_vars(MainThread) /\ WF_vars(ThreadExit(C))
            /\ \A m \in Producers : WF_vars(ProducerThread(m))
-----------------------------------------------------------------------------
TypeOK == /\ P!TypeOK
          /\ mpc \in [Managers -> {"new", "top", "lock", "count", "fire", "unlock", "drop", "exited"}]
          /\ mRunning \in [Managers -> BOOLEAN] /\ running \in BOOLEAN
          /\ mutex \in [Managers -> {"free", "thread", "main"}]
          /\ counters \subseteq Managers
          /\ txCount \in [Managers -> Nat] /\ rxCount \in [Managers -> Nat]
          /\ lpc \in {"start", "startC", "loop", "wait", "serve", "lock", "consume", "unlock", "forward",
                      "fire", "unlockC", "stop", "join", "ended"}
          /\ next \in 1 .. Len(Order) /\ ready \subseteq Managers /\ cur \in Managers
          /\ batch \in Seq(Producers \X (1 .. MaxEvents))
          /\ \A m \in Producers : /\ made[m] \in 0 .. MaxEvents /\ dropped[m] \subseteq 1 .. MaxEvents
                                  /\ received[m] \in Seq(1 .. MaxEvents)
          /\ \A m \in Managers : queue[m] \in Seq(Producers \X (1 .. MaxEvents))

(***************************************************************************)
(* A list without an owner that holds events has a byte in its pipe: the   *)
(* order of swap() and Consume() does not matter under the mutex.          *)
(***************************************************************************)
NoLostWakeup == \A m \in Managers : mutex[m] = "free" => (queue[m] # << >> => P!Readable(m))

(***************************************************************************)
(* The unlocked check bounds the list of a producer all the same, at one   *)
(* more than MAX_QUEUE_SIZE: only the thread that checked can add to it.   *)
(***************************************************************************)
QueueBound == \A m \in Producers : Len(queue[m]) <= MAX_QUEUE_SIZE + 1

(***************************************************************************)
(* Every event of a producer is in exactly one place on its way through    *)
(* ManagerC and back, dropped, or in its thread's hands, and none          *)
(* overtakes another.                                                      *)
(***************************************************************************)
Line(m) == LET returning == IF cur = C THEN batch ELSE << >>
               going     == IF cur # C THEN batch ELSE << >>
           IN  returning \o queue[C] \o going \o queue[m]

OnTheWay(m) == {e[2] : e \in {x \in Range(Line(m)) : x[1] = m}}

EachEventOnce == \A m \in Producers :
  /\ \A i, j \in DOMAIN Line(m) : i < j /\ Line(m)[i][1] = Line(m)[j][1] => Line(m)[i][2] < Line(m)[j][2]
  /\ \A i, j \in DOMAIN received[m] : i < j => received[m][i] < received[m][j]
  /\ \A n \in OnTheWay(m), k \in Range(received[m]) : k < n
  /\ Range(received[m]) \cup OnTheWay(m) =
       (1 .. made[m]) \ (dropped[m] \cup (IF mpc[m] \in {"lock", "drop"} THEN {made[m]} ELSE {}))

(***************************************************************************)
(* What a scrape of the counters can see: because eventTx is incremented   *)
(* under the mutex, ManagerC has never received more than was sent to it,  *)
(* nor the producers more than ManagerC sent.  No counter is used before   *)
(* it is registered, ManagerB's never.                                     *)
(***************************************************************************)
CountersAgree == /\ rxCount[C] <= txCount["ManagerA"] + txCount["ManagerB"]
                 /\ rxCount["ManagerA"] + rxCount["ManagerB"] <= txCount[C]
                 /\ \A m \in Managers : m \notin counters => txCount[m] = 0 /\ rxCount[m] = 0

(***************************************************************************)
(* The lists stay bounded, and lists, counters and received events tell    *)
(* the same story of every event on its way through ManagerC and back.     *)
(***************************************************************************)
EventsAccounted == TypeOK /\ QueueBound /\ EachEventOnce /\ CountersAgree

(***************************************************************************)
(* An event that was sent comes back to its creator, unless the program is *)
(* told to stop.                                                           *)
(***************************************************************************)
ComesBack == \A m \in Producers : \A n \in 1 .. MaxEvents :
               (mpc[m] = "count" /\ made[m] = n) ~> (~running \/ n \in Range(received[m]))

(***************************************************************************)
(* After a signal main() ends, though it may be waiting for a mutex and    *)
(* ManagerB has no thread to join.                                         *)
(***************************************************************************)
ShutsDown == ~running ~> lpc = "ended"

(***************************************************************************)
(* Events that were sent come back, and the program ends when told to.     *)
(***************************************************************************)
Served == ComesBack /\ ShutsDown
=============================================================================
