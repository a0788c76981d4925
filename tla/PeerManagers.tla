---------------------------- MODULE PeerManagers ----------------------------
(***************************************************************************)
(* app1.cpp, app2.cpp and app3.cpp: managers with a list behind a mutex    *)
(* and no manager that forwards.  In app2 ManagerA and ManagerB consume    *)
(* each other's events; in app1 and app3 ManagerA consumes its own, and    *)
(* only app1 looks at the length of the list before it adds to it.         *)
(*                                                                         *)
(* The list and the wake-up are only used under txMutex, except that       *)
(* epoll_wait() looks at the pipe, so what a thread does while it holds    *)
(* the mutex is one step here; MutexManagers has the steps.                *)
(***************************************************************************)
EXTENDS Naturals, Sequences, SequencesExt

CONSTANTS Apps,             \* the programs to look at
          MAX_QUEUE_SIZE,
          MaxEvents         \* bound: events a thread creates or drops

A == "ManagerA"
B == "ManagerB"
PeerAssumption == Apps \subseteq {"app1", "app2", "app3"}

VARIABLES app,
          mpc, mRunning,      \* each manager's thread and _running
          queue, fired,       \* txQueue, an event is its number; txEvent has its byte
          made, dropped,      \* events created so far, and those dropped
          counters,           \* the managers whose Run() has registered its counters
          running, lpc, next, \* main(), and its position in Order while starting or stopping
          ready, cur, batch,  \* descriptors reported, the manager being served, its events
          received,           \* received[m]: events of m that were consumed, in order
          uncounted           \* history: events consumed before the counter was registered

threadVars == <<mpc, queue, fired, made, dropped>>
mainVars == <<mRunning, counters, running, lpc, next, ready, cur, batch, received, uncounted>>
vars == <<app, threadVars, mainVars>>

Order == IF app = "app2" THEN <<A, B>> ELSE <<A>>
ConsumerOf(m) == IF app # "app2" THEN m ELSE IF m = A THEN B ELSE A

Init == /\ app \in Apps
        /\ mpc = [m \in {A, B} |-> "new"] /\ mRunning = [m \in {A, B} |-> TRUE]
        /\ queue = [m \in {A, B} |-> << >>] /\ fired = [m \in {A, B} |-> FALSE]
        /\ made = [m \in {A, B} |-> 0] /\ dropped = [m \in {A, B} |-> {}]
        /\ counters = {} /\ running = TRUE /\ lpc = "run" /\ next = 1
        /\ ready = {} /\ cur = A /\ batch = << >>
        /\ received = [m \in {A, B} |-> << >>] /\ uncounted = 0
-----------------------------------------------------------------------------
(***************************************************************************)
(* The thread of a manager.  app1 compares the length without the mutex;   *)
(* then an event is added, counted and fired under it.                     *)
(***************************************************************************)
ThreadExit(m) == /\ mpc[m] = "top" /\ ~mRunning[m]
                 /\ mpc' = [mpc EXCEPT ![m] = "exited"]
                 /\ UNCHANGED <<app, queue, fired, made, dropped, mainVars>>

TooLong(m) == app = "app1" /\ Len(queue[m]) > MAX_QUEUE_SIZE
RunImpl(m) == /\ mpc[m] = "top" /\ mRunning[m] /\ made[m] < MaxEvents
              /\ made' = [made EXCEPT ![m] = @ + 1]
              /\ IF TooLong(m) THEN dropped' = [dropped EXCEPT ![m] = @ \cup {made'[m]}] /\ mpc' = mpc
                               ELSE mpc' = [mpc EXCEPT ![m] = "lock"] /\ dropped' = dropped
              /\ UNCHANGED <<app, queue, fired, mainVars>>

Emplace(m) == /\ mpc[m] = "lock"
              /\ queue' = [queue EXCEPT ![m] = Append(@, made[m])]
              /\ fired' = [fired EXCEPT ![m] = TRUE]
              /\ mpc' = [mpc EXCEPT ![m] = "top"]
              /\ UNCHANGED <<app, made, dropped, mainVars>>
Thread(m) == ThreadExit(m) \/ RunImpl(m) \/ Emplace(m)
-----------------------------------------------------------------------------
(***************************************************************************)
(* main().  Run() registers the counters and starts the thread; the loop   *)
(* follows when all are started, and Stop() of each when running is false. *)
(***************************************************************************)
Run == /\ lpc = "run"
       /\ counters' = counters \cup {Order[next]}
       /\ mpc' = [mpc EXCEPT ![Order[next]] = "top"]
       /\ lpc' = (IF next >= Len(Order) THEN "loop" ELSE "run")
       /\ next' = (IF next >= Len(Order) THEN 1 ELSE next + 1)
       /\ UNCHANGED <<app, queue, fired, made, dropped, mRunning, running,
                      ready, cur, batch, received, uncounted>>

SignalHandler == /\ running /\ running' = FALSE
                 /\ UNCHANGED <<app, threadVars, mRunning, counters, lpc, next, ready, cur, batch, received, uncounted>>

Readable == {m \in ToSet(Order) : fired[m]}
CheckRunning == /\ lpc = "loop"
                /\ lpc' = IF running THEN "wait" ELSE "stop"
                /\ UNCHANGED <<app, threadVars, mRunning, counters, running, next, ready, cur, batch, received, uncounted>>
(***************************************************************************)
(* epoll_wait() returns what is readable, nothing after its timeout, and   *)
(* -1 when the signal interrupts it.                                       *)
(***************************************************************************)
Wait == /\ lpc = "wait"
        /\ ready' \in (IF running THEN {Readable} ELSE {Readable, {}})
        /\ lpc' = IF ready' = {} THEN "loop" ELSE "serve"
        /\ UNCHANGED <<app, threadVars, mRunning, counters, running, next, cur, batch, received, uncounted>>

Produce(m) == /\ lpc = "serve" /\ m \in ready
              /\ ready' = ready \ {m} /\ cur' = m
              /\ batch' = queue[m] /\ queue' = [queue EXCEPT ![m] = << >>]
              /\ fired' = [fired EXCEPT ![m] = FALSE]
              /\ lpc' = "dispatch"
              /\ UNCHANGED <<app, mpc, made, dropped, mRunning, counters, running, next, received, uncounted>>

Consume == /\ lpc = "dispatch" /\ batch # << >>
           /\ received' = [received EXCEPT ![cur] = Append(@, Head(batch))]
           /\ uncounted' = IF ConsumerOf(cur) \in counters THEN uncounted ELSE uncounted + 1
           /\ batch' = Tail(batch)
           /\ UNCHANGED <<app, threadVars, mRunning, counters, running, lpc, next, ready, cur>>
Dispatched == /\ lpc = "dispatch" /\ batch = << >>
              /\ lpc' = IF ready = {} THEN "loop" ELSE "serve"
              /\ UNCHANGED <<app, threadVars, mRunning, counters, running, next, ready, cur, batch, received, uncounted>>

Stop == /\ lpc = "stop"
        /\ mRunning' = [mRunning EXCEPT ![Order[next]] = FALSE]
        /\ lpc' = "join"
        /\ UNCHANGED <<app, threadVars, counters, running, next, ready, cur, batch, received, uncounted>>
Join == /\ lpc = "join" /\ mpc[Order[next]] = "exited"
        /\ next' = next + 1
        /\ lpc' = IF next >= Len(Order) THEN "ended" ELSE "stop"
        /\ UNCHANGED <<app, threadVars, mRunning, counters, running, ready, cur, batch, received, uncounted>>
Ended == lpc = "ended" /\ UNCHANGED vars

Main == Run \/ CheckRunning \/ Wait \/ Consume \/ Dispatched \/ Stop \/ Join
          \/ \E m \in ready : Produce(m)
Next == Main \/ SignalHandler \/ Ended \/ \E m \in ToSet(Order) : Thread(m)

Fairness == WF_vars(Main) /\ \A m \in {A, B} : WF_vars(Thread(m))
Spec == Init /\ [][Next]_vars /\ Fairness
-----------------------------------------------------------------------------
(***************************************************************************)
(* A manager with events in its list has its wake-up in the pipe, although *)
(* Produce() takes the list first and consumes the wake-up afterwards.     *)
(***************************************************************************)
NoLostWakeup == \A m \in ToSet(Order) : queue[m] # << >> => fired[m]

(***************************************************************************)
(* Every event that was created is consumed or on its way once, and in     *)
(* order, except the ones that were dropped.                               *)
(***************************************************************************)
OnTheWay(m) == received[m] \o (IF cur = m THEN batch ELSE << >>) \o queue[m]
EachEventOnce == \A m \in ToSet(Order) :
    /\ \A i, j \in DOMAIN OnTheWay(m) : i < j => OnTheWay(m)[i] < OnTheWay(m)[j]
    /\ LET adding == IF mpc[m] = "lock" THEN {made[m]} ELSE {}
       IN  ToSet(OnTheWay(m)) = ((1 .. made[m]) \ dropped[m]) \ adding

(***************************************************************************)
(* app1: the length that is read without the mutex may be stale, but only  *)
(* on the side of a list that was emptied since.                           *)
(***************************************************************************)
LengthBound == app = "app1" => Len(queue[A]) <= MAX_QUEUE_SIZE + 1

(***************************************************************************)
(* app2: managers consume each other's events, and none is consumed by a   *)
(* manager whose Run() has not registered its counters yet.                *)
(***************************************************************************)
AlwaysCounted == uncounted = 0

(***************************************************************************)
(* After a signal main() ends, with every thread it started joined.        *)
(***************************************************************************)
ShutsDown == ~running ~> (lpc = "ended" /\ \A m \in ToSet(Order) : mpc[m] = "exited")

(***************************************************************************)
(* An event that is in the list is consumed, or the program ends.          *)
(***************************************************************************)
Delivered == \A m \in {A, B} : queue[m] # << >> ~> (queue[m] = << >> \/ lpc = "ended")
=============================================================================
