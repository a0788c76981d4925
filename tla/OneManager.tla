---------------------------- MODULE OneManager ----------------------------
(***************************************************************************)
(* app4.cpp, app5.cpp, app6.cpp, app7.cpp and app10.cpp: one manager whose *)
(* thread adds events to txQueue and fires txEvent, and the main loop that *)
(* takes them out.  The programs differ in the queue and in Produce():     *)
(*   app4   no queue at all, to measure the wake-ups                       *)
(*   app5   ReaderWriterQueue, taken element by element before Consume()   *)
(*   app6   LockeFreeQueue, taken node by node before Consume()            *)
(*   app7   a list behind a lock per call, swapped before Consume()        *)
(*   app10  AtomicQueueB2, taken element by element after Consume()        *)
(* The queue is a sequence here: with one thread on each side an element   *)
(* becomes visible in one step.  LockeFreeQueue, ReaderWriterQueue and     *)
(* AtomicQueue have the steps inside their operations.                     *)
(***************************************************************************)
EXTENDS Integers, Sequences

CONSTANTS Apps,         \* the programs to look at
          Capacity,     \* slots of app10's ring
          MaxEvents,    \* bound: events the thread creates
          PipeCapacity

ManagerAssumption == /\ Apps \subseteq {"app4", "app5", "app6", "app7", "app10"}
                            /\ Capacity \in Nat \ {0} /\ MaxEvents \in Nat

VARIABLES app,                    \* which program runs
          fired, bytes, fpc, cpc, \* txEvent
          queue,                  \* txQueue
          reserved,               \* app10: the last slot is taken but not stored to
          mpc, made, dropped,     \* the manager's thread, events created and refused
          lpc, batch, received,   \* the main thread, Produce()'s list, events consumed
          missed,                 \* history: events a drain must not leave behind
          mRunning, running

pipeVars == <<fired, bytes, fpc, cpc>>
queueVars == <<queue, reserved>>
threadVars == <<mpc, made, dropped>>
mainVars == <<lpc, batch, received, missed>>
flagVars == <<mRunning, running>>
vars == <<app, pipeVars, queueVars, threadVars, mainVars, flagVars>>

M == "ManagerA"
P == INSTANCE PipedEvent WITH Pipes <- {M}

Init == /\ app \in Apps
        /\ P!Init
        /\ queue = << >> /\ reserved = FALSE
        /\ mpc = "new" /\ made = 0 /\ dropped = {}
        /\ lpc = "start" /\ batch = << >> /\ received = << >> /\ missed = {}
        /\ mRunning = TRUE /\ running = TRUE

(***************************************************************************)
(* Does Produce() empty the queue before it consumes the wake-up?          *)
(***************************************************************************)
DrainFirst == app # "app10"
Elements(s) == {s[i] : i \in DOMAIN s}
-----------------------------------------------------------------------------
(***************************************************************************)
(* A faulty variant: a Consume() that does not clear the flag.             *)
(***************************************************************************)
ConsumeForgetsReset == /\ lpc = "consume"
                       /\ IF cpc[M] = "idle" THEN P!ConsumeCheck(M)
                          ELSE P!ConsumeRead(M) \/ P!ConsumeWithoutReset(M)
                       /\ lpc' = IF cpc'[M] = "idle" THEN (IF DrainFirst THEN "dispatch" ELSE "drain") ELSE "consume"
                       /\ UNCHANGED <<app, queueVars, threadVars, batch, received, missed, flagVars>>
-----------------------------------------------------------------------------
(***************************************************************************)
(* The manager's thread: while (_running.load()) _runImpl(), which creates *)
(* an event (app4 creates it and throws it away) and offers it to the      *)
(* queue.                                                                  *)
(***************************************************************************)
ThreadExit == /\ mpc = "top" /\ ~mRunning
              /\ mpc' = "exited"
              /\ UNCHANGED <<app, pipeVars, queueVars, made, dropped, mainVars, flagVars>>

RunImpl == /\ mpc = "top" /\ mRunning /\ made < MaxEvents
           /\ made' = made + 1
           /\ mpc' = IF app = "app4" THEN "count" ELSE "add"
           /\ UNCHANGED <<app, pipeVars, queueVars, dropped, mainVars, flagVars>>

(***************************************************************************)
(* app5: enqueue() fails when it needs a block and malloc() returns null.  *)
(***************************************************************************)
Enqueue5 == /\ mpc = "add" /\ app = "app5"
            /\ \/ queue' = Append(queue, made) /\ mpc' = "count"
               \/ queue' = queue /\ mpc' = "drop"
            /\ UNCHANGED <<app, pipeVars, reserved, made, dropped, mainVars, flagVars>>

EmplaceBack6 == /\ mpc = "add" /\ app = "app6"
                /\ queue' = Append(queue, made)
                /\ mpc' = "count"
                /\ UNCHANGED <<app, pipeVars, reserved, made, dropped, mainVars, flagVars>>

(***************************************************************************)
(* app7: txQueue-> locks, the call changes the list, and the proxy's       *)
(* destructor unlocks; nothing else happens under the lock, so locking,    *)
(* changing and unlocking are one step.                                    *)
(***************************************************************************)
EmplaceBack7 == /\ mpc = "add" /\ app = "app7"
                /\ queue' = Append(queue, made)
                /\ mpc' = "count"
                /\ UNCHANGED <<app, pipeVars, reserved, made, dropped, mainVars, flagVars>>

(***************************************************************************)
(* app10: try_push() takes a slot by advancing head_ and stores the        *)
(* element in a second step; it refuses the event when the ring is full.   *)
(***************************************************************************)
TryPush10 == /\ mpc = "add" /\ app = "app10"
             /\ IF Len(queue) < Capacity
                THEN queue' = Append(queue, made) /\ reserved' = TRUE /\ mpc' = "store"
                ELSE UNCHANGED queueVars /\ mpc' = "drop"
             /\ UNCHANGED <<app, pipeVars, made, dropped, mainVars, flagVars>>

StoreElement == /\ mpc = "store"
                /\ reserved' = FALSE
                /\ mpc' = "count"
                /\ UNCHANGED <<app, pipeVars, queue, made, dropped, mainVars, flagVars>>

CountTx == /\ mpc = "count"
           /\ mpc' = "fire"
           /\ UNCHANGED <<app, pipeVars, queueVars, made, dropped, mainVars, flagVars>>

CountDrop == /\ mpc = "drop"
             /\ dropped' = dropped \cup {made}
             /\ mpc' = "top"
             /\ UNCHANGED <<app, pipeVars, queueVars, made, mainVars, flagVars>>

Fire == /\ mpc = "fire"
        /\ IF fpc[M] = "idle" THEN P!FireCheck(M) ELSE P!FireStore(M) \/ P!FireWrite(M)
        /\ mpc' = IF fpc'[M] = "idle" THEN "top" ELSE "fire"
        /\ UNCHANGED <<app, queueVars, made, dropped, mainVars, flagVars>>

ManagerThread == \/ ThreadExit \/ RunImpl \/ Enqueue5 \/ EmplaceBack6 \/ EmplaceBack7
                 \/ TryPush10 \/ StoreElement \/ CountTx \/ CountDrop \/ Fire
-----------------------------------------------------------------------------
(***************************************************************************)
(* main(): add the manager to the poller, start it, and until a signal     *)
(* comes wait for txEvent and execute.                                     *)
(***************************************************************************)
Run == /\ lpc = "start"
       /\ mpc' = "top" /\ lpc' = "loop"
       /\ UNCHANGED <<app, pipeVars, queueVars, made, dropped, batch, received, missed, flagVars>>

SignalHandler == /\ running
                 /\ running' = FALSE
                 /\ UNCHANGED <<app, pipeVars, queueVars, threadVars, mainVars, mRunning>>

CheckRunning == /\ lpc = "loop"
                /\ lpc' = IF running THEN "wait" ELSE "stop"
                /\ UNCHANGED <<app, pipeVars, queueVars, threadVars, batch, received, missed, flagVars>>

(***************************************************************************)
(* What Produce() does first.                                              *)
(***************************************************************************)
Execute == IF DrainFirst /\ app # "app4" THEN "drain" ELSE "consume"

Wait == /\ lpc = "wait"
        /\ \/ P!Readable(M) /\ lpc' = Execute /\ missed' = Elements(queue)
           \/ (~P!Readable(M) \/ ~running) /\ lpc' = "loop" /\ missed' = missed
        /\ UNCHANGED <<app, pipeVars, queueVars, threadVars, batch, received, flagVars>>

(***************************************************************************)
(* The loops of app5, app6 and app10: take an element, or see none and     *)
(* stop.  app10 asks was_empty() and then waits in pop() for an element    *)
(* whose slot is taken and not stored to.                                  *)
(***************************************************************************)
TakeOne == /\ lpc = "drain" /\ app \in {"app5", "app6", "app10"} /\ queue # << >>
           /\ ~(reserved /\ Len(queue) = 1)
           /\ batch' = Append(batch, Head(queue)) /\ queue' = Tail(queue)
           /\ UNCHANGED <<app, pipeVars, reserved, threadVars, lpc, received, missed, flagVars>>

SeeEmpty == /\ lpc = "drain" /\ app \in {"app5", "app6", "app10"} /\ queue = << >>
            /\ lpc' = "drained"
            /\ UNCHANGED <<app, pipeVars, queueVars, threadVars, batch, received, missed, flagVars>>

Swap7 == /\ lpc = "drain" /\ app = "app7"
         /\ batch' = queue /\ queue' = << >>
         /\ lpc' = "drained"
         /\ UNCHANGED <<app, pipeVars, reserved, threadVars, received, missed, flagVars>>

Drained == /\ lpc = "drained"
           /\ lpc' = IF DrainFirst THEN "consume" ELSE "dispatch"
           /\ UNCHANGED <<app, pipeVars, queueVars, threadVars, batch, received, missed, flagVars>>

ConsumeEvent == /\ lpc = "consume"
                /\ IF cpc[M] = "idle" THEN P!ConsumeCheck(M) ELSE P!ConsumeRead(M) \/ P!ConsumeReset(M)
                /\ lpc' = IF cpc'[M] = "idle" THEN (IF DrainFirst THEN "dispatch" ELSE "drain") ELSE "consume"
                /\ UNCHANGED <<app, queueVars, threadVars, batch, received, missed, flagVars>>

Dispatch == /\ lpc = "dispatch"
            /\ IF batch = << >>
               THEN lpc' = "loop" /\ UNCHANGED <<batch, received>>
               ELSE /\ received' = Append(received, Head(batch))
                    /\ batch' = Tail(batch) /\ lpc' = lpc
            /\ UNCHANGED <<app, pipeVars, queueVars, threadVars, missed, flagVars>>

Stop == /\ lpc = "stop"
        /\ mRunning' = FALSE
        /\ lpc' = "join"
        /\ UNCHANGED <<app, pipeVars, queueVars, threadVars, batch, received, missed, running>>

Join == /\ lpc = "join" /\ mpc \in {"new", "exited"}
        /\ lpc' = "ended"
        /\ UNCHANGED <<app, pipeVars, queueVars, threadVars, batch, received, missed, flagVars>>

MainThread == \/ Run \/ CheckRunning \/ Wait \/ TakeOne \/ SeeEmpty \/ Swap7 \/ Drained
              \/ ConsumeEvent \/ Dispatch \/ Stop \/ Join

Ended == lpc = "ended" /\ UNCHANGED vars

Next == ManagerThread \/ MainThread \/ SignalHandler \/ Ended

Spec == Init /\ [][Next]_vars

(***************************************************************************)
(* Both threads are scheduled; no signal need ever come.                   *)
(***************************************************************************)
FairSpec == Spec /\ WF_vars(ManagerThread) /\ WF_vars(MainThread)
-----------------------------------------------------------------------------
(***************************************************************************)
(* The type of every variable; and there is never more than one byte in    *)
(* the pipe, however the threads and the five queues interleave.           *)
(***************************************************************************)
TypeOK == /\ app \in Apps /\ P!TypeOK /\ bytes[M] <= 1
          /\ queue \in Seq(1 .. MaxEvents) /\ reserved \in BOOLEAN
          /\ mpc \in {"new", "top", "add", "store", "count", "drop", "fire", "exited"}
          /\ made \in 0 .. MaxEvents /\ dropped \subseteq 1 .. MaxEvents
          /\ lpc \in {"start", "loop", "wait", "drain", "drained", "consume", "dispatch", "stop", "join", "ended"}
          /\ batch \in Seq(1 .. MaxEvents) /\ received \in Seq(1 .. MaxEvents)
          /\ missed \subseteq 1 .. MaxEvents /\ mRunning \in BOOLEAN /\ running \in BOOLEAN

Waiting == lpc \in {"loop", "wait"} /\ mpc \in {"top", "add", "exited"} /\ queue # << >>

(***************************************************************************)
(* app10 consumes the wake-up before it drains, and so never goes to wait  *)
(* with an event in the queue and no byte in the pipe.                     *)
(***************************************************************************)
NoLostWakeup == Waiting /\ app = "app10" => P!Readable(M)

(***************************************************************************)
(* Where a drain can strand an event (app5, app6, app7), the flag _fired   *)
(* is clear, so that the next Fire() writes a byte and the event is taken  *)
(* with its successor: an event waits for the next one, never for ever.    *)
(***************************************************************************)
StrandedUntilNextFire == Waiting /\ ~P!Readable(M) => ~fired[M]

(***************************************************************************)
(* A drain takes at least what was in the queue when epoll_wait returned.  *)
(***************************************************************************)
DrainTakesAll == lpc = "drained" => missed \cap Elements(queue) = {}

(***************************************************************************)
(* Every event created is in one place (received, the list, the queue,     *)
(* dropped, or the thread's hands), and the order of creation is kept.     *)
(***************************************************************************)
Pipeline == received \o batch \o queue

EachEventOnce == /\ \A i, j \in 1 .. Len(Pipeline) : i < j => Pipeline[i] < Pipeline[j]
                 /\ app # "app4" => 1 .. made = Elements(Pipeline) \cup dropped
                                                \cup (IF mpc \in {"add", "drop"} THEN {made} ELSE {})
                 /\ dropped \cap Elements(Pipeline) = {}

(***************************************************************************)
(* IManager.h says of the descriptor that "the Manager will notify about   *)
(* events" on it: an event that waits in the queue is signalled there.     *)
(***************************************************************************)
NotifiedOnSource == Waiting => P!Readable(M)

(***************************************************************************)
(* After a signal the loop leaves, Stop() joins the thread wherever it is, *)
(* and the program ends: neither Fire(), nor Consume(), nor app10's pop()  *)
(* on a slot not yet stored to waits for ever.                             *)
(***************************************************************************)
ShutsDown == ~running ~> lpc = "ended"
=============================================================================
