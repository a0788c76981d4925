----------------------------- MODULE TxChannel -----------------------------
(***************************************************************************)
(* app11.cpp: one manager and the main loop that serves it.  The manager's *)
(* thread puts events into txQueue (SPSCQueue) and fires txEvent           *)
(* (PipedEvent); the main loop sleeps in epoll_wait until txEvent's pipe   *)
(* is readable and then executes the manager's Produce() and Consume().    *)
(* app12's managers use their queue and their pipe in the same way.        *)
(*                                                                         *)
(* The queue and the pipe are the modules SPSCQueue and PipedEvent, step   *)
(* by step, so this module has every interleaving of the two threads and   *)
(* every stale index load those modules allow.                             *)
(***************************************************************************)
EXTENDS Integers, Sequences

CONSTANTS MaxEvents,      \* bound: events the manager's thread creates
          Capacity, Extra, SIZE_MAX, kPadding, PipeCapacity

(***************************************************************************)
(* What PipedEvent and SPSCQueue, instantiated below, assume.              *)
(***************************************************************************)
ASSUME ChannelAssumption == /\ MaxEvents \in Nat /\ PipeCapacity \in Nat \ {0}
                            /\ SIZE_MAX \in Nat /\ kPadding \in Nat /\ Extra \in Nat
                            /\ SIZE_MAX - 2 * kPadding >= 2
                            /\ Capacity \in 0 .. SIZE_MAX - 1

VARIABLES writeIdx, readIdxCache, readIdx, writeIdxCache, visW, visR, slots,
          wpc, wop, wval, rpc, taken, phase,     \* txQueue
          fired, bytes, fpc, cpc,                \* txEvent
          mpc,          \* the manager's thread
          lpc,          \* the main thread
          mRunning,     \* the manager's _running
          running,      \* main's running, cleared by the signal handler
          made,         \* events created so far; the events are 1 .. made
          batch,        \* the list Produce() builds, then the events not yet consumed
          received,     \* events passed to Consume(), in order
          dropped,      \* events try_emplace() refused
          txCount, rxCount, dropCount   \* the Prometheus counters

queueVars == <<writeIdx, readIdxCache, readIdx, writeIdxCache, visW, visR, slots,
               wpc, wop, wval, rpc, taken, phase>>
pipeVars == <<fired, bytes, fpc, cpc>>
histVars == <<made, batch, received, dropped>>
counterVars == <<txCount, rxCount, dropCount>>
flagVars == <<mRunning, running>>
vars == <<queueVars, pipeVars, mpc, lpc, flagVars, histVars, counterVars>>

M == "ManagerA"

Q == INSTANCE SPSCQueue WITH Values <- 1 .. MaxEvents, None <- 0
P == INSTANCE PipedEvent WITH Pipes <- {M}

Init == /\ Q!Init /\ P!Init
        /\ mpc = "new" /\ lpc = "start"
        /\ mRunning = TRUE /\ running = TRUE
        /\ made = 0 /\ batch = << >> /\ received = << >> /\ dropped = {}
        /\ txCount = 0 /\ rxCount = 0 /\ dropCount = 0
-----------------------------------------------------------------------------
(***************************************************************************)
(* Faulty variants of the steps below, used to see that the properties     *)
(* notice them: a counter update that is no barrier, a Stop() that does    *)
(* not join.                                                               *)
(***************************************************************************)
CountTxRelaxed == /\ mpc = "count"
                  /\ txCount' = txCount + 1
                  /\ mpc' = "fire"
                  /\ UNCHANGED <<queueVars, pipeVars, lpc, flagVars, histVars, rxCount, dropCount>>

JoinWithoutWaiting == /\ lpc = "join"
                      /\ lpc' = "destroy"
                      /\ UNCHANGED <<queueVars, pipeVars, mpc, flagVars, histVars, counterVars>>
-----------------------------------------------------------------------------
(***************************************************************************)
(* The manager's thread: while (_running.load()) _runImpl().               *)
(***************************************************************************)
ThreadExit == /\ mpc = "top" /\ ~mRunning
              /\ mpc' = "exited"
              /\ UNCHANGED <<queueVars, pipeVars, lpc, flagVars, histVars, counterVars>>

(***************************************************************************)
(* _runImpl(): create an event and try_emplace() it.                       *)
(***************************************************************************)
RunImpl == /\ mpc = "top" /\ mRunning
           /\ made < MaxEvents
           /\ made' = made + 1
           /\ Q!Enter("try_emplace", made + 1)
           /\ mpc' = "emplace"
           /\ UNCHANGED <<pipeVars, lpc, flagVars, batch, received, dropped, counterVars>>

TryEmplace == /\ mpc = "emplace"
              /\ Q!LoadReadIdx \/ Q!Construct \/ Q!Publish
              /\ mpc' = CASE wpc = "publish" -> "count"
                          [] wpc = "load" /\ wpc' = "idle" -> "drop"
                          [] OTHER -> "emplace"
              /\ UNCHANGED <<pipeVars, lpc, flagVars, histVars, counterVars>>

(***************************************************************************)
(* IncrementCounter(_eventTxCounter).  The counter is updated by an atomic *)
(* read-modify-write, on x86 a locked instruction and so a full barrier:   *)
(* the store to writeIdx_ before it is visible from here on.  (The C++     *)
(* memory model alone does not promise that.)                              *)
(***************************************************************************)
CountTx == /\ mpc = "count"
           /\ txCount' = txCount + 1
           /\ visW' = writeIdx
           /\ mpc' = "fire"
           /\ UNCHANGED <<writeIdx, readIdxCache, readIdx, writeIdxCache, visR, slots, wpc, wop, wval,
                          rpc, taken, phase, pipeVars, lpc, flagVars, histVars, rxCount, dropCount>>

CountDrop == /\ mpc = "drop"
             /\ dropCount' = dropCount + 1
             /\ dropped' = dropped \cup {made}
             /\ mpc' = "top"
             /\ UNCHANGED <<queueVars, pipeVars, lpc, flagVars, made, batch, received, txCount, rxCount>>

(***************************************************************************)
(* txEvent.Fire().                                                         *)
(***************************************************************************)
Fire == /\ mpc = "fire"
        /\ IF fpc[M] = "idle" THEN P!FireCheck(M) ELSE P!FireStore(M) \/ P!FireWrite(M)
        /\ mpc' = IF fpc'[M] = "idle" THEN "top" ELSE "fire"
        /\ UNCHANGED <<queueVars, lpc, flagVars, histVars, counterVars>>
-----------------------------------------------------------------------------
(***************************************************************************)
(* main(): poller.Add(), which makes M the only watched producer and       *)
(* consumer, then Run(), which registers the counters and starts the       *)
(* thread.                                                                 *)
(***************************************************************************)
Run == /\ lpc = "start"
       /\ mpc' = "top" /\ lpc' = "loop"
       /\ UNCHANGED <<queueVars, pipeVars, flagVars, histVars, counterVars>>

SignalHandler == /\ running
                 /\ running' = FALSE
                 /\ UNCHANGED <<queueVars, pipeVars, mpc, lpc, mRunning, histVars, counterVars>>

CheckRunning == /\ lpc = "loop"
                /\ lpc' = IF running THEN "wait" ELSE "stop"
                /\ UNCHANGED <<queueVars, pipeVars, mpc, flagVars, histVars, counterVars>>

(***************************************************************************)
(* epoll_wait() returns the descriptor if it is readable; if it times out, *)
(* or the signal interrupts it, the loop goes round.                       *)
(***************************************************************************)
Wait == /\ lpc = "wait"
        /\ \/ P!Readable(M) /\ lpc' = "consume"
           \/ (~P!Readable(M) \/ ~running) /\ lpc' = "loop"
        /\ UNCHANGED <<queueVars, pipeVars, mpc, flagVars, histVars, counterVars>>

(***************************************************************************)
(* Execute() calls Produce(): first txEvent.Consume(), then move the       *)
(* elements to the list while the queue is not empty.  Dereferencing a     *)
(* null front() would be the end of the program ("crashed").               *)
(***************************************************************************)
ConsumeEvent == /\ lpc = "consume"
                /\ IF cpc[M] = "idle" THEN P!ConsumeCheck(M) ELSE P!ConsumeRead(M) \/ P!ConsumeReset(M)
                /\ lpc' = IF cpc'[M] = "idle" THEN "drain" ELSE "consume"
                /\ UNCHANGED <<queueVars, mpc, flagVars, histVars, counterVars>>

Drain == /\ lpc = "drain"
         /\ \E w \in Q!Idx : /\ Q!Empty(w)
                             /\ lpc' = IF w = readIdx THEN "dispatch" ELSE "front"
         /\ UNCHANGED <<pipeVars, mpc, flagVars, histVars, counterVars>>

Front == /\ lpc = "front"
         /\ Q!FrontCached \/ Q!FrontLoad
         /\ lpc' = IF rpc' = "holding" THEN "pop" ELSE "crashed"
         /\ UNCHANGED <<pipeVars, mpc, flagVars, histVars, counterVars>>

Pop == /\ lpc = "pop"
       /\ \/ Q!PopDestroy /\ batch' = Append(batch, slots[readIdx]) /\ lpc' = "pop"
          \/ Q!PopStore /\ batch' = batch /\ lpc' = "drain"
       /\ UNCHANGED <<pipeVars, mpc, flagVars, made, received, dropped, counterVars>>

(***************************************************************************)
(* Execute() passes the list to Consume(), event by event.                 *)
(***************************************************************************)
Dispatch == /\ lpc = "dispatch" /\ batch # << >>
            /\ received' = Append(received, Head(batch))
            /\ batch' = Tail(batch)
            /\ rxCount' = rxCount + 1
            /\ UNCHANGED <<queueVars, pipeVars, mpc, lpc, flagVars, made, dropped, txCount, dropCount>>

Dispatched == /\ lpc = "dispatch" /\ batch = << >>
              /\ lpc' = "loop"
              /\ UNCHANGED <<queueVars, pipeVars, mpc, flagVars, histVars, counterVars>>

(***************************************************************************)
(* managerA->Stop(): clear _running, then join the thread if it runs.     *)
(***************************************************************************)
Stop == /\ lpc = "stop"
        /\ mRunning' = FALSE
        /\ lpc' = "join"
        /\ UNCHANGED <<queueVars, pipeVars, mpc, running, histVars, counterVars>>

Join == /\ lpc = "join" /\ mpc \in {"new", "exited"}
        /\ lpc' = "destroy"
        /\ UNCHANGED <<queueVars, pipeVars, mpc, flagVars, histVars, counterVars>>

(***************************************************************************)
(* ~ManagerA() destroys the queue and what is left in it.                  *)
(***************************************************************************)
Destroy == /\ lpc = "destroy"
           /\ \/ Q!Destroy \/ Q!Deallocate
              \/ phase = "draining" /\ (Q!FrontCached \/ Q!FrontLoad \/ Q!PopDestroy \/ Q!PopStore)
           /\ lpc' = IF phase' = "freed" THEN "ended" ELSE "destroy"
           /\ UNCHANGED <<pipeVars, mpc, flagVars, histVars, counterVars>>

Settle == /\ Q!WriteIdxSettles \/ Q!ReadIdxSettles
          /\ UNCHANGED <<pipeVars, mpc, lpc, flagVars, histVars, counterVars>>
-----------------------------------------------------------------------------
ManagerThread == RunImpl \/ TryEmplace \/ CountTx \/ CountDrop \/ Fire \/ ThreadExit

MainThread == \/ Run \/ CheckRunning \/ Wait \/ ConsumeEvent \/ Drain \/ Front \/ Pop
              \/ Dispatch \/ Dispatched \/ Stop \/ Join \/ Destroy

Ended == lpc = "ended" /\ UNCHANGED vars

Next == ManagerThread \/ MainThread \/ Settle \/ SignalHandler \/ Ended

Spec == Init /\ [][Next]_vars

(***************************************************************************)
(* Both threads are scheduled and stores become visible; no signal need    *)
(* ever come.                                                              *)
(***************************************************************************)
FairSpec == Spec /\ WF_vars(ManagerThread) /\ WF_vars(MainThread) /\ WF_vars(Settle)
-----------------------------------------------------------------------------
Threads == /\ mpc \in {"new", "top", "emplace", "count", "fire", "drop", "exited"}
           /\ lpc \in {"start", "loop", "wait", "consume", "drain", "front", "pop", "dispatch",
                       "stop", "join", "destroy", "ended"}

(***************************************************************************)
(* Both components keep their types when driven by the two threads, and    *)
(* the main loop never dereferences a null front(): "crashed" is not a     *)
(* place it can be at.                                                     *)
(***************************************************************************)
TypeOK == /\ Q!TypeOK /\ P!TypeOK /\ Threads
          /\ mRunning \in BOOLEAN /\ running \in BOOLEAN
          /\ made \in 0 .. MaxEvents /\ dropped \in SUBSET (1 .. MaxEvents)
          /\ batch \in Seq(1 .. MaxEvents) /\ received \in Seq(1 .. MaxEvents)
          /\ txCount \in Nat /\ rxCount \in Nat /\ dropCount \in Nat

(***************************************************************************)
(* No lost wake-up.  Whenever the main loop is about to sleep and the      *)
(* manager's thread is not on its way from a publication to the end of     *)
(* Fire(), events in the queue mean a byte in the pipe.                    *)
(***************************************************************************)
NoLostWakeup == /\ lpc \in {"loop", "wait"}
                /\ mpc \notin {"count", "fire"}
                /\ writeIdx # readIdx
                => P!Readable(M)

(***************************************************************************)
(* Every event created is in exactly one place: received, in the batch, in *)
(* the queue, dropped, or still in the hands of the manager's thread; and  *)
(* received, batch and queue together are in the order of creation.        *)
(***************************************************************************)
Pipeline == received \o batch \o Q!Elements

EachEventOnce ==
  /\ \A i, j \in 1 .. Len(Pipeline) : i < j => Pipeline[i] < Pipeline[j]
  /\ LET passed == {Pipeline[i] : i \in 1 .. Len(Pipeline)}
         inHand == IF mpc \in {"emplace", "drop"} THEN {made} ELSE {}
     IN  /\ phase = "alive" => 1 .. made = passed \cup dropped \cup inHand
         /\ dropped \cap passed = {} /\ inHand \cap (passed \cup dropped) = {}

(***************************************************************************)
(* The counters a scrape sees: eventRx is ahead of eventTx by at most the  *)
(* one event whose publication is not counted yet, and once the thread has *)
(* ended eventTx and eventTxDropped account for every event.               *)
(***************************************************************************)
CountersAgree == /\ rxCount <= txCount + (IF mpc = "count" THEN 1 ELSE 0)
                 /\ mpc = "exited" => txCount + dropCount = made

(***************************************************************************)
(* app11 keeps what the queue asks of its user: it only calls pop() on an  *)
(* element front() returned, the threads never meet in a slot, and the     *)
(* queue is destroyed, with everything left in it, when no thread uses it. *)
(***************************************************************************)
QueueContract == /\ Q!NoSlotRace /\ Q!PopAssert /\ Q!NothingLeaks
                 /\ phase # "alive" => mpc = "exited"

(***************************************************************************)
(* The three together: no event is lost, duplicated or overtaken, whether  *)
(* one looks at the queue, at the counters or at the events themselves.    *)
(***************************************************************************)
EventsAccounted == TypeOK /\ EachEventOnce /\ CountersAgree /\ QueueContract

(***************************************************************************)
(* An event that was accepted is received, or the program is told to stop. *)
(***************************************************************************)
Delivered == \A e \in 1 .. MaxEvents :
               (mpc = "count" /\ made = e) ~> (~running \/ \E i \in DOMAIN received : received[i] = e)

(***************************************************************************)
(* After a signal the main loop leaves, Stop() joins the manager's thread, *)
(* wherever that was, and the program ends.                                *)
(***************************************************************************)
ShutsDown == ~running ~> lpc = "ended"

(***************************************************************************)
(* What app11 owes its user: accepted events arrive, signals end it.       *)
(***************************************************************************)
Served == Delivered /\ ShutsDown
=============================================================================
