--------------------------- MODULE TryLockManager ---------------------------
(***************************************************************************)
(* app8.cpp: a manager with two lists, each behind a mutex that both sides *)
(* only try to lock.  The thread puts an event into the first list whose   *)
(* mutex it gets and drops it if it gets neither; Produce() takes the      *)
(* second list or else the first, then consumes the wake-up.               *)
(*                                                                         *)
(* In Produce() "try_lock() && !empty()" leaves the mutex locked when the  *)
(* list is empty.  main() then owns it for good; its next try_lock() on it *)
(* (undefined by the standard) returns false in the build's pthreads.      *)
(***************************************************************************)
EXTENDS Integers, Sequences, Functions

CONSTANTS MaxEvents,     \* bound: events the thread creates
          PipeCapacity

TryLockAssumption == MaxEvents \in Nat

VARIABLES fired, bytes, fpc, cpc,   \* txEvent
          mutex,      \* mutex[i]: "free", or who holds txMutex1, txMutex2
          list,       \* list[i]: txQueue1, txQueue2; the events are 1 .. made
          mpc, mRunning, made, dropped,   \* the manager's thread, as in TxChannel
          lpc, running, batch, received   \* main(), as in TxChannel

pipeVars == <<fired, bytes, fpc, cpc>>
listVars == <<mutex, list>>
threadVars == <<mpc, made, dropped>>
mainVars == <<lpc, batch, received>>
flagVars == <<mRunning, running>>
vars == <<pipeVars, listVars, threadVars, mainVars, flagVars>>

M == "ManagerA"
P == INSTANCE PipedEvent WITH Pipes <- {M}

Init == /\ P!Init
        /\ mutex = <<"free", "free">> /\ list = <<<< >>, << >>>>
        /\ mpc = "new" /\ mRunning = TRUE /\ made = 0 /\ dropped = {}
        /\ lpc = "start" /\ running = TRUE /\ batch = << >> /\ received = << >>
-----------------------------------------------------------------------------
(***************************************************************************)
(* The manager's thread.  _runImpl() creates an event and tries txMutex1,  *)
(* then txMutex2.  The counters it increments are made, dropped and their  *)
(* difference.                                                             *)
(***************************************************************************)
ThreadExit == /\ mpc = "top" /\ ~mRunning
              /\ mpc' = "exited"
              /\ UNCHANGED <<pipeVars, listVars, made, dropped, mainVars, flagVars>>

RunImpl == /\ mpc = "top" /\ mRunning /\ made < MaxEvents
           /\ made' = made + 1
           /\ mpc' = "try1"
           /\ UNCHANGED <<pipeVars, listVars, dropped, mainVars, flagVars>>

TryLock(i) == /\ mpc = IF i = 1 THEN "try1" ELSE "try2"
              /\ IF mutex[i] = "free"
                 THEN /\ mutex' = [mutex EXCEPT ![i] = "thread"]
                      /\ mpc' = IF i = 1 THEN "add1" ELSE "add2"
                 ELSE /\ mutex' = mutex
                      /\ mpc' = IF i = 1 THEN "try2" ELSE "drop"
              /\ UNCHANGED <<pipeVars, list, made, dropped, mainVars, flagVars>>

EmplaceUnlock(i) == /\ mpc = IF i = 1 THEN "add1" ELSE "add2"
                    /\ list' = [list EXCEPT ![i] = Append(@, made)]
                    /\ mutex' = [mutex EXCEPT ![i] = "free"]
                    /\ mpc' = "count"
                    /\ UNCHANGED <<pipeVars, made, dropped, mainVars, flagVars>>

CountDrop == /\ mpc = "drop"
             /\ dropped' = dropped \cup {made}
             /\ mpc' = "top"
             /\ UNCHANGED <<pipeVars, listVars, made, mainVars, flagVars>>

CountTx == /\ mpc = "count"
           /\ mpc' = "fire"
           /\ UNCHANGED <<pipeVars, listVars, made, dropped, mainVars, flagVars>>

Fire == /\ mpc = "fire"
        /\ IF fpc[M] = "idle" THEN P!FireCheck(M) ELSE P!FireStore(M) \/ P!FireWrite(M)
        /\ mpc' = IF fpc'[M] = "idle" THEN "top" ELSE "fire"
        /\ UNCHANGED <<listVars, made, dropped, mainVars, flagVars>>

ManagerThread == \/ ThreadExit \/ RunImpl \/ CountDrop \/ CountTx \/ Fire
                 \/ \E i \in 1 .. 2 : TryLock(i) \/ EmplaceUnlock(i)
-----------------------------------------------------------------------------
Run == /\ lpc = "start"
       /\ lpc' = "loop" /\ mpc' = "top"
       /\ UNCHANGED <<pipeVars, listVars, made, dropped, batch, received, flagVars>>

SignalHandler == /\ running
                 /\ running' = FALSE
                 /\ UNCHANGED <<pipeVars, listVars, threadVars, mainVars, mRunning>>

CheckRunning == /\ lpc = "loop"
                /\ lpc' = IF running THEN "wait" ELSE "stop"
                /\ UNCHANGED <<pipeVars, listVars, threadVars, batch, received, flagVars>>

Wait == /\ lpc = "wait"
        /\ \/ P!Readable(M) /\ lpc' = "look2"
           \/ (~P!Readable(M) \/ ~running) /\ lpc' = "loop"
        /\ UNCHANGED <<pipeVars, listVars, threadVars, batch, received, flagVars>>

(***************************************************************************)
(* Produce(): if it gets the mutex of list i and the list is not empty, it *)
(* takes the list and unlocks.  Otherwise it goes on, from list 2 to list  *)
(* 1 and from there to Consume(), with the mutex if it got it.             *)
(***************************************************************************)
Look(i) == /\ lpc = IF i = 2 THEN "look2" ELSE "look1"
           /\ IF mutex[i] = "free"
              THEN /\ mutex' = [mutex EXCEPT ![i] = "main"]
                   /\ lpc' = CASE list[i] # << >> -> (IF i = 2 THEN "swap2" ELSE "swap1")
                               [] list[i] = << >> -> (IF i = 2 THEN "look1" ELSE "consume")
              ELSE /\ mutex' = mutex
                   /\ lpc' = IF i = 2 THEN "look1" ELSE "consume"
           /\ UNCHANGED <<pipeVars, list, threadVars, batch, received, flagVars>>

Swap(i) == /\ lpc = IF i = 2 THEN "swap2" ELSE "swap1"
           /\ batch' = list[i]
           /\ list' = [list EXCEPT ![i] = << >>]
           /\ mutex' = [mutex EXCEPT ![i] = "free"]
           /\ lpc' = "consume"
           /\ UNCHANGED <<pipeVars, threadVars, received, flagVars>>

ConsumeEvent == /\ lpc = "consume"
                /\ IF cpc[M] = "idle" THEN P!ConsumeCheck(M) ELSE P!ConsumeRead(M) \/ P!ConsumeReset(M)
                /\ lpc' = IF cpc'[M] = "idle" THEN "dispatch" ELSE "consume"
                /\ UNCHANGED <<listVars, threadVars, batch, received, flagVars>>

Dispatch == /\ lpc = "dispatch" /\ batch # << >>
            /\ received' = Append(received, Head(batch))
            /\ batch' = Tail(batch)
            /\ UNCHANGED <<pipeVars, listVars, threadVars, lpc, flagVars>>

Dispatched == /\ lpc = "dispatch" /\ batch = << >>
              /\ lpc' = "loop"
              /\ UNCHANGED <<pipeVars, listVars, threadVars, batch, received, flagVars>>

Stop == /\ lpc = "stop"
        /\ mRunning' = FALSE
        /\ lpc' = "join"
        /\ UNCHANGED <<pipeVars, listVars, threadVars, batch, received, running>>

Join == /\ lpc = "join" /\ mpc = "exited"
        /\ lpc' = "ended"
        /\ UNCHANGED <<pipeVars, listVars, threadVars, batch, received, flagVars>>

MainThread == \/ Run \/ CheckRunning \/ Wait \/ ConsumeEvent \/ Dispatch \/ Dispatched \/ Stop \/ Join
              \/ \E i \in 1 .. 2 : Look(i) \/ Swap(i)

Ended == lpc = "ended" /\ UNCHANGED vars

Next == ManagerThread \/ MainThread \/ SignalHandler \/ Ended

Spec == Init /\ [][Next]_vars

FairSpec == Spec /\ WF_vars(ManagerThread) /\ WF_vars(MainThread)
-----------------------------------------------------------------------------
TypeOK == /\ P!TypeOK
          /\ mutex \in [1 .. 2 -> {"free", "thread", "main"}]
          /\ list \in [1 .. 2 -> Seq(1 .. MaxEvents)]
          /\ mpc \in {"new", "top", "try1", "try2", "add1", "add2", "drop", "count", "fire", "exited"}
          /\ lpc \in {"start", "loop", "wait", "look1", "look2", "swap1", "swap2", "consume", "dispatch",
                      "stop", "join", "ended"}
          /\ made \in 0 .. MaxEvents /\ dropped \subseteq 1 .. MaxEvents
          /\ batch \in Seq(1 .. MaxEvents) /\ received \in Seq(1 .. MaxEvents)
          /\ mRunning \in BOOLEAN /\ running \in BOOLEAN

(***************************************************************************)
(* The thread and main() are never at the same list together.              *)
(***************************************************************************)
ListsProtected == ~(mpc = "add1" /\ lpc = "swap1") /\ ~(mpc = "add2" /\ lpc = "swap2")

(***************************************************************************)
(* The second list is never used.  When txMutex1 is taken, the Produce()   *)
(* that took it has passed txMutex2 before, found the list empty and kept  *)
(* the mutex: the event the second list is there for is dropped.           *)
(***************************************************************************)
SpareListUnused == list[2] = << >> /\ (mutex[1] = "main" => mutex[2] = "main")

(***************************************************************************)
(* Every event is received, in the batch, in the list, dropped or in the   *)
(* thread's hands, and the order of creation is kept.                      *)
(***************************************************************************)
Pipeline == received \o batch \o list[2] \o list[1]

EachEventOnce ==
  /\ \A i, j \in DOMAIN Pipeline : i < j => Pipeline[i] < Pipeline[j]
  /\ Range(Pipeline) = (1 .. made) \ (dropped \cup (IF mpc \in {"try1", "try2", "add1", "add2", "drop"}
                                                    THEN {made} ELSE {}))

(***************************************************************************)
(* What try_lock() does achieve: no list has two users, no event is lost,  *)
(* duplicated or overtaken without being counted as dropped.  It achieves  *)
(* this by never using the second list.                                    *)
(***************************************************************************)
ListsRight == TypeOK /\ ListsProtected /\ SpareListUnused /\ EachEventOnce

(***************************************************************************)
(* Once main() has left Produce() with txMutex1 the manager is deaf: no    *)
(* later event gets into the lists, and none that is there gets out.       *)
(***************************************************************************)
DeafOnceLeaked == [][mutex[1] = "main" /\ lpc \notin {"look1", "swap1"} => UNCHANGED list]_vars

(***************************************************************************)
(* After a signal main() ends, whatever mutexes it holds.                  *)
(***************************************************************************)
ShutsDown == ~running ~> lpc = "ended"

(***************************************************************************)
(* Deaf or not, app8 ends when told to, and only a manager that still has  *)
(* its mutexes moves events.                                               *)
(***************************************************************************)
Served == DeafOnceLeaked /\ ShutsDown

(***************************************************************************)
(* The help text of the eventTxDropped counter: events are dropped "due to *)
(* full queue".  At the least, an event that is going to be dropped, for   *)
(* it finds both mutexes taken while main() waits for events, should find  *)
(* something queued.                                                       *)
(***************************************************************************)
DroppedDueToFullQueue == /\ mpc = "try1" /\ lpc = "wait"
                         /\ \A i \in 1 .. 2 : mutex[i] # "free"
                         => list # <<<< >>, << >>>>
=============================================================================
