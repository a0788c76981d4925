---------------------- MODULE BlockingConcurrentQueue ----------------------
(***************************************************************************)
(* concurrentqueue/blockingconcurrentqueue.h: a ConcurrentQueue "inner"    *)
(* and a LightweightSemaphore "sema" that counts its items.  A producer    *)
(* enqueues and then signals; a consumer waits first, and once it has been *)
(* granted k units it repeats inner.try_dequeue_bulk() until it has k      *)
(* items, with no way out: the units must never promise more than inner    *)
(* holds.                                                                  *)
(*                                                                         *)
(* inner is the set of its items: enqueueing fails at will (allocation,    *)
(* MAX_SUBQUEUE_SIZE), and a dequeue finds some of the items or none (it   *)
(* fails when every producer "appeared empty" in turn).                    *)
(***************************************************************************)
EXTENDS Integers, FiniteSets, FiniteSetsExt, Functions

CONSTANTS Producers, Consumers,
          MaxItems,       \* bound: items enqueued in a behaviour
          Batch           \* bound: the largest bulk operation

VARIABLES inner,        \* the items in the inner queue
          enqueued,     \* items enqueued so far; the next one's number
          toSignal,     \* toSignal[p]: items p has enqueued and not yet signalled
          taken,        \* taken[c]: the items c's dequeue has found so far
          count, kernel, pc, call, posts, given, granted   \* sema

QueueAssumption == Producers \cap Consumers = {} /\ MaxItems \in Nat /\ Batch \in Nat \ {0}

semaVars == <<count, kernel, pc, call, posts, given, granted>>
vars == <<inner, enqueued, toSignal, taken, semaVars>>

Threads == Producers \cup Consumers
sema == INSTANCE LightweightSemaphore WITH InitialCount <- 0, MaxUnits <- MaxItems

Init == /\ sema!Init
        /\ inner = {} /\ enqueued = 0
        /\ toSignal = [p \in Producers |-> 0]
        /\ taken = [c \in Consumers |-> {}]
-----------------------------------------------------------------------------
(***************************************************************************)
(* enqueue(), try_enqueue() and the bulk forms: only if the inner queue    *)
(* took the items are they signalled.                                      *)
(***************************************************************************)
Enqueue(p, n) == /\ pc[p] = "idle" /\ toSignal[p] = 0 /\ enqueued + n <= MaxItems
                 /\ inner' = inner \cup (enqueued .. enqueued + n - 1)
                 /\ enqueued' = enqueued + n
                 /\ toSignal' = [toSignal EXCEPT ![p] = n]
                 /\ UNCHANGED <<taken, semaVars>>

SignalEnqueued(p) == /\ toSignal[p] > 0
                     /\ sema!Signal(p, toSignal[p])
                     /\ toSignal' = [toSignal EXCEPT ![p] = 0]
                     /\ UNCHANGED <<inner, enqueued, taken>>

(***************************************************************************)
(* try_dequeue[_bulk](), wait_dequeue[_bulk][_timed](): the semaphore's    *)
(* call with the same arguments ...                                        *)
(***************************************************************************)
BeginDequeue(c, max, timeout) == /\ sema!TryWaitMany(c, max, timeout)
                                 /\ UNCHANGED <<inner, enqueued, toSignal, taken>>

SemaStep(t) == sema!Inside(t) /\ UNCHANGED <<inner, enqueued, toSignal, taken>>

(***************************************************************************)
(* ... then dequeue until there are as many items as units ...             *)
(***************************************************************************)
Left(c) == call[c].got - Cardinality(taken[c])

DequeueInner(c) == /\ pc[c] = "done" /\ Left(c) > 0
                   /\ \E found \in SUBSET inner :
                        /\ Cardinality(found) \in 1 .. Left(c)
                        /\ inner' = inner \ found
                        /\ taken' = [taken EXCEPT ![c] = @ \cup found]
                   /\ UNCHANGED <<enqueued, toSignal, semaVars>>

(***************************************************************************)
(* ... and return them.                                                    *)
(***************************************************************************)
ReturnItems(c) == /\ pc[c] = "done" /\ Left(c) = 0
                  /\ sema!Return(c)
                  /\ taken' = [taken EXCEPT ![c] = {}]
                  /\ UNCHANGED <<inner, enqueued, toSignal>>

size_approx == sema!availableApprox
-----------------------------------------------------------------------------
Next == \/ \E p \in Producers : \/ \E n \in 1 .. Batch : Enqueue(p, n)
                                \/ SignalEnqueued(p)
        \/ \E c \in Consumers : \/ \E max \in 1 .. Batch, t \in sema!Timeouts : BeginDequeue(c, max, t)
                                \/ DequeueInner(c) \/ ReturnItems(c)
        \/ \E t \in Threads : SemaStep(t)

Spec == Init /\ [][Next]_vars

(***************************************************************************)
(* Threads inside a call keep running, and the inner queue hands out an    *)
(* item that stays in it after finitely many attempts.                     *)
(***************************************************************************)
FairSpec == /\ Spec
            /\ \A p \in Producers : WF_vars(SignalEnqueued(p))
            /\ \A c \in Consumers : WF_vars(DequeueInner(c)) /\ WF_vars(ReturnItems(c))
            /\ \A t \in Threads : WF_vars(SemaStep(t))
-----------------------------------------------------------------------------
(***************************************************************************)
(* Units and items agree: what inner holds is what producers are about to  *)
(* signal, what is signalled and untaken, and what consumers hold a unit   *)
(* for.  So the loops of the dequeue operations, which have no exit but    *)
(* success, end, and no item is left without a unit that reaches it.       *)
(***************************************************************************)
UnitsMatchItems == Cardinality(inner) = SumFunction(toSignal) + (given - granted)
                                          + SumFunction([c \in Consumers |-> Left(c)])

(***************************************************************************)
(* size_approx() never promises an item that is not there.                 *)
(***************************************************************************)
SizeNeverOver == size_approx <= Cardinality(inner)

(***************************************************************************)
(* A consumer granted its units comes back with its items.                 *)
(***************************************************************************)
DequeueReturns == \A c \in Consumers : pc[c] = "done" ~> pc[c] = "idle"

(***************************************************************************)
(* Nobody sleeps over items: again and again the queue is empty or no      *)
(* consumer is asleep.                                                     *)
(***************************************************************************)
NobodySleepsOverItems == []<>(inner = {} \/ \A c \in Consumers : pc[c] # "sleep")
=============================================================================
