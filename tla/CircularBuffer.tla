--------------------------- MODULE CircularBuffer ---------------------------
(***************************************************************************)
(* readerwriterqueue/readerwritercircularbuffer.h: a ring for one producer *)
(* and one consumer.  Who may touch which slot is decided by two           *)
(* semaphores alone: slots_ counts free slots (the producer waits, the     *)
(* consumer signals), items counts elements (the other way round).         *)
(* Semaphore by semaphore the steps are those of SpscSemaphore.            *)
(*                                                                         *)
(* nextSlot and nextItem are size_t; their wrap-round is a multiple of the *)
(* ring's size and changes nothing, so they are plain numbers here.        *)
(***************************************************************************)
EXTENDS Integers, Sequences

CONSTANTS maxcap,       \* the capacity asked for, not a power of two in general
          MaxItems      \* bound: elements enqueued in a behaviour

(***************************************************************************)
(* What is assumed of powers of two is true of all of them.                *)
(***************************************************************************)
PowersOf2 == {2 ^ i : i \in 0 .. maxcap}
CapacityAssumption == /\ maxcap \in Nat \ {0} /\ MaxItems \in Nat
                      /\ PowersOf2 \subseteq Nat /\ \E p \in PowersOf2 : p >= maxcap

VARIABLES count, kernel, spc, wpc, timeout, given, granted,   \* slots_ and items
          data, nextSlot, nextItem,
          ppc, cpc,     \* the producer and the consumer
          last,         \* the element dequeued last
          peeked        \* what peek() pointed at, until it is dequeued

semaVars == <<count, kernel, spc, wpc, timeout, given, granted>>
ringVars == <<data, nextSlot, nextItem, last, peeked>>
vars == <<semaVars, ringVars, ppc, cpc>>

S == INSTANCE SpscSemaphore WITH Semas <- {"slots", "items"}, MaxSignals <- MaxItems,
                                 InitialCount <- [s \in {"slots", "items"} |-> IF s = "slots" THEN maxcap ELSE 0]

None == 0

(***************************************************************************)
(* The ring has the next power of two of slots; mask + 1 is its size.      *)
(* RingTooSmall is a faulty variant that rounds down.                      *)
(***************************************************************************)
RingTooSmall == CHOOSE p \in PowersOf2 : p <= maxcap /\ \A q \in PowersOf2 : q <= maxcap => q <= p
RingSize == CHOOSE p \in PowersOf2 : p >= maxcap /\ \A q \in PowersOf2 : q >= maxcap => q >= p

Slot(i) == i % RingSize

Init == /\ S!Init
        /\ data = [i \in 0 .. RingSize - 1 |-> None]
        /\ nextSlot = 0 /\ nextItem = 0 /\ last = None /\ peeked = None
        /\ ppc = "idle" /\ cpc = "idle"
-----------------------------------------------------------------------------
(***************************************************************************)
(* try_enqueue(), wait_enqueue() and wait_enqueue_timed(): wait for a slot *)
(* and, unless that failed, inner_enqueue().  (wait_enqueue() repeats a    *)
(* failed wait; without a timeout none fails.)                             *)
(***************************************************************************)
Enqueue(t) == /\ ppc = "idle" /\ nextSlot < MaxItems
              /\ S!TryWait("slots", t)
              /\ ppc' = "acquire"
              /\ UNCHANGED <<ringVars, cpc>>

AcquireSlot == /\ ppc = "acquire"
               /\ S!Waiter("slots")
               /\ ppc' = CASE wpc["slots"] = "got" -> "construct"
                           [] wpc["slots"] = "failed" -> "idle"
                           [] OTHER -> "acquire"
               /\ UNCHANGED <<ringVars, cpc>>

ConstructItem == /\ ppc = "construct"
                 /\ data' = [data EXCEPT ![Slot(nextSlot)] = nextSlot + 1]
                 /\ nextSlot' = nextSlot + 1
                 /\ ppc' = "signal"
                 /\ UNCHANGED <<semaVars, nextItem, last, peeked, cpc>>

SignalItem == /\ ppc \in {"signal", "post"}
              /\ IF ppc = "signal" THEN S!Signal("items") ELSE S!Post("items")
              /\ ppc' = IF spc'["items"] = "post" THEN "post" ELSE "idle"
              /\ UNCHANGED <<ringVars, cpc>>

(***************************************************************************)
(* try_dequeue() and try_pop(), wait_dequeue() and wait_dequeue_timed().   *)
(***************************************************************************)
Dequeue(t) == /\ cpc = "idle"
              /\ S!TryWait("items", t)
              /\ cpc' = "acquire"
              /\ UNCHANGED <<ringVars, ppc>>

AcquireItem == /\ cpc = "acquire"
               /\ S!Waiter("items")
               /\ cpc' = CASE wpc["items"] = "got" -> "remove"
                           [] wpc["items"] = "failed" -> "idle"
                           [] OTHER -> "acquire"
               /\ UNCHANGED <<ringVars, ppc>>

RemoveItem == /\ cpc = "remove"
              /\ last' = data[Slot(nextItem)] /\ peeked' = None
              /\ data' = [data EXCEPT ![Slot(nextItem)] = None]
              /\ nextItem' = nextItem + 1
              /\ cpc' = "signal"
              /\ UNCHANGED <<semaVars, nextSlot, ppc>>

SignalSlot == /\ cpc \in {"signal", "post"}
              /\ IF cpc = "signal" THEN S!Signal("slots") ELSE S!Post("slots")
              /\ cpc' = IF spc'["slots"] = "post" THEN "post" ELSE "idle"
              /\ UNCHANGED <<ringVars, ppc>>

(***************************************************************************)
(* peek(): a pointer to the next element, -1 standing for one to a slot    *)
(* where there is none.                                                    *)
(***************************************************************************)
Peek == /\ cpc = "idle" /\ S!availableApprox("items") > 0
        /\ peeked' = IF data[Slot(nextItem)] = None THEN -1 ELSE data[Slot(nextItem)]
        /\ UNCHANGED <<semaVars, data, nextSlot, nextItem, last, ppc, cpc>>

(***************************************************************************)
(* The destructor, when both threads are done: destroys as many elements   *)
(* as items says and frees the ring.                                       *)
(***************************************************************************)
Destroy == /\ ppc = "idle" /\ cpc = "idle"
           /\ data' = [i \in DOMAIN data |-> IF \E k \in 0 .. S!availableApprox("items") - 1 : Slot(nextItem + k) = i
                                             THEN None ELSE data[i]]
           /\ ppc' = "freed" /\ cpc' = "freed"
           /\ UNCHANGED <<semaVars, nextSlot, nextItem, last, peeked>>

Freed == ppc = "freed" /\ UNCHANGED vars
-----------------------------------------------------------------------------
Timeouts == {"try", "none", "zero", "some"}

Producer == AcquireSlot \/ ConstructItem \/ SignalItem
Consumer == AcquireItem \/ RemoveItem \/ SignalSlot

Next == \/ \E t \in Timeouts : Enqueue(t) \/ Dequeue(t)
        \/ AcquireSlot \/ ConstructItem \/ SignalItem
        \/ AcquireItem \/ RemoveItem \/ SignalSlot
        \/ Peek \/ Destroy \/ Freed

Spec == Init /\ [][Next]_vars

(***************************************************************************)
(* A thread inside an operation keeps running, and the consumer keeps      *)
(* calling wait_dequeue() while there is something to come.                *)
(***************************************************************************)
FairSpec == Spec /\ WF_vars(Producer) /\ WF_vars(Consumer) /\ WF_vars(Dequeue("none"))
-----------------------------------------------------------------------------
TypeOK == /\ S!TypeOK
          /\ data \in [0 .. RingSize - 1 -> 0 .. MaxItems] /\ nextSlot \in 0 .. MaxItems /\ nextItem \in 0 .. nextSlot
          /\ ppc \in {"idle", "acquire", "construct", "signal", "post", "freed"}
          /\ cpc \in {"idle", "acquire", "remove", "signal", "post", "freed"}

(***************************************************************************)
(* The semaphores keep the threads apart: the producer constructs in an    *)
(* empty slot and the consumer takes an element that is there, though      *)
(* neither looks at the other's index.                                     *)
(***************************************************************************)
NoSlotRace == /\ ppc = "construct" => data[Slot(nextSlot)] = None
              /\ cpc = "remove" => data[Slot(nextItem)] # None

(***************************************************************************)
(* The ring, with the semaphores at every step of theirs, is a FIFO of at  *)
(* most maxcap elements, which is fewer than it has slots.                 *)
(***************************************************************************)
Contents == [i \in 1 .. nextSlot - nextItem |-> data[Slot(nextItem + i - 1)]]

Fifo == INSTANCE BoundedFifo WITH Values <- 1 .. MaxItems, None <- None, Bound <- maxcap,
                                  queue <- Contents, taken <- last

ImplementsFifo == Fifo!Init /\ [][Fifo!Next \/ ppc' = "freed"]_<<Contents, last>>

(***************************************************************************)
(* peek() points at the element that is dequeued next.                     *)
(***************************************************************************)
PeekIsNext == peeked # None => peeked = nextItem + 1

(***************************************************************************)
(* Free slots and elements are the whole capacity whenever no thread is    *)
(* inside an operation, and then size_approx() is exact.                   *)
(***************************************************************************)
CapacityConserved == ppc = "idle" /\ cpc = "idle" => /\ count["slots"] + count["items"] = maxcap
                                                     /\ S!availableApprox("items") = nextSlot - nextItem

(***************************************************************************)
(* The destructor destroys every element left.                             *)
(***************************************************************************)
NothingLeaks == ppc = "freed" => \A i \in DOMAIN data : data[i] = None

(***************************************************************************)
(* A wait_enqueue() on a full ring returns, and every element is dequeued, *)
(* if the consumer goes on waiting for elements (and nobody frees it).     *)
(***************************************************************************)
Progress == /\ ppc = "acquire" ~> ppc # "acquire"
            /\ \A i \in 1 .. MaxItems : nextSlot = i ~> nextItem >= i \/ ppc = "freed"
=============================================================================
