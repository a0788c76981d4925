--------------------- MODULE BlockingReaderWriterQueue ---------------------
(***************************************************************************)
(* readerwriterqueue.h, BlockingReaderWriterQueue: a ReaderWriterQueue     *)
(* (here the sequence it implements, see ReaderWriterQueue) and an         *)
(* SpscSemaphore counting its elements.  One producer, one consumer.       *)
(***************************************************************************)
EXTENDS Integers, Sequences

CONSTANT MaxItems       \* bound: elements enqueued in a behaviour

VARIABLES count, kernel, spc, wpc, timeout, given, granted,   \* sema
          inner,        \* the elements
          enqueued,     \* how many have been enqueued; the next one's name
          ppc, cpc,     \* the producer and the consumer
          last,         \* history: the element dequeued last
          peeked        \* what the consumer's last call, a peek(), showed; 0 if it was another call

semaVars == <<count, kernel, spc, wpc, timeout, given, granted>>
vars == <<semaVars, inner, enqueued, ppc, cpc, last, peeked>>

sema == INSTANCE SpscSemaphore WITH Semas <- {"items"}, MaxSignals <- MaxItems, InitialCount <- [s \in {"items"} |-> 0]

Init == sema!Init /\ inner = <<>> /\ enqueued = 0 /\ ppc = "idle" /\ cpc = "idle" /\ last = 0 /\ peeked = 0
-----------------------------------------------------------------------------
(***************************************************************************)
(* [try_]enqueue() and [try_]emplace(): if the inner queue takes the       *)
(* element, signal.                                                        *)
(***************************************************************************)
Enqueue == /\ ppc = "idle" /\ enqueued < MaxItems
           /\ inner' = Append(inner, enqueued + 1)
           /\ enqueued' = enqueued + 1
           /\ ppc' = "signal"
           /\ UNCHANGED <<semaVars, cpc, last, peeked>>

SignalItem == /\ ppc \in {"signal", "post"}
              /\ IF ppc = "signal" THEN sema!Signal("items") ELSE sema!Post("items")
              /\ ppc' = IF spc'["items"] = "post" THEN "post" ELSE "idle"
              /\ UNCHANGED <<inner, enqueued, cpc, last, peeked>>

(***************************************************************************)
(* try_dequeue(), pop(), wait_dequeue() and wait_dequeue_timed(): wait as  *)
(* told and, unless that failed, take an element that must be there.       *)
(***************************************************************************)
Dequeue(t) == /\ cpc = "idle"
              /\ sema!TryWait("items", t)
              /\ cpc' = "wait"
              /\ UNCHANGED <<inner, enqueued, ppc, last, peeked>>

WaitItem == /\ cpc = "wait"
            /\ sema!Waiter("items")
            /\ cpc' = CASE wpc["items"] = "got" -> "take"
                        [] wpc["items"] = "failed" -> "idle"
                        [] OTHER -> "wait"
            /\ peeked' = IF cpc' = "idle" THEN 0 ELSE peeked
            /\ UNCHANGED <<inner, enqueued, ppc, last>>

TakeItem == /\ cpc = "take" /\ inner # <<>>
            /\ last' = Head(inner) /\ inner' = Tail(inner)
            /\ cpc' = "idle" /\ peeked' = 0
            /\ UNCHANGED <<semaVars, enqueued, ppc>>

(***************************************************************************)
(* peek(): asks the inner queue and not the semaphore.                     *)
(***************************************************************************)
Peek == /\ cpc = "idle" /\ inner # <<>>
        /\ peeked' = Head(inner)
        /\ UNCHANGED <<semaVars, inner, enqueued, ppc, cpc, last>>

size_approx == sema!availableApprox("items")
-----------------------------------------------------------------------------
Next == \/ Enqueue \/ SignalItem \/ WaitItem \/ TakeItem \/ Peek
        \/ \E t \in {"try", "none", "zero", "some"} : Dequeue(t)

Spec == Init /\ [][Next]_vars

(***************************************************************************)
(* The threads keep running inside their calls.                            *)
(***************************************************************************)
FairSpec == Spec /\ WF_vars(SignalItem) /\ WF_vars(WaitItem) /\ WF_vars(TakeItem)
-----------------------------------------------------------------------------
(***************************************************************************)
(* The assertions of the dequeue operations: a wait that succeeded finds   *)
(* an element, and size_approx() promises no more than there is.           *)
(***************************************************************************)
GrantedIsThere == Len(inner) >= size_approx + IF cpc = "take" \/ wpc["items"] = "got" THEN 1 ELSE 0

(***************************************************************************)
(* While elements are there the consumer is not asleep for ever, and it    *)
(* gets them one by one in order.                                          *)
(***************************************************************************)
NoElementStranded == [](wpc["items"] = "sleep" /\ inner # <<>> => <>(wpc["items"] # "sleep"))
InOrder == [][last' # last => last' = last + 1]_vars
=============================================================================
