--------------------------- MODULE MCReaderWriter ---------------------------
(***************************************************************************)
(* The queues of readerwriterqueue/ side by side: ReaderWriterQueue,       *)
(* BlockingReaderWriterCircularBuffer and BlockingReaderWriterQueue, the   *)
(* last two with the steps of their semaphores.  A behaviour runs one of   *)
(* them; the others stay as they are at the start.                         *)
(***************************************************************************)
EXTENDS Naturals

CONSTANTS Sizes, MAX_BLOCK_SIZE, MaxBlocks, QueueItems,   \* of ReaderWriterQueue
          maxcap, RingItems,                              \* of CircularBuffer
          BlockingItems                                   \* of BlockingReaderWriterQueue

VARIABLES part,
          size, blk, frontBlock, tailBlock, largestBlockSize, queuePpc, mode, queueCpc, op, sent,
          received, before, room, queuePeeked, refused, walk,
          ringCount, ringKernel, ringSpc, ringWpc, ringTimeout, ringGiven, ringGranted, data,
          nextSlot, nextItem, ringPpc, ringCpc, ringLast, ringPeeked,
          blkCount, blkKernel, blkSpc, blkWpc, blkTimeout, blkGiven, blkGranted, inner, enqueued,
          blkPpc, blkCpc, blkLast, blkPeeked

queueVars == <<size, blk, frontBlock, tailBlock, largestBlockSize, queuePpc, mode, queueCpc, op,
               sent, received, before, room, queuePeeked, refused, walk>>
ringVars == <<ringCount, ringKernel, ringSpc, ringWpc, ringTimeout, ringGiven, ringGranted, data,
              nextSlot, nextItem, ringPpc, ringCpc, ringLast, ringPeeked>>
blockingVars == <<blkCount, blkKernel, blkSpc, blkWpc, blkTimeout, blkGiven, blkGranted, inner,
                  enqueued, blkPpc, blkCpc, blkLast, blkPeeked>>

Queue == INSTANCE ReaderWriterQueue WITH
    MaxItems <- QueueItems, ppc <- queuePpc, cpc <- queueCpc, peeked <- queuePeeked
Ring == INSTANCE CircularBuffer WITH
    MaxItems <- RingItems, count <- ringCount, kernel <- ringKernel, spc <- ringSpc,
    wpc <- ringWpc, timeout <- ringTimeout, given <- ringGiven, granted <- ringGranted,
    ppc <- ringPpc, cpc <- ringCpc, last <- ringLast, peeked <- ringPeeked
Blocking == INSTANCE BlockingReaderWriterQueue WITH
    MaxItems <- BlockingItems, count <- blkCount, kernel <- blkKernel, spc <- blkSpc, wpc <- blkWpc,
    timeout <- blkTimeout, given <- blkGiven, granted <- blkGranted, ppc <- blkPpc, cpc <- blkCpc,
    last <- blkLast, peeked <- blkPeeked

ASSUME PartsAssumption == Queue!SizeAssumption /\ Ring!CapacityAssumption
                          /\ Ring!S!CountAssumption /\ Blocking!sema!CountAssumption

Init == /\ part \in {"queue", "ring", "blocking"}
        /\ Queue!Init /\ Ring!Init /\ Blocking!Init
        /\ part # "queue" => size = CHOOSE n \in Sizes : TRUE

vars == <<part, queueVars, ringVars, blockingVars>>

ListOfBlocks == part = "queue" /\ Queue!Next /\ UNCHANGED <<part, ringVars, blockingVars>>
CircularBuffer == part = "ring" /\ Ring!Next /\ UNCHANGED <<part, queueVars, blockingVars>>
BlockingQueue == part = "blocking" /\ Blocking!Next /\ UNCHANGED <<part, queueVars, ringVars>>

(***************************************************************************)
(* The bound on elements is reached, or a wait has nothing to come.        *)
(***************************************************************************)
Rest == part \in {"ring", "blocking"} /\ UNCHANGED vars

Next == ListOfBlocks \/ CircularBuffer \/ BlockingQueue \/ Rest

(***************************************************************************)
(* A thread inside an operation keeps running, and the consumer of the     *)
(* ring keeps calling wait_dequeue().                                      *)
(***************************************************************************)
Fairness == /\ WF_ringVars(part = "ring" /\ Ring!Producer)
            /\ WF_ringVars(part = "ring" /\ Ring!Consumer)
            /\ WF_ringVars(part = "ring" /\ Ring!Dequeue("none"))
            /\ WF_blockingVars(part = "blocking" /\ Blocking!SignalItem)
            /\ WF_blockingVars(part = "blocking" /\ Blocking!WaitItem)
            /\ WF_blockingVars(part = "blocking" /\ Blocking!TakeItem)

Spec == Init /\ [][Next]_vars /\ Fairness
-----------------------------------------------------------------------------
(***************************************************************************)
(* ReaderWriterQueue: first in, first out and no thread at the other's     *)
(* slot, in whichever block; no element is missed by a call that reports   *)
(* empty; the asserts hold; as many elements fit without an allocation as  *)
(* the constructor was asked for; peek() shows what comes next;            *)
(* size_approx() lies between the sizes at its ends; nothing leaks.        *)
(***************************************************************************)
QueueRight == part = "queue" => /\ Queue!TypeOK /\ Queue!FifoWithoutSlotRace /\ Queue!EmptyMeansEmpty
                                /\ Queue!AdvanceAsserts /\ Queue!HoldsRequestedSize /\ Queue!PeekIsNext
                                /\ Queue!SizeBetween /\ Queue!NothingLeaks

(***************************************************************************)
(* The circular buffer is a FIFO of at most maxcap elements, although      *)
(* neither thread looks at the other's index: the semaphores keep them     *)
(* apart, and free slots and elements stay the whole capacity.             *)
(***************************************************************************)
RingRight == /\ [](part = "ring" => /\ Ring!TypeOK /\ Ring!NoSlotRace /\ Ring!PeekIsNext
                                     /\ Ring!CapacityConserved /\ Ring!NothingLeaks)
             /\ Ring!ImplementsFifo

(***************************************************************************)
(* The semaphores of both: no unit is taken twice, made up or lost by a    *)
(* timeout that races a signal, the kernel has one exactly when the waiter *)
(* is owed it, and a wait fails only when there was none.  A unit that was *)
(* granted stands for an element that is there, and they come in order.    *)
(***************************************************************************)
SemaphoresRight ==
    /\ [](part = "ring" => Ring!S!CountIsAccurate /\ Ring!S!KernelMatches /\ Ring!S!SignalAssert)
    /\ [](part = "blocking" => /\ Blocking!sema!CountIsAccurate /\ Blocking!sema!KernelMatches
                                /\ Blocking!sema!SignalAssert /\ Blocking!GrantedIsThere)
    /\ Ring!S!FailsOnlyEmpty /\ Blocking!sema!FailsOnlyEmpty /\ Blocking!InOrder

(***************************************************************************)
(* Waits end: of a producer at a full ring, of an element for its          *)
(* consumer, of a consumer asleep while elements are there.                *)
(***************************************************************************)
WaitsEnd == Ring!Progress /\ Blocking!NoElementStranded
=============================================================================
