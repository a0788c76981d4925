----------------------------- MODULE SPSCQueue -----------------------------
(***************************************************************************)
(* SPSCQueue/include/rigtorp/SPSCQueue.h: the ring buffer between a        *)
(* manager's thread (the writer) and the main loop (the reader) in app11   *)
(* and app12.                                                              *)
(*                                                                         *)
(* Each access to memory the other thread uses is a step.  The indices are *)
(* stored with release and loaded with acquire order, so a load need not   *)
(* return the newest value: visW is the oldest value of writeIdx_ that a   *)
(* load by the reader may still return, visR the oldest value of readIdx_  *)
(* that a load by the writer may still return.  A load returns a value     *)
(* from there on and, by coherence, none older afterwards.                 *)
(***************************************************************************)
EXTENDS Integers

CONSTANTS Values,     \* the elements
          None,       \* a slot that holds no object
          Capacity,   \* the constructor's argument
          Extra,      \* elements allocate_at_least() grants beyond the request
          SIZE_MAX, kPadding

(***************************************************************************)
(* Capacity = SIZE_MAX is left out: capacity_++ would wrap to 0 before the *)
(* constructor's overflow check sees it.                                   *)
(***************************************************************************)
ASSUME QueueAssumption == /\ SIZE_MAX \in Nat /\ kPadding \in Nat /\ Extra \in Nat
                          /\ SIZE_MAX - 2 * kPadding >= 2
                          /\ Capacity \in 0 .. SIZE_MAX - 1
                          /\ None \notin Values

VARIABLES writeIdx, readIdxCache,   \* members of the writer's cache lines
          readIdx, writeIdxCache,   \* members of the reader's cache lines
          visW, visR,               \* visibility of writeIdx_ and readIdx_, see above
          slots,                    \* the objects in slots_, without the padding
          wpc, wop, wval,           \* the writer: step, operation, its argument
          rpc, taken,               \* the reader: step, the element it took last
          phase                     \* of the queue object itself

writerVars == <<writeIdx, readIdxCache, wpc, wop, wval>>
readerVars == <<readIdx, writeIdxCache, rpc, taken>>
vars == <<writerVars, readerVars, visW, visR, slots, phase>>

(***************************************************************************)
(* The constructor's computation of capacity_, one more than the elements  *)
(* the queue can hold.                                                     *)
(***************************************************************************)
capacity_ == LET wanted == (IF Capacity < 1 THEN 1 ELSE Capacity) + 1
                 limit  == SIZE_MAX - 2 * kPadding
             IN  (IF wanted > limit THEN limit ELSE wanted) + Extra

Idx == 0 .. capacity_ - 1

NextIdx(i) == IF i + 1 = capacity_ THEN 0 ELSE i + 1

(***************************************************************************)
(* How many steps index a has to make to become b, and the values it takes *)
(* on the way, both ends included.                                         *)
(***************************************************************************)
Dist(a, b) == IF a <= b THEN b - a ELSE b - a + capacity_

Between(a, b) == {i \in Idx : Dist(a, i) <= Dist(a, b)}

Init == /\ writeIdx = 0 /\ readIdxCache = 0
        /\ readIdx = 0 /\ writeIdxCache = 0
        /\ visW = 0 /\ visR = 0
        /\ slots = [i \in Idx |-> None]
        /\ wpc = "idle" /\ wop = "try_emplace" /\ wval = None
        /\ rpc = "idle" /\ taken = None
        /\ phase = "alive"
-----------------------------------------------------------------------------
(***************************************************************************)
(* Faulty variants of the steps below, used to see that the properties     *)
(* notice them: no check for a full queue, no second check, a refresh that *)
(* does not update the cache, a front() that never looks at writeIdx_, a   *)
(* pop() that does not destroy the object.                                 *)
(***************************************************************************)
EnterUnchecked(op, v) == /\ phase = "alive" /\ wpc = "idle"
                         /\ wop' = op /\ wval' = v
                         /\ wpc' = "construct"
                         /\ UNCHANGED <<writeIdx, readIdxCache, readerVars, visW, visR, slots, phase>>

LoadReadIdxOnce == /\ wpc = "load"
                   /\ wpc' = IF wop = "try_emplace" THEN "idle" ELSE "load"
                   /\ UNCHANGED <<writeIdx, readIdxCache, wop, wval, readerVars, visW, visR, slots, phase>>

LoadReadIdxUnchecked == /\ wpc = "load"
                        /\ \E r \in Between(visR, readIdx) : visR' = r /\ readIdxCache' = r
                        /\ wpc' = "construct"
                        /\ UNCHANGED <<writeIdx, wop, wval, readerVars, visW, slots, phase>>

FrontUnchecked == /\ phase # "freed" /\ rpc = "idle"
                  /\ rpc' = "holding"
                  /\ UNCHANGED <<writerVars, readIdx, writeIdxCache, taken, visW, visR, slots, phase>>

PopWithoutDestructor == /\ rpc = "holding"
                        /\ taken' = slots[readIdx]
                        /\ rpc' = "store"
                        /\ UNCHANGED <<writerVars, readIdx, writeIdxCache, visW, visR, slots, phase>>
-----------------------------------------------------------------------------
(***************************************************************************)
(* emplace() and try_emplace(), also behind push() and try_push(): compute *)
(* the next index and compare it with the cached copy of readIdx_.         *)
(***************************************************************************)
Enter(op, v) == /\ phase = "alive" /\ wpc = "idle"
                /\ wop' = op /\ wval' = v
                /\ wpc' = IF NextIdx(writeIdx) = readIdxCache THEN "load" ELSE "construct"
                /\ UNCHANGED <<writeIdx, readIdxCache, readerVars, visW, visR, slots, phase>>

(***************************************************************************)
(* The queue looked full: refresh the cache.  If it still looks full,      *)
(* try_emplace() returns false and emplace() loads again.                  *)
(***************************************************************************)
LoadReadIdx == /\ wpc = "load"
               /\ \E r \in Between(visR, readIdx) :
                    /\ visR' = r
                    /\ readIdxCache' = r
                    /\ wpc' = CASE NextIdx(writeIdx) # r -> "construct"
                                [] NextIdx(writeIdx) = r /\ wop = "emplace" -> "load"
                                [] NextIdx(writeIdx) = r /\ wop = "try_emplace" -> "idle"
               /\ UNCHANGED <<writeIdx, wop, wval, readerVars, visW, slots, phase>>

Construct == /\ wpc = "construct"
             /\ slots' = [slots EXCEPT ![writeIdx] = wval]
             /\ wpc' = "publish"
             /\ UNCHANGED <<writeIdx, readIdxCache, wop, wval, readerVars, visW, visR, phase>>

Publish == /\ wpc = "publish"
           /\ writeIdx' = NextIdx(writeIdx)
           /\ wpc' = "idle"
           /\ UNCHANGED <<readIdxCache, wop, wval, readerVars, visW, visR, slots, phase>>
-----------------------------------------------------------------------------
(***************************************************************************)
(* empty() by the reader: w is what it loads from writeIdx_.               *)
(***************************************************************************)
Empty(w) == /\ phase # "freed" /\ rpc \in {"idle", "holding"}
            /\ w \in Between(visW, writeIdx)
            /\ visW' = w
            /\ UNCHANGED <<writerVars, readerVars, visR, slots, phase>>

(***************************************************************************)
(* front() returns a pointer at once if the cached copy of writeIdx_ says  *)
(* there is an element; otherwise it refreshes the cache and returns       *)
(* nullptr (the reader stays idle) if there is still none.                 *)
(***************************************************************************)
FrontCached == /\ phase # "freed" /\ rpc = "idle"
               /\ readIdx # writeIdxCache
               /\ rpc' = "holding"
               /\ UNCHANGED <<writerVars, readIdx, writeIdxCache, taken, visW, visR, slots, phase>>

FrontLoad == /\ phase # "freed" /\ rpc = "idle"
             /\ readIdx = writeIdxCache
             /\ \E w \in Between(visW, writeIdx) :
                  /\ visW' = w
                  /\ writeIdxCache' = w
                  /\ rpc' = IF w = readIdx THEN "idle" ELSE "holding"
             /\ UNCHANGED <<writerVars, readIdx, taken, visR, slots, phase>>

(***************************************************************************)
(* The reader moves the element out of *front() and calls pop(), which     *)
(* destroys the object in the slot and then gives the slot back.           *)
(***************************************************************************)
PopDestroy == /\ rpc = "holding"
              /\ taken' = slots[readIdx]
              /\ slots' = [slots EXCEPT ![readIdx] = None]
              /\ rpc' = "store"
              /\ UNCHANGED <<writerVars, readIdx, writeIdxCache, visW, visR, phase>>

PopStore == /\ rpc = "store"
            /\ readIdx' = NextIdx(readIdx)
            /\ rpc' = "idle"
            /\ UNCHANGED <<writerVars, writeIdxCache, taken, visW, visR, slots, phase>>
-----------------------------------------------------------------------------
(***************************************************************************)
(* A store becomes visible to every later load: it reached memory.         *)
(***************************************************************************)
WriteIdxSettles == /\ visW # writeIdx
                   /\ visW' = writeIdx
                   /\ UNCHANGED <<writerVars, readerVars, visR, slots, phase>>

ReadIdxSettles == /\ visR # readIdx
                  /\ visR' = readIdx
                  /\ UNCHANGED <<writerVars, readerVars, visW, slots, phase>>

(***************************************************************************)
(* ~SPSCQueue(), called when both threads are done and everything they     *)
(* wrote is visible: front() and pop() until front() returns nullptr, then *)
(* deallocate().                                                           *)
(***************************************************************************)
Destroy == /\ phase = "alive"
           /\ wpc = "idle" /\ rpc \in {"idle", "holding"}
           /\ phase' = "draining"
           /\ rpc' = "idle"
           /\ visW' = writeIdx /\ visR' = readIdx
           /\ UNCHANGED <<writerVars, readIdx, writeIdxCache, taken, slots>>

Deallocate == /\ phase = "draining" /\ rpc = "idle"
              /\ readIdx = writeIdxCache /\ visW = readIdx
              /\ phase' = "freed"
              /\ UNCHANGED <<writerVars, readerVars, visW, visR, slots>>
-----------------------------------------------------------------------------
Write == \/ \E v \in Values : Enter("try_emplace", v) \/ Enter("emplace", v)
         \/ LoadReadIdx \/ Construct \/ Publish

Read == \/ \E w \in Idx : Empty(w)
        \/ FrontCached \/ FrontLoad \/ PopDestroy \/ PopStore

Next == Write \/ Read \/ WriteIdxSettles \/ ReadIdxSettles \/ Destroy \/ Deallocate

Spec == Init /\ [][Next]_vars

(***************************************************************************)
(* Stores become visible in finite time, a writer inside emplace() keeps   *)
(* running and a reader keeps polling until the queue is destroyed.        *)
(***************************************************************************)
FairSpec == /\ Spec
            /\ WF_vars(WriteIdxSettles) /\ WF_vars(ReadIdxSettles)
            /\ WF_vars(LoadReadIdx) /\ WF_vars(Construct) /\ WF_vars(Publish)
            /\ WF_vars(FrontCached) /\ WF_vars(FrontLoad)
            /\ WF_vars(PopDestroy) /\ WF_vars(PopStore) /\ WF_vars(Deallocate)
-----------------------------------------------------------------------------
TypeOK == /\ writeIdx \in Idx /\ readIdxCache \in Idx /\ visW \in Idx
          /\ readIdx \in Idx /\ writeIdxCache \in Idx /\ visR \in Idx
          /\ slots \in [Idx -> Values \cup {None}]
          /\ wpc \in {"idle", "load", "construct", "publish"}
          /\ wop \in {"try_emplace", "emplace"} /\ wval \in Values \cup {None}
          /\ rpc \in {"idle", "holding", "store"} /\ taken \in Values \cup {None}
          /\ phase \in {"alive", "draining", "freed"}

(***************************************************************************)
(* The two threads are never at the same slot: while the writer constructs *)
(* in a slot, that slot holds no object and the reader has not just got a  *)
(* pointer to it or is still inside the pop() that vacates it.             *)
(***************************************************************************)
NoSlotRace == wpc = "construct" => /\ slots[writeIdx] = None
                                   /\ rpc \in {"holding", "store"} => readIdx # writeIdx

(***************************************************************************)
(* A pointer that front() returned is to an element whose publication the  *)
(* reader has acquired.  The assert in pop() therefore holds whichever     *)
(* value its load of writeIdx_ returns.                                    *)
(***************************************************************************)
PopAssert == rpc = "holding" => /\ readIdx \notin Between(visW, writeIdx)
                                /\ slots[readIdx] \in Values

(***************************************************************************)
(* When slots_ is deallocated every object in it has been destroyed.       *)
(***************************************************************************)
NothingLeaks == phase = "freed" => \A i \in Idx : slots[i] = None

(***************************************************************************)
(* Stale indices and cached indices notwithstanding, the queue is a FIFO   *)
(* that holds at most capacity() elements: an element is put in when       *)
(* writeIdx_ is stored and taken out when its slot is vacated.             *)
(***************************************************************************)
Vacated == IF rpc = "store" THEN 1 ELSE 0

Elements == [k \in 1 .. Dist(readIdx, writeIdx) - Vacated |->
               slots[LET i == readIdx + Vacated + k - 1
                     IN  IF i < capacity_ THEN i ELSE i - capacity_]]

Fifo == INSTANCE BoundedFifo WITH queue <- Elements, Bound <- capacity_ - 1

ImplementsFifo == Fifo!Spec

(***************************************************************************)
(* emplace() spins while the queue is full; it gets its slot because the   *)
(* reader keeps emptying the queue.                                        *)
(***************************************************************************)
EmplaceReturns == wpc = "load" ~> wpc = "idle"
=============================================================================
