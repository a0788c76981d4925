------------------------- MODULE ReaderWriterQueue -------------------------
(***************************************************************************)
(* readerwriterqueue/readerwriterqueue.h: a queue for one producer and one *)
(* consumer made of ring buffers ("blocks") that are linked in a circle.   *)
(* The producer owns tailBlock and every block's tail and localFront, the  *)
(* consumer frontBlock and every block's front and localTail; each reads   *)
(* the other's without a lock.  A step is one access to a variable of the  *)
(* other side, with the accesses to own variables around it.  The fences   *)
(* order these accesses, so interleaving the steps is what the code does   *)
(* on x86.                                                                 *)
(*                                                                         *)
(* Elements are numbered in the order the producer offers them and         *)
(* refused ones do not use up a number.                                    *)
(***************************************************************************)
EXTENDS Integers, FiniteSets

CONSTANTS Sizes,            \* constructor arguments to look at
          MAX_BLOCK_SIZE,
          MaxBlocks,        \* bound: blocks that malloc() provides before it fails
          MaxItems          \* bound: elements enqueued in a behaviour

(***************************************************************************)
(* The powers of two among which ceilToPow2(x) finds the next one: 2 ^ x   *)
(* is beyond x.                                                            *)
(***************************************************************************)
PowersOf2(x) == {2 ^ i : i \in 0 .. x}
NextPower(x, p) == p >= x /\ \A q \in PowersOf2(x) : q >= x => q >= p

SizeAssumption == /\ MAX_BLOCK_SIZE \in Nat \ {0, 1} /\ Sizes \subseteq Nat
                  /\ MaxBlocks \in Nat /\ MaxItems \in Nat
                  /\ \A n \in Sizes : \E p \in PowersOf2(n + 1) : p \in Nat /\ NextPower(n + 1, p)

VARIABLES size,                       \* the constructor's argument
          blk,                        \* blk[b]: the Block at address b
          frontBlock, tailBlock, largestBlockSize,
          ppc, mode,                  \* the producer's place in inner_enqueue(), canAlloc
          cpc, op,                    \* the consumer's place, and which operation it is in
          sent, received,             \* elements published, and taken out
          before,                     \* history: was an element inside when the operation began?
          room,                       \* history: elements inside when inner_enqueue() began
          peeked,                     \* history: what peek() pointed at, until it is taken
          refused,                    \* history: elements inside when the last try_enqueue() failed
          walk                        \* the thread inside size_approx() and its progress

queueVars == <<size, blk, frontBlock, tailBlock, largestBlockSize>>
producerVars == <<ppc, mode, sent, room, refused>>
consumerVars == <<cpc, op, received, before, peeked>>
vars == <<queueVars, producerVars, consumerVars, walk>>

Blocks == 1 .. MaxBlocks
Null == 0
Items == 1 .. MaxItems
None == 0
Unused == [front |-> 0, localTail |-> 0, tail |-> 0, localFront |-> 0, next |-> Null, size |-> 0,
           data |-> << >>]

(***************************************************************************)
(* ceilToPow2(), and make_block() with its Block constructor.              *)
(***************************************************************************)
ceilToPow2(x) == CHOOSE p \in PowersOf2(x) : p \in Nat /\ NextPower(x, p)

make_block(n) == [Unused EXCEPT !.size = n, !.data = [i \in 0 .. n - 1 |-> None]]

(***************************************************************************)
(* ReaderWriterQueue(size): one block, or several of MAX_BLOCK_SIZE in a   *)
(* circle.                                                                 *)
(***************************************************************************)
InitialBlockCount(n) == (n + MAX_BLOCK_SIZE * 2 - 3) \div (MAX_BLOCK_SIZE - 1)

Construct(n) ==
  LET one == ceilToPow2(n + 1)
      many == one > MAX_BLOCK_SIZE * 2
      count == IF many THEN InitialBlockCount(n) ELSE 1
  IN  /\ count <= MaxBlocks
      /\ largestBlockSize = IF many THEN MAX_BLOCK_SIZE ELSE one
      /\ blk = [b \in Blocks |-> IF b <= count
                                 THEN [make_block(largestBlockSize) EXCEPT !.next = IF b = count THEN 1 ELSE b + 1]
                                 ELSE Unused]

Idle == [who |-> "nobody", first |-> Null, at |-> Null, result |-> 0, begin |-> 0]

Init == /\ size \in Sizes /\ Construct(size)
        /\ frontBlock = 1 /\ tailBlock = 1
        /\ ppc = "idle" /\ mode = "CanAlloc" /\ cpc = "idle" /\ op = "try_dequeue"
        /\ sent = 0 /\ received = 0 /\ before = FALSE /\ room = 0
        /\ peeked = None /\ refused = -1
        /\ walk = Idle

Wrap(b, i) == i % blk[b].size            \* i & sizeMask, the size being a power of two
Held(b) == (blk[b].tail - blk[b].front) % blk[b].size
Allocated == {b \in Blocks : blk[b].size > 0}
TB == blk[tailBlock]
FB == blk[frontBlock]
-----------------------------------------------------------------------------
(***************************************************************************)
(* A faulty variant: a dequeue that does not look at the front block       *)
(* again.                                                                  *)
(***************************************************************************)
RecheckSkipped == /\ cpc = "recheck"
                  /\ cpc' = "advance"
                  /\ UNCHANGED <<queueVars, op, received, before, peeked, producerVars, walk>>
-----------------------------------------------------------------------------
(***************************************************************************)
(* inner_enqueue(), called by try_enqueue() and try_emplace() with         *)
(* CannotAlloc and by enqueue() and emplace() with CanAlloc.               *)
(***************************************************************************)
Enqueue(m) == /\ ppc = "idle" /\ sent < MaxItems
              /\ mode' = m /\ refused' = -1
              /\ room' = IF m = "CannotAlloc" THEN sent - received ELSE 0
              /\ ppc' = "start"
              /\ UNCHANGED <<queueVars, sent, consumerVars, walk>>

(***************************************************************************)
(* Is there room by the cached localFront, or by the block's front?        *)
(***************************************************************************)
CheckRoom == /\ ppc = "start"
             /\ ppc' = IF Wrap(tailBlock, TB.tail + 1) # TB.localFront THEN "place" ELSE "reload"
             /\ UNCHANGED <<queueVars, mode, sent, room, refused, consumerVars, walk>>

ReloadFront == /\ ppc = "reload"
               /\ blk' = [blk EXCEPT ![tailBlock].localFront = TB.front]
               /\ ppc' = IF Wrap(tailBlock, TB.tail + 1) # TB.front THEN "place" ELSE "full"
               /\ UNCHANGED <<size, frontBlock, tailBlock, largestBlockSize, mode, sent, room, refused,
                              consumerVars, walk>>

Place == /\ ppc = "place"
         /\ blk' = [blk EXCEPT ![tailBlock].data[TB.tail] = sent + 1]
         /\ ppc' = "settail"
         /\ UNCHANGED <<size, frontBlock, tailBlock, largestBlockSize, mode, sent, room, refused,
                        consumerVars, walk>>

SetTail == /\ ppc = "settail"
           /\ blk' = [blk EXCEPT ![tailBlock].tail = Wrap(tailBlock, @ + 1)]
           /\ sent' = sent + 1
           /\ ppc' = "idle"
           /\ UNCHANGED <<size, frontBlock, tailBlock, largestBlockSize, mode, room, refused,
                          consumerVars, walk>>

(***************************************************************************)
(* The tail block is full: use the next one unless the consumer is still   *)
(* there, otherwise make one if that is allowed.                           *)
(***************************************************************************)
FindNext == /\ ppc = "full"
            /\ IF TB.next # frontBlock
               THEN ppc' = "advance" /\ UNCHANGED refused
               ELSE IF mode = "CanAlloc"
               THEN ppc' = "grow" /\ UNCHANGED refused
               ELSE ppc' = "idle" /\ refused' = room
            /\ UNCHANGED <<queueVars, mode, sent, room, consumerVars, walk>>

Advance == /\ ppc = "advance"
           /\ LET n == TB.next
              IN  blk' = [blk EXCEPT ![n].localFront = blk[n].front,
                                     ![n].data[blk[n].tail] = sent + 1]
           /\ ppc' = "nexttail"
           /\ UNCHANGED <<size, frontBlock, tailBlock, largestBlockSize, mode, sent, room, refused,
                          consumerVars, walk>>

NextTail == /\ ppc = "nexttail"
            /\ blk' = [blk EXCEPT ![TB.next].tail = Wrap(TB.next, @ + 1)]
            /\ ppc' = "publish"
            /\ UNCHANGED <<size, frontBlock, tailBlock, largestBlockSize, mode, sent, room, refused,
                           consumerVars, walk>>

(***************************************************************************)
(* A new block, twice as large up to MAX_BLOCK_SIZE, or no memory.         *)
(***************************************************************************)
NewBlockSize == IF largestBlockSize >= MAX_BLOCK_SIZE THEN largestBlockSize ELSE largestBlockSize * 2
Fresh == Cardinality(Allocated) + 1

Grow == /\ ppc = "grow"
        /\ IF Fresh > MaxBlocks
           THEN ppc' = "idle" /\ UNCHANGED <<blk, largestBlockSize>>
           ELSE /\ blk' = [blk EXCEPT ![Fresh] = [make_block(NewBlockSize) EXCEPT
                                                    !.data[0] = sent + 1, !.tail = 1, !.localTail = 1,
                                                    !.next = TB.next]]
                /\ largestBlockSize' = NewBlockSize
                /\ ppc' = "link"
        /\ UNCHANGED <<size, frontBlock, tailBlock, mode, sent, room, refused, consumerVars, walk>>

LinkBlock == /\ ppc = "link"
             /\ blk' = [blk EXCEPT ![tailBlock].next = Cardinality(Allocated)]
             /\ ppc' = "publish"
             /\ UNCHANGED <<size, frontBlock, tailBlock, largestBlockSize, mode, sent, room, refused,
                            consumerVars, walk>>

PublishBlock == /\ ppc = "publish"
                /\ tailBlock' = TB.next
                /\ sent' = sent + 1
                /\ ppc' = "idle"
                /\ UNCHANGED <<size, blk, frontBlock, largestBlockSize, mode, room, refused,
                               consumerVars, walk>>
-----------------------------------------------------------------------------
(***************************************************************************)
(* try_dequeue(), peek(), and pop(), which takes the steps of              *)
(* try_dequeue() and hands out no result.                                  *)
(***************************************************************************)
Dequeue(o) == /\ cpc = "idle"
              /\ op' = o /\ before' = (sent > received)
              /\ cpc' = IF FB.front # FB.localTail THEN "take" ELSE "reload"
              /\ UNCHANGED <<queueVars, received, peeked, producerVars, walk>>

TryDequeue == Dequeue("try_dequeue")
Pop == Dequeue("pop")
Peek == Dequeue("peek")

ReloadTail(from) == /\ cpc = from
                    /\ blk' = [blk EXCEPT ![frontBlock].localTail = FB.tail]
                    /\ cpc' = IF FB.front # FB.tail THEN "take"
                              ELSE IF from = "reload" THEN "checktail" ELSE "advance"
                    /\ UNCHANGED <<size, frontBlock, tailBlock, largestBlockSize, op, received, before,
                                   peeked, producerVars, walk>>

FirstReload == ReloadTail("reload")

(***************************************************************************)
(* The block read before tailBlock was: look at it again before leaving.   *)
(***************************************************************************)
SecondReload == ReloadTail("recheck")

CheckTailBlock == /\ cpc = "checktail"
                  /\ cpc' = IF frontBlock # tailBlock THEN "recheck" ELSE "empty"
                  /\ UNCHANGED <<queueVars, op, received, before, peeked, producerVars, walk>>

ReturnEmpty == /\ cpc = "empty"
               /\ cpc' = "idle"
               /\ UNCHANGED <<queueVars, op, received, before, peeked, producerVars, walk>>

(***************************************************************************)
(* The front block is empty and there is one ahead.                        *)
(***************************************************************************)
NextBlock == /\ cpc = "advance" /\ op # "peek"
             /\ blk' = [blk EXCEPT ![FB.next].localTail = blk[FB.next].tail]
             /\ frontBlock' = FB.next
             /\ cpc' = "take"
             /\ UNCHANGED <<size, tailBlock, largestBlockSize, op, received, before, peeked, producerVars, walk>>

Take == /\ cpc = "take" /\ op # "peek"
        /\ blk' = [blk EXCEPT ![frontBlock].data[FB.front] = None]
        /\ peeked' = None
        /\ cpc' = "setfront"
        /\ UNCHANGED <<size, frontBlock, tailBlock, largestBlockSize, op, received, before, producerVars, walk>>

(***************************************************************************)
(* peek() points at the element where it is and moves nothing.             *)
(***************************************************************************)
PeekAt(b) == /\ peeked' = blk[b].data[blk[b].front]
             /\ cpc' = "idle"
             /\ UNCHANGED <<queueVars, op, received, before, producerVars, walk>>

PeekFront == cpc = "take" /\ op = "peek" /\ PeekAt(frontBlock)
PeekNext == cpc = "advance" /\ op = "peek" /\ PeekAt(FB.next)

SetFront == /\ cpc = "setfront"
            /\ blk' = [blk EXCEPT ![frontBlock].front = Wrap(frontBlock, @ + 1)]
            /\ received' = received + 1
            /\ cpc' = "idle"
            /\ UNCHANGED <<size, frontBlock, tailBlock, largestBlockSize, op, before, peeked,
                           producerVars, walk>>
-----------------------------------------------------------------------------
(***************************************************************************)
(* size_approx(), by either thread between its other operations: once      *)
(* round the circle from frontBlock, block by block.                       *)
(***************************************************************************)
WalkBegin(t) == /\ walk = Idle
                /\ IF t = "producer" THEN ppc = "idle" ELSE cpc = "idle"
                /\ walk' = [who |-> t, first |-> frontBlock, at |-> frontBlock, result |-> 0, begin |-> sent - received]
                /\ IF t = "producer" THEN ppc' = "walk" /\ cpc' = cpc ELSE cpc' = "walk" /\ ppc' = ppc
                /\ UNCHANGED <<queueVars, mode, sent, room, refused, op, received, before, peeked>>

WalkStep == /\ walk.who # "nobody" /\ walk.at # Null
            /\ walk' = [walk EXCEPT !.result = @ + Held(walk.at),
                                    !.at = IF blk[@].next = walk.first THEN Null ELSE blk[@].next]
            /\ UNCHANGED <<queueVars, producerVars, consumerVars>>

WalkEnd == /\ walk.who # "nobody" /\ walk.at = Null
           /\ walk' = Idle
           /\ IF walk.who = "producer" THEN ppc' = "idle" /\ cpc' = cpc ELSE cpc' = "idle" /\ ppc' = ppc
           /\ UNCHANGED <<queueVars, mode, sent, room, refused, op, received, before, peeked>>

(***************************************************************************)
(* ~ReaderWriterQueue(): round the circle, destroying what lies between    *)
(* front and tail and freeing the block.  The blocks that it comes to are  *)
(* those in every set that has frontBlock and, with a block, its next one. *)
(***************************************************************************)
Reach == {b \in Blocks : \A S \in SUBSET Blocks :
                            (frontBlock \in S /\ \A c \in S : blk[c].next \in S) => b \in S}

Destroy == /\ ppc = "idle" /\ cpc = "idle"
           /\ blk' = [b \in Blocks |-> IF b \in Reach THEN Unused ELSE blk[b]]
           /\ ppc' = "destroyed" /\ cpc' = "destroyed"
           /\ UNCHANGED <<size, frontBlock, tailBlock, largestBlockSize, mode, sent, room, refused,
                          op, received, before, peeked, walk>>

Destroyed == ppc = "destroyed" /\ UNCHANGED vars

Next == \/ \E m \in {"CanAlloc", "CannotAlloc"} : Enqueue(m)
        \/ CheckRoom \/ ReloadFront \/ Place \/ SetTail \/ FindNext \/ Advance \/ NextTail
        \/ Grow \/ LinkBlock \/ PublishBlock
        \/ TryDequeue \/ Pop \/ Peek
        \/ FirstReload \/ SecondReload \/ CheckTailBlock \/ ReturnEmpty \/ NextBlock \/ Take \/ SetFront
        \/ PeekFront \/ PeekNext
        \/ \E t \in {"producer", "consumer"} : WalkBegin(t)
        \/ WalkStep \/ WalkEnd \/ Destroy \/ Destroyed

Spec == Init /\ [][Next]_vars
-----------------------------------------------------------------------------
TypeOK == /\ size \in Sizes /\ frontBlock \in Blocks /\ tailBlock \in Blocks
          /\ \A b \in Allocated : /\ blk[b].front \in 0 .. blk[b].size - 1 /\ blk[b].tail \in 0 .. blk[b].size - 1
                                  /\ blk[b].data \in [0 .. blk[b].size - 1 -> Items \cup {None}]
                                  /\ blk[b].next \in Allocated \cup {Null}
          /\ sent \in 0 .. MaxItems /\ received \in 0 .. sent
          /\ peeked \in Items \cup {None} /\ refused \in -1 .. MaxItems

(***************************************************************************)
(* The producer never constructs in a slot that holds an element, and what *)
(* the consumer takes is there and is the next one in order, whichever     *)
(* block it found it in.                                                   *)
(***************************************************************************)
FifoWithoutSlotRace ==
  /\ ppc = "place" => TB.data[TB.tail] = None
  /\ ppc = "advance" => blk[TB.next].data[blk[TB.next].tail] = None
  /\ cpc = "take" => FB.data[FB.front] = received + 1
  /\ cpc = "advance" => blk[FB.next].data[blk[FB.next].front] = received + 1

(***************************************************************************)
(* Emptiness is never reported while an element is inside that was         *)
(* published before the call began: the double check of the front block    *)
(* and of tailBlock skips no filled block.                                 *)
(***************************************************************************)
EmptyMeansEmpty == cpc = "empty" => ~before

(***************************************************************************)
(* The asserts of inner_enqueue() and try_dequeue(): a block moved on to   *)
(* by the producer is empty, one moved on to by the consumer is not.       *)
(***************************************************************************)
AdvanceAsserts == /\ ppc = "advance" => blk[TB.next].front = blk[TB.next].tail
                  /\ cpc = "advance" => blk[FB.next].front # blk[FB.next].tail

(***************************************************************************)
(* The constructor's promise: the queue holds size elements without        *)
(* another allocation, so try_enqueue() only fails with as many inside.    *)
(***************************************************************************)
HoldsRequestedSize == refused # -1 => refused >= size

(***************************************************************************)
(* What peek() pointed at is what the next try_dequeue() or pop() takes.   *)
(***************************************************************************)
PeekIsNext == peeked # None => peeked = received + 1

(***************************************************************************)
(* size_approx() lies between the number of elements when it began and     *)
(* when it ended, for both threads, though the other one moves indices and *)
(* inserts blocks while it goes round.                                     *)
(***************************************************************************)
SizeBetween ==
  walk.who # "nobody" /\ walk.at = Null =>
    IF walk.who = "producer"
    THEN walk.result <= walk.begin /\ walk.result >= sent - received
    ELSE walk.result >= walk.begin /\ walk.result <= sent - received + (IF ppc = "publish" THEN 1 ELSE 0)

(***************************************************************************)
(* All blocks stay on the circle, so that the destructor, which only goes  *)
(* round it, destroys every element and frees every block.                 *)
(***************************************************************************)
NothingLeaks == ppc = "destroyed" => Allocated = {}
=============================================================================
