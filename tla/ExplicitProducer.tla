-------------------------- MODULE ExplicitProducer --------------------------
(***************************************************************************)
(* concurrentqueue/concurrentqueue.h: ExplicitProducer, the sub-queue of a *)
(* ProducerToken.  Its blocks form a circle that the producer goes round,  *)
(* reusing the block ahead when all its elements were dequeued, else       *)
(* inserting a new one.  The block index, a ring of (base, block) entries, *)
(* tells consumers where an index lives; it is replaced by one of twice    *)
(* the size when it is full.                                               *)
(*                                                                         *)
(* enqueue() is enqueue_bulk() with count = 1: the two differ only in the  *)
(* order of writes nobody can see yet.  An element is named by its index.  *)
(*                                                                         *)
(* CopiedInPlace is a faulty variant of CopiedEntries.                     *)
(***************************************************************************)
EXTENDS IndexGrants, Sequences, FiniteSets, FiniteSetsExt

CONSTANTS Consumers,
          BLOCK_SIZE,
          IndexSize,          \* EXPLICIT_INITIAL_INDEX_SIZE
          MAX_SUBQUEUE_SIZE,  \* 2^Width - 1: no limit
          MaxBlocks,          \* bound: blocks the queue can supply
          Faults              \* what may happen: "fail" (an allocation fails), "throw" (a constructor throws)

BlockAssumption == /\ BLOCK_SIZE \in Nat \ {0} /\ IndexSize \in Nat \ {0, 1}
                          /\ 2 ^ Width % BLOCK_SIZE = 0 /\ Start % BLOCK_SIZE = 0
                          /\ Faults \subseteq {"fail", "throw"}

VARIABLES prod,        \* where the producer is in enqueue_bulk(), and its local variables
          tailBlock, next,
          elem,        \* elem[b][i]: the element in slot i of block b
          empty,       \* empty[b]: the slots of b whose emptyFlags are set
          index,       \* the block index headers, the newest last: blockIndex points there
          slotsUsed, prFront, prSize,      \* pr_blockIndexSlotsUsed, ...Front, ...Size
          given,       \* blocks the queue supplied
          halfWay,     \* history: how far calls had got that failed half way
          con          \* con[c]: where c is in dequeue_bulk(): its n indices from "first" on, the next to read,
                       \* its block index header and that one's front, the entry and the block it uses

producer == <<prod, tailBlock, next, elem, empty, index, slotsUsed, prFront, prSize, given, halfWay>>
vars == <<tail, head, producer, con>>

NULL == 0
NoElement == -1
Blocks == 1 .. MaxBlocks
Offsets == 0 .. BLOCK_SIZE - 1
Base(i) == (i \div BLOCK_SIZE) * BLOCK_SIZE
is_empty(b) == empty[b] = Offsets
Newest == index[Len(index)]

ProdIdle == [pc |-> "idle", n |-> 0, block |-> NULL, front |-> 0, used |-> 0, first |-> NULL, base |-> 0,
             ahead |-> "no"]      \* "reused": it took blocks ahead, "copied": and then replaced the index
Idle == [pc |-> "idle", first |-> 0, n |-> 0, cur |-> 0, ix |-> 0, front |-> 0, slot |-> 0, block |-> NULL]
At(c, l) == con[c].pc = l
Set(c, r) == con' = [con EXCEPT ![c] = r]

(***************************************************************************)
(* A new header with the entries from slot "oldest" on copied.             *)
(***************************************************************************)
Header(size, entries, front) == [size |-> size, entries |-> entries, front |-> front]
NoEntry == [base |-> 0, block |-> NULL]
Entry(base, b) == [base |-> Wrap(base), block |-> b]

(***************************************************************************)
(* At the start the producer is new, or it has gone round with one block   *)
(* for so long that its indices are at Start.                              *)
(***************************************************************************)
InitProducer ==
    LET used == IF Start = 0 THEN 0 ELSE 1
        e == [i \in 0 .. IndexSize - 1 |-> IF used = 1 /\ i = 0 THEN Entry(Start - BLOCK_SIZE, 1) ELSE NoEntry]
    IN  /\ prod = ProdIdle /\ given = used /\ slotsUsed = used /\ prFront = used
        /\ tailBlock = used /\ next = [b \in Blocks |-> b]
        /\ elem = [b \in Blocks |-> [i \in Offsets |-> NoElement]]
        /\ empty = [b \in Blocks |-> IF b <= used THEN Offsets ELSE {}]
        /\ \/ index = <<Header(IndexSize, e, used - 1)>> /\ prSize = IndexSize
           \/ used = 0 /\ "fail" \in Faults /\ index = <<>> /\ prSize = IndexSize \div 2
        /\ con = [c \in Consumers |-> Idle] /\ halfWay = {}

ExplicitInit == Init /\ InitProducer
-----------------------------------------------------------------------------
(***************************************************************************)
(* What enqueue_bulk() undoes when it fails: everything but the blocks it  *)
(* put into the circle and what it wrote into the block index.  halfWay    *)
(* remembers what is left of a call that had entered a block:              *)
(*   "inserted"  a block is in the circle, empty and so to be reused, that *)
(*               slotsUsed does not count;                                 *)
(*   "reused"    the oldest entry is that of a block ahead, with the base  *)
(*               it would have had;                                        *)
(*   "copied"    and was copied to before prFront by new_block_index().    *)
(***************************************************************************)
Undo(left) == /\ prFront' = prod.front /\ slotsUsed' = prod.used
              /\ tailBlock' = IF prod.block = NULL THEN prod.first ELSE prod.block
              /\ prod' = ProdIdle
              /\ halfWay' = halfWay \cup left \cup ({prod.ahead} \ {"no"})

(***************************************************************************)
(* Use block b next: enter it in the block index, not yet published.       *)
(***************************************************************************)
Append1(b, ahead) ==
    /\ tailBlock' = b
    /\ index' = [index EXCEPT ![Len(index)].entries[prFront] = Entry(prod.base + BLOCK_SIZE, b)]
    /\ prFront' = (prFront + 1) % prSize
    /\ prod' = [prod EXCEPT !.base = @ + BLOCK_SIZE, !.first = IF @ = NULL THEN b ELSE @, !.ahead = ahead]

LastBase == Base(tail + prod.n - 1)
Needs == prod.base < LastBase             \* blockBaseDiff > 0

(***************************************************************************)
(* No leeway between head and tail, or the size limit is reached.          *)
(***************************************************************************)
Full == LET current == prod.base + BLOCK_SIZE
        IN  \/ ~circular_less_than(head, current + BLOCK_SIZE)
            \/ /\ MAX_SUBQUEUE_SIZE # 2 ^ Width - 1
               /\ MAX_SUBQUEUE_SIZE = 0 \/ MAX_SUBQUEUE_SIZE - BLOCK_SIZE < Wrap(current - head)

-----------------------------------------------------------------------------
(***************************************************************************)
(* enqueue() and enqueue_bulk() of n elements: remember what to go back    *)
(* to, then find the blocks.  The blocks ahead come first, as long as they *)
(* are empty.                                                              *)
(***************************************************************************)
Enqueue(n) == /\ prod.pc = "idle" /\ tail + n <= Start + MaxEnqueue
              /\ prod' = [ProdIdle EXCEPT !.pc = "ahead", !.n = n, !.block = tailBlock, !.front = prFront,
                                          !.used = slotsUsed, !.base = Base(tail - 1)]
              /\ UNCHANGED <<tail, head, con, tailBlock, next, elem, empty, index, slotsUsed, prFront, prSize, given, halfWay>>

Ahead == /\ prod.pc = "ahead" /\ Needs /\ tailBlock # NULL /\ next[tailBlock] # prod.first
         /\ is_empty(next[tailBlock])
         /\ Append1(next[tailBlock], "reused")
         /\ UNCHANGED <<tail, head, con, next, elem, empty, slotsUsed, prSize, given, halfWay>>

NoneAhead == /\ prod.pc = "ahead"
             /\ ~(Needs /\ tailBlock # NULL /\ next[tailBlock] # prod.first /\ is_empty(next[tailBlock]))
             /\ prod' = [prod EXCEPT !.pc = IF Needs THEN "fresh" ELSE "reset"]
             /\ UNCHANGED <<tail, head, con, tailBlock, next, elem, empty, index, slotsUsed, prFront, prSize, given, halfWay>>

(***************************************************************************)
(* No room: the limit is reached, or the index cannot be replaced, or no   *)
(* block can be had.  tryEnqueue, which may not allocate, and a failing    *)
(* malloc() end here.                                                      *)
(***************************************************************************)
Fail == /\ prod.pc = "fresh" /\ Needs /\ (Full \/ "fail" \in Faults \/ given = MaxBlocks)
        /\ Undo(IF slotsUsed > prod.used THEN {"inserted"} ELSE {})
        /\ UNCHANGED <<tail, head, con, next, elem, empty, index, prSize, given>>

(***************************************************************************)
(* new_block_index(): the used entries, oldest first, at the beginning of  *)
(* a ring of twice the size, of which the entries published so far are     *)
(* exposed.                                                                *)
(***************************************************************************)
CopiedInPlace ==
    [j \in 0 .. 2 * prSize - 1 |-> IF j < slotsUsed THEN Newest.entries[j] ELSE NoEntry]

CopiedEntries ==
    [j \in 0 .. 2 * prSize - 1 |->
       IF j < slotsUsed THEN Newest.entries[(prFront - slotsUsed + j) % prSize] ELSE NoEntry]

GrowNeeded == index = <<>> \/ slotsUsed = prSize

Grow == /\ prod.pc = "fresh" /\ Needs /\ ~Full /\ GrowNeeded
        /\ index' = Append(index, Header(2 * prSize, CopiedEntries, prod.used - 1))
        /\ prFront' = slotsUsed /\ prSize' = 2 * prSize
        /\ prod' = [prod EXCEPT !.front = prod.used,
                                !.ahead = IF @ = "reused" THEN "copied" ELSE @]
        /\ UNCHANGED <<tail, head, con, tailBlock, next, elem, empty, slotsUsed, given, halfWay>>

(***************************************************************************)
(* A new block, inserted behind tailBlock.  halfWay remembers if the index *)
(* has fewer entries than there are blocks, which is not noticed when some *)
(* are not counted ("overrun").                                            *)
(***************************************************************************)
Fresh == LET b == given + 1
         IN  /\ prod.pc = "fresh" /\ Needs /\ ~Full /\ ~GrowNeeded /\ given < MaxBlocks
             /\ given' = b /\ slotsUsed' = slotsUsed + 1
             /\ empty' = [empty EXCEPT ![b] = Offsets]
             /\ next' = IF tailBlock = NULL THEN [next EXCEPT ![b] = b]
                        ELSE [next EXCEPT ![b] = next[tailBlock], ![tailBlock] = b]
             /\ Append1(b, prod.ahead)
             /\ halfWay' = halfWay \cup IF "inserted" \in halfWay /\ b > prSize THEN {"overrun"} ELSE {}
             /\ UNCHANGED <<tail, head, con, elem, prSize>>

(***************************************************************************)
(* All blocks are there.  Mark them not empty and publish the front; for   *)
(* elements whose constructor may throw the front is published later.      *)
(***************************************************************************)
Circle(b, n) == LET go[k \in 0 .. MaxBlocks] == IF k = 0 THEN b ELSE next[go[k - 1]] IN go[n]
Run(first, last) == {Circle(first, k) : k \in 0 .. CHOOSE k \in 0 .. MaxBlocks :
                                                     Circle(first, k) = last /\ \A j \in 0 .. k - 1 : Circle(first, j) # last}

Publishes == [index EXCEPT ![Len(index)].front = (prFront - 1) % prSize]

Reset == /\ prod.pc = "reset" \/ (prod.pc = "fresh" /\ ~Needs)
         /\ prod' = [prod EXCEPT !.pc = "fill"]
         /\ IF prod.first = NULL THEN UNCHANGED <<empty, index>>
            ELSE /\ empty' = [b \in Blocks |-> IF b \in Run(prod.first, tailBlock) THEN {} ELSE empty[b]]
                 /\ index' = IF "throw" \in Faults THEN index ELSE Publishes
         /\ UNCHANGED <<tail, head, con, tailBlock, next, elem, slotsUsed, prFront, prSize, given, halfWay>>

(***************************************************************************)
(* The block that takes index i: the elements fill the block that was last *)
(* (unless it is full) and then the new ones.                              *)
(***************************************************************************)
BlockOf(i) == LET start == IF tail % BLOCK_SIZE = 0 THEN prod.first ELSE prod.block
              IN  Circle(start, (Base(i) - Base(tail)) \div BLOCK_SIZE)

Fill == /\ prod.pc = "fill"
        /\ elem' = [b \in Blocks |-> [o \in Offsets |->
                      LET mine == {i \in tail .. tail + prod.n - 1 : BlockOf(i) = b /\ i % BLOCK_SIZE = o}
                      IN  IF mine = {} THEN elem[b][o] ELSE CHOOSE i \in mine : TRUE]]
        /\ index' = IF "throw" \in Faults /\ prod.first # NULL THEN Publishes ELSE index
        /\ prod' = [prod EXCEPT !.pc = "tail"]
        /\ UNCHANGED <<tail, head, con, tailBlock, next, empty, slotsUsed, prFront, prSize, given, halfWay>>

(***************************************************************************)
(* A constructor throws: the elements constructed so far are destroyed.    *)
(***************************************************************************)
Throw == /\ prod.pc = "fill" /\ "throw" \in Faults
         /\ Undo({})
         /\ UNCHANGED <<tail, head, con, next, elem, empty, index, prSize, given>>

PublishTail == /\ prod.pc = "tail"
               /\ Publish(prod.n)
               /\ prod' = ProdIdle
               /\ UNCHANGED <<con, tailBlock, next, elem, empty, index, slotsUsed, prFront, prSize, given, halfWay>>
-----------------------------------------------------------------------------
(***************************************************************************)
(* A consumer that has its indices: the newest block index, its front, and *)
(* from the front's base how many entries before it the own block is.      *)
(***************************************************************************)
TakeIndex(c, n) == /\ At(c, "idle") /\ Take(n)
                   /\ Set(c, [Idle EXCEPT !.pc = "find", !.first = head, !.n = n, !.cur = head])
                   /\ UNCHANGED producer

LoadIndex(c) == /\ At(c, "find")
                /\ Set(c, [con[c] EXCEPT !.pc = "front", !.ix = Len(index)])
                /\ UNCHANGED <<tail, head, producer>>

LoadFront(c) == /\ At(c, "front")
                /\ Set(c, [con[c] EXCEPT !.pc = "locate", !.front = index[con[c].ix].front])
                /\ UNCHANGED <<tail, head, producer>>

Signed(x) == IF x >= 2 ^ (Width - 1) THEN x - 2 ^ Width ELSE x
Quotient(x, y) == IF x >= 0 THEN x \div y ELSE -((-x) \div y)

Locate(c) == LET h == index[con[c].ix]
                 headBase == h.entries[con[c].front].base
                 offset == Quotient(Signed(Wrap(Base(Wrap(con[c].first)) - headBase)), BLOCK_SIZE)
             IN  /\ At(c, "locate")
                 /\ Set(c, [con[c] EXCEPT !.pc = "read", !.slot = (con[c].front + offset) % h.size])
                 /\ UNCHANGED <<tail, head, producer>>

(***************************************************************************)
(* Block by block: move the elements out and destroy them (also when an    *)
(* assignment throws), then mark their slots empty.                        *)
(***************************************************************************)
Stop(c) == Less(con[c].first + con[c].n, Base(con[c].cur) + BLOCK_SIZE)
Span(c) == {i % BLOCK_SIZE : i \in con[c].cur .. Stop(c) - 1}
AfterMark(c) == IF Stop(c) = con[c].first + con[c].n THEN Idle
                ELSE [con[c] EXCEPT !.pc = "read", !.cur = Stop(c), !.block = NULL,
                                    !.slot = (@ + 1) % index[con[c].ix].size]
MyBlock(c) == index[con[c].ix].entries[con[c].slot].block

Read(c) == LET b == MyBlock(c)
           IN  /\ At(c, "read")
               /\ elem' = [elem EXCEPT ![b] = [o \in Offsets |-> IF o \in Span(c) THEN NoElement ELSE @[o]]]
               /\ Set(c, [con[c] EXCEPT !.pc = "mark", !.block = b])
               /\ UNCHANGED <<tail, head, prod, tailBlock, next, empty, index, slotsUsed, prFront, prSize, given, halfWay>>

Mark(c) == /\ At(c, "mark")
           /\ empty' = [empty EXCEPT ![con[c].block] = @ \cup Span(c)]
           /\ Set(c, AfterMark(c))
           /\ UNCHANGED <<tail, head, prod, tailBlock, next, elem, index, slotsUsed, prFront, prSize, given, halfWay>>
-----------------------------------------------------------------------------
Produce == Ahead \/ NoneAhead \/ Fail \/ Grow \/ Fresh \/ Reset \/ Fill \/ Throw \/ PublishTail
Consume(c) == LoadIndex(c) \/ LoadFront(c) \/ Locate(c) \/ Read(c) \/ Mark(c)

ExplicitNext == \/ Produce
                \/ \E n \in 1 .. MaxBulk : Enqueue(n)
                \/ \E c \in Consumers : Consume(c) \/ \E n \in 1 .. MaxBulk : TakeIndex(c, n)

ExplicitSpec == ExplicitInit /\ [][ExplicitNext]_vars
-----------------------------------------------------------------------------
ExplicitTypeOK == /\ tailBlock \in Blocks \cup {NULL} /\ next \in [Blocks -> Blocks]
                  /\ empty \in [Blocks -> SUBSET Offsets]
                  /\ slotsUsed \in 0 .. prSize /\ prFront \in 0 .. prSize - 1 /\ given \in 0 .. MaxBlocks
                  /\ halfWay \subseteq {"inserted", "reused", "copied", "overrun"}

(***************************************************************************)
(* No call that failed half way has left entries of undone blocks among    *)
(* the used ones, or blocks uncounted that by now are too many for the     *)
(* index.                                                                  *)
(***************************************************************************)
IndexIntact == halfWay \cap {"copied", "overrun"} = {}

(***************************************************************************)
(* A consumer's way through the block index, which the producer extends,   *)
(* overwrites and replaces meanwhile, leads to the block with its element: *)
(* constructed, not reused and not taken by another, also where the        *)
(* indices wrap and where calls fail half way, as long as IndexIntact      *)
(* holds: without it a used entry may have been overwritten or undone.     *)
(***************************************************************************)
LookupRight == \A c \in Consumers : At(c, "read") =>
                  /\ MyBlock(c) # NULL
                  /\ \A i \in con[c].cur .. Stop(c) - 1 : elem[MyBlock(c)][i % BLOCK_SIZE] = i

(***************************************************************************)
(* ~ExplicitProducer(): from the block that is half dequeued, if any, on   *)
(* round the circle to the tail block, every slot of a block that is not   *)
(* empty.                                                                  *)
(***************************************************************************)
HalfDequeued ==
    IF head % BLOCK_SIZE = 0 THEN NULL
    ELSE LET from == prFront - slotsUsed
             e(k) == Newest.entries[(from + k) % prSize]
         IN  e(Min({k \in 0 .. prSize : k = prSize \/ ~circular_less_than(e(k).base + BLOCK_SIZE, Wrap(head))})).block
LastValid == IF tail % BLOCK_SIZE = 0 THEN BLOCK_SIZE ELSE tail % BLOCK_SIZE
Destroyed ==
    IF tailBlock = NULL THEN {}
    ELSE UNION {{<<b, o>> : o \in (IF b = HalfDequeued THEN head % BLOCK_SIZE ELSE 0)
                                   .. (IF b = tailBlock THEN LastValid ELSE BLOCK_SIZE) - 1} :
                b \in {b \in Run(next[tailBlock], tailBlock) : ~is_empty(b)}}

(***************************************************************************)
(* The destructor, when all are done, destroys the elements that are in    *)
(* the queue, all of them and nothing else, as long as halfWay is empty:   *)
(* its search for HalfDequeued starts from what slotsUsed counts, and may  *)
(* stop at an entry that a call wrote before it failed.                    *)
(***************************************************************************)
Quiet == prod.pc = "idle" /\ \A c \in Consumers : At(c, "idle")
InQueue == {e \in Blocks \X Offsets : elem[e[1]][e[2]] # NoElement}
DestroysElements == Quiet => Destroyed = InQueue
=============================================================================
