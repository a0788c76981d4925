-------------------------- MODULE ImplicitProducer --------------------------
(***************************************************************************)
(* concurrentqueue/concurrentqueue.h: ImplicitProducer, the sub-queue of a *)
(* thread that enqueues without a token.  Every block comes from the free  *)
(* list and goes back to it when its last element was dequeued.  The block *)
(* index is a ring of pointers to (key, value) entries; a full ring is     *)
(* replaced by one of twice the size with the same entries and as many new *)
(* ones.                                                                   *)
(*                                                                         *)
(* enqueue() is enqueue_bulk() with count = 1.  An element is named by its *)
(* index.  Taking a block is one step here; BlockPool has it in detail.    *)
(* GrowShifted is a faulty variant of Grown.                               *)
(***************************************************************************)
EXTENDS IndexGrants, Sequences, FiniteSets, SequencesExt

CONSTANTS Consumers,
          BLOCK_SIZE,
          IndexSize,          \* IMPLICIT_INITIAL_INDEX_SIZE
          MAX_SUBQUEUE_SIZE,  \* 2^Width - 1: no limit
          MaxBlocks,          \* bound: blocks in the queue's pools
          Faults              \* what may happen: "fail" (an allocation fails), "throw" (a constructor throws)

BlockAssumption == /\ BLOCK_SIZE \in Nat \ {0, 1} /\ IndexSize \in Nat \ {0, 1}
                          /\ 2 ^ Width % BLOCK_SIZE = 0 /\ Start % (BLOCK_SIZE * IndexSize) = 0
                          /\ Faults \subseteq {"fail", "throw"}

VARIABLES prod,        \* where the producer is, its local variables, and the chain of blocks it took
          tailBlock,
          elem,        \* elem[b][i]: the element in slot i of block b
          dequeued,    \* dequeued[b]: elementsCompletelyDequeued
          free,        \* the blocks on the free list or not yet handed out
          entry,       \* the block index entries, by address
          header,      \* the block index headers, the newest last: blockIndex points there
          con          \* con[c]: its n indices from "first" on, the next to read, header, tail, slot and block

producer == <<prod, tailBlock, elem, dequeued, free, entry, header>>
vars == <<tail, head, producer, con>>

NULL == 0
NoElement == -1
INVALID_BLOCK_BASE == 1
Blocks == 1 .. MaxBlocks
Offsets == 0 .. BLOCK_SIZE - 1
Base(i) == (i \div BLOCK_SIZE) * BLOCK_SIZE
Newest == header[Len(header)]
EntryAt(h, i) == entry[header[h].ring[i]]

ProdIdle == [pc |-> "idle", n |-> 0, base |-> 0, chain |-> <<>>]
Idle == [pc |-> "idle", first |-> 0, n |-> 0, cur |-> 0, h |-> 0, tail |-> 0, slot |-> 0, block |-> NULL]
At(c, l) == con[c].pc = l
Set(c, r) == con' = [con EXCEPT ![c] = r]
FreshEntry == [key |-> INVALID_BLOCK_BASE, value |-> NULL]

(***************************************************************************)
(* At the start the producer is new (and its first index may be missing),  *)
(* or it has gone round its index until its indices were at Start.         *)
(***************************************************************************)
InitProducer ==
    /\ prod = ProdIdle /\ free = Blocks
    /\ tailBlock = IF Start = 0 THEN NULL ELSE 1
    /\ elem = [b \in Blocks |-> [i \in Offsets |-> NoElement]]
    /\ dequeued = [b \in Blocks |-> BLOCK_SIZE]
    /\ con = [c \in Consumers |-> Idle]
    /\ \/ /\ entry = [e \in 1 .. IndexSize |->
                        IF Start = 0 THEN FreshEntry
                        ELSE [key |-> Wrap(Start - BLOCK_SIZE * (IndexSize - e + 1)), value |-> NULL]]
          /\ header = <<[size |-> IndexSize, tail |-> IndexSize - 1, ring |-> [i \in 0 .. IndexSize - 1 |-> i + 1]]>>
       \/ Start = 0 /\ "fail" \in Faults /\ entry = <<>> /\ header = <<>>

ImplicitInit == Init /\ InitProducer
-----------------------------------------------------------------------------
(***************************************************************************)
(* The entry for index i, counted from the base of the entry at "tail".    *)
(***************************************************************************)
Signed(x) == IF x >= 2 ^ (Width - 1) THEN x - 2 ^ Width ELSE x
Quotient(x, y) == IF x >= 0 THEN x \div y ELSE -((-x) \div y)
SlotFor(i, h, tl) == LET offset == Quotient(Signed(Wrap(Base(Wrap(i)) - EntryAt(h, tl).key)), BLOCK_SIZE)
                     IN  (tl + offset) % header[h].size

SetTail(tl) == [header EXCEPT ![Len(header)].tail = tl % Newest.size]

(***************************************************************************)
(* What a failed enqueue takes back: the entries of its blocks, the tail   *)
(* of the index (also for "more" entries without a block), the blocks.     *)
(***************************************************************************)
Undo(more) ==
    LET n == Len(prod.chain)
        gone == IF header = <<>> THEN {} ELSE {Newest.ring[(Newest.tail - i) % Newest.size] : i \in 0 .. n + more - 1}
    IN  /\ header' = IF header = <<>> THEN header ELSE SetTail(Newest.tail - (n + more))
        /\ entry' = [e \in DOMAIN entry |-> IF e \in gone THEN [entry[e] EXCEPT !.value = NULL] ELSE entry[e]]
        /\ free' = free \cup Range(prod.chain)
        /\ prod' = ProdIdle


Needs == prod.base < Base(tail + prod.n - 1)
Next1 == prod.base + BLOCK_SIZE
Full == \/ ~circular_less_than(head, Next1 + BLOCK_SIZE)
        \/ /\ MAX_SUBQUEUE_SIZE # 2 ^ Width - 1
           /\ MAX_SUBQUEUE_SIZE = 0 \/ MAX_SUBQUEUE_SIZE - BLOCK_SIZE < Wrap(Next1 - head)
-----------------------------------------------------------------------------
(***************************************************************************)
(* enqueue() and enqueue_bulk() of n elements.                             *)
(***************************************************************************)
Enqueue(n) == /\ prod.pc = "idle" /\ tail + n <= Start + MaxEnqueue
              /\ prod' = [ProdIdle EXCEPT !.pc = "insert", !.n = n, !.base = Base(tail - 1)]
              /\ UNCHANGED <<tail, head, tailBlock, elem, dequeued, free, entry, header, con>>

(***************************************************************************)
(* insert_block_index_entry(): the slot behind the tail, if it was never   *)
(* used or its block is gone.  The value follows with the block.           *)
(***************************************************************************)
Slot == Newest.ring[(Newest.tail + 1) % Newest.size]
SlotFree == entry[Slot].key = INVALID_BLOCK_BASE \/ entry[Slot].value = NULL

Insert == /\ prod.pc = "insert" /\ Needs /\ ~Full /\ header # <<>>
          /\ SlotFree
          /\ entry' = [entry EXCEPT ![Slot].key = Wrap(Next1)]
          /\ header' = SetTail(Newest.tail + 1)
          /\ prod' = [prod EXCEPT !.pc = "block"]
          /\ UNCHANGED <<tail, head, tailBlock, elem, dequeued, free, con>>

(***************************************************************************)
(* new_block_index(): the old ring from its oldest entry on, then the same *)
(* number of new entries.                                                  *)
(***************************************************************************)
GrownWith(from) ==
    LET old == Newest
    IN  /\ entry' = [e \in 1 .. Len(entry) + old.size |-> IF e <= Len(entry) THEN entry[e] ELSE FreshEntry]
        /\ header' = Append(header, [size |-> 2 * old.size, tail |-> old.size - 1,
                                     ring |-> [i \in 0 .. 2 * old.size - 1 |->
                                                 IF i < old.size THEN old.ring[(from + i) % old.size]
                                                 ELSE Len(entry) + i - old.size + 1]])
GrowShifted == GrownWith(0)
Grown == GrownWith(Newest.tail + 1)

Grow == /\ prod.pc = "insert" /\ Needs /\ ~Full /\ header # <<>> /\ ~SlotFree
        /\ Grown
        /\ UNCHANGED <<tail, head, prod, tailBlock, elem, dequeued, free, con>>

InsertFails == /\ prod.pc = "insert" /\ Needs
               /\ Full \/ header = <<>> \/ (header # <<>> /\ "fail" \in Faults /\ ~SlotFree)
               /\ Undo(0)
               /\ UNCHANGED <<tail, head, tailBlock, elem, dequeued, con>>

(***************************************************************************)
(* requisition_block() for the entry just inserted.                        *)
(***************************************************************************)
TakeBlock(b) == /\ prod.pc = "block" /\ b \in free
                /\ free' = free \ {b}
                /\ dequeued' = [dequeued EXCEPT ![b] = 0]
                /\ entry' = [entry EXCEPT ![Newest.ring[Newest.tail]].value = b]
                /\ prod' = [prod EXCEPT !.pc = "insert", !.base = Next1, !.chain = Append(@, b)]
                /\ UNCHANGED <<tail, head, tailBlock, elem, header, con>>

NoBlock == /\ prod.pc = "block" /\ (free = {} \/ "fail" \in Faults)
           /\ Undo(1)
           /\ UNCHANGED <<tail, head, tailBlock, elem, dequeued, con>>

(***************************************************************************)
(* Construct the elements, in the old tail block first unless it is full;  *)
(* a constructor may throw, and then all is undone.  Publish them.         *)
(***************************************************************************)
BlockOf(i) == LET k == (Base(i) - Base(tail)) \div BLOCK_SIZE
              IN  IF tail % BLOCK_SIZE = 0 THEN prod.chain[k + 1] ELSE IF k = 0 THEN tailBlock ELSE prod.chain[k]

Fill == /\ prod.pc = "insert" /\ ~Needs
        /\ elem' = [b \in Blocks |-> [o \in Offsets |->
                      LET mine == {i \in tail .. tail + prod.n - 1 : BlockOf(i) = b /\ i % BLOCK_SIZE = o}
                      IN  IF mine = {} THEN elem[b][o] ELSE CHOOSE i \in mine : TRUE]]
        /\ tailBlock' = BlockOf(tail + prod.n - 1)
        /\ prod' = [prod EXCEPT !.pc = "tail"]
        /\ UNCHANGED <<tail, head, dequeued, free, entry, header, con>>

Throw == /\ prod.pc = "insert" /\ ~Needs /\ "throw" \in Faults
         /\ Undo(0)
         /\ UNCHANGED <<tail, head, tailBlock, elem, dequeued, con>>

PublishTail == /\ prod.pc = "tail"
               /\ Publish(prod.n)
               /\ prod' = ProdIdle
               /\ UNCHANGED <<tailBlock, elem, dequeued, free, entry, header, con>>
-----------------------------------------------------------------------------
(***************************************************************************)
(* A consumer that has its indices: get_block_index_index_for_index().     *)
(***************************************************************************)
TakeIndex(c, n) == /\ At(c, "idle") /\ Take(n)
                   /\ Set(c, [Idle EXCEPT !.pc = "find", !.first = head, !.n = n, !.cur = head])
                   /\ UNCHANGED producer

LoadHeader(c) == /\ At(c, "find")
                 /\ Set(c, [con[c] EXCEPT !.pc = "tail", !.h = Len(header)])
                 /\ UNCHANGED <<tail, head, producer>>

LoadTail(c) == /\ At(c, "tail")
               /\ Set(c, [con[c] EXCEPT !.pc = "locate", !.tail = header[con[c].h].tail])
               /\ UNCHANGED <<tail, head, producer>>

Locate(c) == /\ At(c, "locate")
             /\ Set(c, [con[c] EXCEPT !.pc = "read", !.slot = SlotFor(con[c].first, con[c].h, con[c].tail)])
             /\ UNCHANGED <<tail, head, producer>>

(***************************************************************************)
(* Block by block: move the elements out and destroy them (also when an    *)
(* assignment throws) and count them; who counts the last one takes the    *)
(* block out of the index and gives it back.                               *)
(***************************************************************************)
Stop(c) == Less(con[c].first + con[c].n, Base(con[c].cur) + BLOCK_SIZE)
Span(c) == con[c].cur .. Stop(c) - 1
MyEntry(c) == EntryAt(con[c].h, con[c].slot)
Onward(c) == IF Stop(c) = con[c].first + con[c].n THEN Idle
             ELSE [con[c] EXCEPT !.pc = "read", !.cur = Stop(c), !.block = NULL, !.slot = (@ + 1) % header[con[c].h].size]

Read(c) == LET b == MyEntry(c).value
           IN  /\ At(c, "read")
               /\ elem' = [elem EXCEPT ![b] = [o \in Offsets |-> IF \E i \in Span(c) : i % BLOCK_SIZE = o THEN NoElement ELSE @[o]]]
               /\ Set(c, [con[c] EXCEPT !.pc = "mark", !.block = b])
               /\ UNCHANGED <<tail, head, prod, tailBlock, dequeued, free, entry, header>>

Counts(c, n) == LET b == con[c].block
                IN  /\ At(c, "mark")
                    /\ dequeued' = [dequeued EXCEPT ![b] = @ + n]
                    /\ Set(c, IF dequeued[b] + n = BLOCK_SIZE THEN [con[c] EXCEPT !.pc = "release"] ELSE Onward(c))
                    /\ UNCHANGED <<tail, head, prod, tailBlock, elem, free, entry, header>>
Mark(c) == Counts(c, Cardinality(Span(c)))

Release(c) == /\ At(c, "release")
              /\ entry' = [entry EXCEPT ![header[con[c].h].ring[con[c].slot]].value = NULL]
              /\ free' = free \cup {con[c].block}
              /\ Set(c, Onward(c))
              /\ UNCHANGED <<tail, head, prod, tailBlock, elem, dequeued, header>>
-----------------------------------------------------------------------------
Produce == \/ Insert \/ Grow \/ InsertFails \/ NoBlock \/ Fill \/ Throw \/ PublishTail
           \/ \E b \in Blocks : TakeBlock(b)
Consume(c) == LoadHeader(c) \/ LoadTail(c) \/ Locate(c) \/ Read(c) \/ Mark(c) \/ Release(c)

ImplicitNext == \/ Produce
                \/ \E n \in 1 .. MaxBulk : Enqueue(n)
                \/ \E c \in Consumers : Consume(c) \/ \E n \in 1 .. MaxBulk : TakeIndex(c, n)

ImplicitSpec == ImplicitInit /\ [][ImplicitNext]_vars
-----------------------------------------------------------------------------
(***************************************************************************)
(* A consumer's way through the block index leads to the block with its    *)
(* element, although entries are reused, the ring is replaced and a failed *)
(* enqueue moves its tail back: the entry has the block's base, and the    *)
(* block was not given back.  Its assertions are part of it.               *)
(***************************************************************************)
ImplicitLookupRight == \A c \in Consumers : At(c, "read") =>
                          /\ MyEntry(c).key = Wrap(Base(con[c].cur))
                          /\ MyEntry(c).value \in Blocks \ free
                          /\ \A i \in Span(c) : elem[MyEntry(c).value][i % BLOCK_SIZE] = i

(***************************************************************************)
(* ~ImplicitProducer(): the elements from head to tail, and the blocks it  *)
(* gives back: one whenever it goes on to the next, and the tail block if  *)
(* there was an element or the tail is inside a block.                     *)
(***************************************************************************)
Found(i) == EntryAt(Len(header), SlotFor(i, Len(header), Newest.tail)).value
Passed == {Found(i) : i \in {i \in head .. tail - 1 : Base(i) # Base(tail - 1)}}
FreesTail == tailBlock # NULL /\ (head # tail \/ tail % BLOCK_SIZE # 0)
FreedBlocks == Passed \cup IF FreesTail THEN {tailBlock} ELSE {}

(***************************************************************************)
(* The destructor, when all are done, destroys the elements in the queue   *)
(* and gives back exactly the blocks the producer has: none leaks and none *)
(* that is on the free list is put there again, after failures too.        *)
(***************************************************************************)
Quiet == prod.pc = "idle" /\ \A c \in Consumers : At(c, "idle")
DestructorRight == Quiet => /\ FreedBlocks = Blocks \ free
                            /\ \A i \in head .. tail - 1 : elem[Found(i)][i % BLOCK_SIZE] = i
                            /\ FreesTail => tailBlock \notin Passed

(***************************************************************************)
(* The limit of the sub-queue holds here, where every block passes the     *)
(* check.                                                                  *)
(***************************************************************************)
ImplicitWithinLimit == tail - head <= MAX_SUBQUEUE_SIZE
=============================================================================
