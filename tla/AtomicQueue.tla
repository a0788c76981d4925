----------------------------- MODULE AtomicQueue -----------------------------
(***************************************************************************)
(* atomic_queue/include/atomic_queue/atomic_queue.h: the ring buffers      *)
(* AtomicQueue, AtomicQueue2, AtomicQueueB and AtomicQueueB2 over their    *)
(* base AtomicQueueCommon.  A push claims an index by incrementing head_   *)
(* and then waits until that slot is free; a pop claims one by             *)
(* incrementing tail_ and waits until the slot holds an element.           *)
(*                                                                         *)
(* The variants differ in what a slot is (an atomic element with a NIL     *)
(* value, or an element with a state byte) and in spsc_, which replaces    *)
(* read-modify-write by plain loads and stores; "kind" is chosen at the    *)
(* start.  Elements are numbered by the tickets their pushes claimed.      *)
(*                                                                         *)
(* A queue is declared as a record: the form (AtomicQueue, AtomicQueue2    *)
(* with MINIMIZE_CONTENTION, "static", or without, "plain", AtomicQueueB   *)
(* and AtomicQueueB2, "B"), the size asked for, and the elements or state  *)
(* bytes per cache line.                                                   *)
(***************************************************************************)
EXTENDS Integers, FiniteSets, FiniteSetsExt, Bitwise

CONSTANTS Producers, Consumers,
          Declared,     \* how the queue is declared
          Width,        \* bits of unsigned: head_ and tail_ wrap at 2^Width
          Starts,       \* values of head_ and tail_ when the model starts, the queue being empty
          Kinds,        \* the variants: records [any, spsc]
          Ops,          \* which operations are used: "try" (try_push, try_pop), "wait" (push, pop)
          MaxPush, MaxPop   \* bounds: pushes and pops in a behaviour

VARIABLES kind,
          head, tail,       \* head_ and tail_
          elem, state,      \* elements_ and states_ (the state byte is used if kind.any)
          pc, idx, val,     \* per thread: where it is, its local head or tail, its element
          pushes, pops,     \* history: tickets claimed
          taken, popped     \* history: the elements popped, and how many pops completed

vars == <<kind, head, tail, elem, state, pc, idx, val, pushes, pops, taken, popped>>

-----------------------------------------------------------------------------
(***************************************************************************)
(* A faulty variant of remap_index: a mix that is not written back to the  *)
(* high bits.                                                              *)
(***************************************************************************)
remap_half(bits, index) == LET mix == (index ^^ shiftR(index, bits)) & (2 ^ bits - 1) IN index ^^ mix

(***************************************************************************)
(* GetCacheLineIndexBits: the logarithm, 0 if the number is none of the    *)
(* powers of two listed.  GetIndexShuffleBits: no shuffling in a ring of   *)
(* fewer than 2^(2 bits).                                                  *)
(***************************************************************************)
CacheLineIndexBits(n) == Max({0} \cup {b \in 1 .. 8 : 2 ^ b = n})
IndexShuffleBits(minimize, arraySize, n) ==
    IF minimize /\ arraySize >= 2 ^ (2 * CacheLineIndexBits(n)) THEN CacheLineIndexBits(n) ELSE 0

(***************************************************************************)
(* round_up_to_power_of_2: --a; a |= a >> 1; ...; ++a.                     *)
(***************************************************************************)
or_equal(x, u) == x | shiftR(x, u)
Smear(x) == or_equal(or_equal(or_equal(or_equal(x, 1), 2), 4), 8)
round_up_to_power_of_2(a) == (Smear((a - 1) % 2 ^ Width) + 1) % 2 ^ Width

(***************************************************************************)
(* remap_index: swap the lowest bits of an index with the next ones.       *)
(***************************************************************************)
remap_index(bits, index) == IF bits = 0 THEN index
                            ELSE LET mix == (index ^^ shiftR(index, bits)) & (2 ^ bits - 1)
                                 IN  (index ^^ mix) ^^ (mix * 2 ^ bits)

(***************************************************************************)
(* size_ and SHUFFLE_BITS of queue q; "B" makes the ring large enough to   *)
(* shuffle.  map: the slot of an index, which is an unsigned.              *)
(***************************************************************************)
RingSize(q) == CASE q.form = "static" -> round_up_to_power_of_2(q.size)
                 [] q.form = "plain" -> q.size
                 [] q.form = "B" -> Max({round_up_to_power_of_2(q.size), 2 ^ (2 * CacheLineIndexBits(q.perLine))})
ShuffleBits(q) == IF q.form = "B" THEN CacheLineIndexBits(q.perLine)
                  ELSE IndexShuffleBits(q.form = "static", RingSize(q), q.perLine)
SlotOf(q, index) == LET i == index % 2 ^ Width
                    IN  remap_index(ShuffleBits(q), IF q.form = "B" THEN i & (RingSize(q) - 1) ELSE i % RingSize(q))

Size == RingSize(Declared)

(***************************************************************************)
(* The ring works where the indices wrap if its size divides 2^Width: see  *)
(* SlotsDistinct.  Rounded sizes do.                                       *)
(***************************************************************************)
RingAssumption == /\ Size \in Nat \ {0} /\ 2 * Size <= 2 ^ Width /\ 2 ^ Width % Size = 0
                  /\ MaxPush < 2 ^ Width /\ MaxPop < 2 ^ Width     \* no claim sees the index come round
                  /\ Kinds \subseteq [any : BOOLEAN, spsc : BOOLEAN]
-----------------------------------------------------------------------------
NIL == 0
Threads == Producers \cup Consumers
Inc(i) == (i + 1) % 2 ^ Width

(***************************************************************************)
(* static_cast<int>(a - b), and the slot of an index.                      *)
(***************************************************************************)
Difference(a, b) == LET d == (a - b) % 2 ^ Width IN IF d >= 2 ^ (Width - 1) THEN d - 2 ^ Width ELSE d
Slot(t) == SlotOf(Declared, idx[t])

Active(ts) == IF kind.spsc THEN {CHOOSE t \in ts : TRUE} ELSE ts    \* one thread of each side if spsc_

Init == /\ kind \in Kinds
        /\ head \in Starts /\ tail = head
        /\ elem = [i \in 0 .. Size - 1 |-> NIL] /\ state = [i \in 0 .. Size - 1 |-> "EMPTY"]
        /\ pc = [t \in Threads |-> "idle"] /\ idx = [t \in Threads |-> 0] /\ val = [t \in Threads |-> NIL]
        /\ pushes = 0 /\ pops = 0 /\ taken = {} /\ popped = 0

Set(t, l, i, v) == /\ pc' = [pc EXCEPT ![t] = l] /\ idx' = [idx EXCEPT ![t] = i] /\ val' = [val EXCEPT ![t] = v]
Held == {val[t] : t \in Producers} \ {NIL}
Free(i) == IF kind.any THEN state[i] = "EMPTY" ELSE elem[i] = NIL
Full(i) == IF kind.any THEN state[i] = "STORED" ELSE elem[i] # NIL
Finish(t, v) == /\ taken' = taken \cup {v} /\ popped' = popped + 1
                /\ Set(t, "idle", 0, NIL)
-----------------------------------------------------------------------------
(***************************************************************************)
(* A faulty variant: a push that does not wait until its slot is free.     *)
(***************************************************************************)
PutSlotBlindly(t) == /\ pc[t] = "put" /\ ~kind.any
                     /\ elem' = [elem EXCEPT ![Slot(t)] = val[t]]
                     /\ Set(t, "idle", 0, NIL)
                     /\ UNCHANGED <<kind, head, tail, state, pushes, pops, taken, popped>>

-----------------------------------------------------------------------------
(***************************************************************************)
(* push(): claim the next index, whatever the state of the queue.          *)
(***************************************************************************)
Push(t) == /\ pc[t] = "idle" /\ "wait" \in Ops /\ pushes < MaxPush
           /\ head' = Inc(head) /\ pushes' = pushes + 1
           /\ Set(t, "put", head, pushes + 1)
           /\ UNCHANGED <<kind, tail, elem, state, pops, taken, popped>>

(***************************************************************************)
(* try_push(): load head_; load tail_ and give up if the queue is full;    *)
(* claim the loaded index unless another producer was faster, in which     *)
(* case the check is repeated with the new one.  (RetryDecorator's push()  *)
(* calls it until it succeeds.)                                            *)
(***************************************************************************)
TryPush(t) == /\ pc[t] = "idle" /\ "try" \in Ops /\ pushes < MaxPush
              /\ Set(t, "room", head, NIL)
              /\ UNCHANGED <<kind, head, tail, elem, state, pushes, pops, taken, popped>>

CheckRoom(t) == /\ pc[t] = "room"
                /\ IF Difference(idx[t], tail) >= Size THEN Set(t, "idle", 0, NIL) ELSE Set(t, "claimHead", idx[t], NIL)
                /\ UNCHANGED <<kind, head, tail, elem, state, pushes, pops, taken, popped>>

ClaimHead(t) == /\ pc[t] = "claimHead" /\ pushes < MaxPush
                /\ IF kind.spsc \/ head = idx[t]
                   THEN /\ head' = Inc(idx[t]) /\ pushes' = pushes + 1
                        /\ Set(t, "put", idx[t], pushes + 1)
                   ELSE Set(t, "room", head, NIL) /\ UNCHANGED <<head, pushes>>
                /\ UNCHANGED <<kind, tail, elem, state, pops, taken, popped>>

(***************************************************************************)
(* do_push_atomic() and do_push_any(): wait until the slot is free, store. *)
(***************************************************************************)
PutSlot(t) == /\ pc[t] = "put" /\ Free(Slot(t))
              /\ IF kind.any
                 THEN /\ state' = IF kind.spsc THEN state ELSE [state EXCEPT ![Slot(t)] = "STORING"]
                      /\ Set(t, "store", idx[t], val[t]) /\ UNCHANGED elem
                 ELSE /\ elem' = [elem EXCEPT ![Slot(t)] = val[t]]
                      /\ Set(t, "idle", 0, NIL) /\ UNCHANGED state
              /\ UNCHANGED <<kind, head, tail, pushes, pops, taken, popped>>

Store(t) == /\ pc[t] = "store"
            /\ elem' = [elem EXCEPT ![Slot(t)] = val[t]]
            /\ state' = [state EXCEPT ![Slot(t)] = "STORED"]
            /\ Set(t, "idle", 0, NIL)
            /\ UNCHANGED <<kind, head, tail, pushes, pops, taken, popped>>

(***************************************************************************)
(* pop() and try_pop(), do_pop_atomic() and do_pop_any().                  *)
(***************************************************************************)
Pop(t) == /\ pc[t] = "idle" /\ "wait" \in Ops /\ pops < MaxPop
          /\ tail' = Inc(tail) /\ pops' = pops + 1
          /\ Set(t, "get", tail, NIL)
          /\ UNCHANGED <<kind, head, elem, state, pushes, taken, popped>>

TryPop(t) == /\ pc[t] = "idle" /\ "try" \in Ops /\ pops < MaxPop
             /\ Set(t, "item", tail, NIL)
             /\ UNCHANGED <<kind, head, tail, elem, state, pushes, pops, taken, popped>>

CheckItem(t) == /\ pc[t] = "item"
                /\ IF Difference(head, idx[t]) <= 0 THEN Set(t, "idle", 0, NIL) ELSE Set(t, "claimTail", idx[t], NIL)
                /\ UNCHANGED <<kind, head, tail, elem, state, pushes, pops, taken, popped>>

ClaimTail(t) == /\ pc[t] = "claimTail" /\ pops < MaxPop
                /\ IF kind.spsc \/ tail = idx[t]
                   THEN /\ tail' = Inc(idx[t]) /\ pops' = pops + 1
                        /\ Set(t, "get", idx[t], NIL)
                   ELSE Set(t, "item", tail, NIL) /\ UNCHANGED <<tail, pops>>
                /\ UNCHANGED <<kind, head, elem, state, pushes, taken, popped>>

GetSlot(t) == /\ pc[t] = "get" /\ Full(Slot(t))
              /\ IF kind.any
                 THEN /\ state' = IF kind.spsc THEN state ELSE [state EXCEPT ![Slot(t)] = "LOADING"]
                      /\ Set(t, "load", idx[t], NIL) /\ UNCHANGED <<elem, taken, popped>>
                 ELSE /\ elem' = [elem EXCEPT ![Slot(t)] = NIL]
                      /\ Finish(t, elem[Slot(t)]) /\ UNCHANGED state
              /\ UNCHANGED <<kind, head, tail, pushes, pops>>

Load(t) == /\ pc[t] = "load"
           /\ elem' = [elem EXCEPT ![Slot(t)] = NIL]       \* moved from
           /\ state' = [state EXCEPT ![Slot(t)] = "EMPTY"]
           /\ Finish(t, elem[Slot(t)])
           /\ UNCHANGED <<kind, head, tail, pushes, pops>>

(***************************************************************************)
(* was_size(): of two counters that may be apart, not below zero.          *)
(***************************************************************************)
was_size == Max({Difference(head, tail), 0})
-----------------------------------------------------------------------------
Produce(t) == CheckRoom(t) \/ ClaimHead(t) \/ PutSlot(t) \/ Store(t)
Consume(t) == CheckItem(t) \/ ClaimTail(t) \/ GetSlot(t) \/ Load(t)

Next == \/ \E t \in Active(Producers) : Push(t) \/ TryPush(t) \/ Produce(t)
        \/ \E t \in Active(Consumers) : Pop(t) \/ TryPop(t) \/ Consume(t)

Spec == Init /\ [][Next]_vars

(***************************************************************************)
(* Threads inside an operation keep running.                               *)
(***************************************************************************)
FairSpec == /\ Spec
            /\ \A t \in Producers : WF_vars(Produce(t))
            /\ \A t \in Consumers : WF_vars(Consume(t))
-----------------------------------------------------------------------------
TypeOK == /\ kind \in Kinds /\ head \in 0 .. 2 ^ Width - 1 /\ tail \in 0 .. 2 ^ Width - 1
          /\ elem \in [0 .. Size - 1 -> 0 .. MaxPush]
          /\ state \in [0 .. Size - 1 -> {"EMPTY", "STORING", "STORED", "LOADING"}]
          /\ pc \in [Threads -> {"idle", "room", "claimHead", "put", "store", "item", "claimTail", "get", "load"}]
          /\ idx \in [Threads -> 0 .. 2 ^ Width - 1] /\ val \in [Threads -> 0 .. MaxPush]
          /\ pushes \in 0 .. MaxPush /\ pops \in 0 .. MaxPop /\ taken \subseteq 0 .. MaxPush /\ popped \in 0 .. MaxPop

(***************************************************************************)
(* A slot with a state byte has one thread at its element at a time,       *)
(* whatever the order in which producers and consumers reach it.           *)
(***************************************************************************)
NoSlotRace == \A t, u \in Threads : t # u /\ pc[t] \in {"store", "load"} /\ pc[u] \in {"store", "load"} => Slot(t) # Slot(u)

(***************************************************************************)
(* Every element pushed is still in its producer's hands, or in a slot, or *)
(* was popped, and popped once: none is overwritten, duplicated or lost,   *)
(* also when head_ and tail_ wrap; and was_size() is right when nobody is  *)
(* in a call.                                                              *)
(***************************************************************************)
InSlots == {elem[i] : i \in DOMAIN elem} \ {NIL}
ElementsConserved == /\ taken \cup Held \cup InSlots = 1 .. pushes
                     /\ popped = Cardinality(taken)
                     /\ taken \cap InSlots = {} /\ taken \cap Held = {}
                     /\ (\A t \in Threads : pc[t] = "idle") => was_size = Cardinality(InSlots)

(***************************************************************************)
(* Consumers wait only for pushes that have not begun, producers only for  *)
(* pops that have not begun: a claimed slot is served however the others   *)
(* are slow, and nobody waits at a slot that no one will come to.          *)
(***************************************************************************)
WaitingFor(l) == Cardinality({t \in Threads : pc[t] = l})
ConsumersServed == []<>(WaitingFor("get") <= Max({pops - pushes, 0}))
ProducersServed == []<>(WaitingFor("put") <= Max({pushes - pops - Size, 0}))

(***************************************************************************)
(* With one producer and one consumer (spsc_) the queue is first in, first *)
(* out.                                                                    *)
(***************************************************************************)
SpscInOrder == kind.spsc => taken = 1 .. popped
-----------------------------------------------------------------------------
(***************************************************************************)
(* The ring holds at least what was asked for, and a rounded size is the   *)
(* least power of two that does.                                           *)
(***************************************************************************)
HoldsSize(q) == /\ RingSize(q) >= q.size
                /\ q.form = "static" => \E k \in 0 .. Width : RingSize(q) = 2 ^ k /\ (k > 0 => 2 ^ (k - 1) < q.size)

(***************************************************************************)
(* As many consecutive indices as the ring has slots, all that can be in   *)
(* flight, have different slots, as long as they do not wrap; and across   *)
(* the wrap of head_ and tail_ exactly in the rings whose size divides the *)
(* range of unsigned.  (A size that is not rounded, "plain", may not: then *)
(* two elements in flight meet in one slot.)                               *)
(***************************************************************************)
Wraps(q, from) == from + RingSize(q) > 2 ^ Width
Window(q, from) == {SlotOf(q, from + i) : i \in 0 .. RingSize(q) - 1}
SlotsDistinct(q) == \A from \in {0, 1, RingSize(q) - 1, 2 ^ Width - RingSize(q), 2 ^ Width - RingSize(q) \div 2, 2 ^ Width - 1} :
                       Window(q, from) = 0 .. RingSize(q) - 1 <=> (Wraps(q, from) => 2 ^ Width % RingSize(q) = 0)

(***************************************************************************)
(* The comment on remap_index: with shuffling, each subsequent element is  *)
(* on another cache line, except where the low bits go round.              *)
(***************************************************************************)
NeighboursApart(q) == ShuffleBits(q) > 0 =>
    \A i \in 0 .. RingSize(q) - 2 : SlotOf(q, i) \div q.perLine # SlotOf(q, i + 1) \div q.perLine
==============================================================================
