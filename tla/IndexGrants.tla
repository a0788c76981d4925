----------------------------- MODULE IndexGrants -----------------------------
(***************************************************************************)
(* What the counters of a sub-queue (concurrentqueue.h, ProducerBase)      *)
(* promise: the producer publishes indices, consumers take those that were *)
(* published, in order and each once.  SubQueue implements it; the two     *)
(* kinds of producer are built on it.                                      *)
(***************************************************************************)
EXTENDS Integers

CONSTANTS Width,        \* bits of index_t and size_t
          Start,        \* the indices when the model starts, the queue being empty
          MaxBulk,      \* bound: the largest count of enqueue_bulk() and max of dequeue_bulk()
          MaxEnqueue    \* bound: elements enqueued in a behaviour

GrantAssumption == /\ Width \in Nat \ {0} /\ Start \in Nat
                          /\ MaxBulk \in Nat /\ MaxEnqueue \in Nat

VARIABLES tail, head    \* tailIndex and headIndex, which wrap wherever the code computes with them

indices == <<tail, head>>

Wrap(x) == x % (2 ^ Width)
circular_less_than(a, b) == Wrap(a - b) > 2 ^ (Width - 1)
Less(a, b) == IF a < b THEN a ELSE b      \* a < b ? a : b

Init == tail = Start /\ head = Start

Publish(n) == tail' = tail + n /\ UNCHANGED head
Take(n) == head + n <= tail /\ head' = head + n /\ UNCHANGED tail

Next == \E n \in 1 .. MaxBulk : Publish(n) \/ Take(n)
Spec == Init /\ [][Next]_indices
==============================================================================
