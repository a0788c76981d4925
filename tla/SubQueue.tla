------------------------------ MODULE SubQueue ------------------------------
(***************************************************************************)
(* concurrentqueue/concurrentqueue.h: the four counters of ProducerBase    *)
(* and how dequeue() and dequeue_bulk() of both kinds of producer use them *)
(* to get their indices.  A consumer first adds what it wants to           *)
(* dequeueOptimisticCount, then compares with tailIndex, gives back        *)
(* through dequeueOvercommit what is not there, and only then moves        *)
(* headIndex.                                                              *)
(*                                                                         *)
(* Each read-modify-write is a step, and so is each group of loads that    *)
(* matters together; dequeue() is dequeue_bulk() with max = 1.  The        *)
(* counters of the model do not wrap: they are wrapped wherever the code   *)
(* computes with them.                                                     *)
(***************************************************************************)
EXTENDS Integers, FiniteSets, Functions

CONSTANTS Consumers,
          Width, Start, MaxBulk, MaxEnqueue,   \* as in IndexGrants
          MaxDequeue                           \* bound: calls of dequeue() and dequeue_bulk()

SubQueueAssumption == IsFiniteSet(Consumers) /\ MaxDequeue \in Nat

VARIABLES tail, head,   \* tailIndex and headIndex
          opt, over,    \* dequeueOptimisticCount and dequeueOvercommit
          con,          \* con[c]: where c is in dequeue_bulk(), and its local variables
          dequeues

vars == <<tail, head, opt, over, con, dequeues>>

Grants == INSTANCE IndexGrants
Positive(x) == Grants!circular_less_than(0, x)

Idle == [pc |-> "idle", max |-> 0, tl |-> 0, oc |-> 0, my |-> 0, want |-> 0, n |-> 0]

Init == /\ Grants!Init /\ opt = Start /\ over = 0
        /\ con = [c \in Consumers |-> Idle] /\ dequeues = 0

At(c, l) == con[c].pc = l
Leave(c) == con' = [con EXCEPT ![c] = Idle]
-----------------------------------------------------------------------------
(***************************************************************************)
(* A faulty variant: a consumer that looks only once at the tail.          *)
(***************************************************************************)
RecheckTrusts(c) == /\ At(c, "recheck")
                    /\ con' = [con EXCEPT ![c].n = con[c].want, ![c].pc = "take"]
                    /\ UNCHANGED <<tail, head, opt, over, dequeues>>

-----------------------------------------------------------------------------
(***************************************************************************)
(* Is there something to dequeue?  Three relaxed loads and no commitment.  *)
(***************************************************************************)
Begin(c, max) == /\ At(c, "idle") /\ dequeues < MaxDequeue /\ dequeues' = dequeues + 1
                 /\ con' = [con EXCEPT ![c] = [Idle EXCEPT !.pc = "look", !.max = max, !.tl = tail, !.oc = over]]
                 /\ UNCHANGED <<tail, head, opt, over>>

Look(c) == LET desired == Grants!Wrap(con[c].tl - (opt - con[c].oc))
           IN  /\ At(c, "look")
               /\ IF Positive(desired)
                  THEN con' = [con EXCEPT ![c].pc = "claim", ![c].want = Grants!Less(desired, con[c].max)]
                  ELSE Leave(c)
               /\ UNCHANGED <<tail, head, opt, over, dequeues>>

(***************************************************************************)
(* Claim first, check after, give back what was claimed too much.          *)
(***************************************************************************)
Claim(c) == /\ At(c, "claim")
            /\ con' = [con EXCEPT ![c].my = opt, ![c].pc = "recheck"]
            /\ opt' = opt + con[c].want
            /\ UNCHANGED <<tail, head, over, dequeues>>

Recheck(c) == LET actual == Grants!Wrap(tail - (con[c].my - con[c].oc))
                  n == IF Positive(actual) THEN Grants!Less(con[c].want, actual) ELSE 0
              IN  /\ At(c, "recheck")
                  /\ con' = [con EXCEPT ![c].n = n, ![c].pc = IF n < con[c].want THEN "give" ELSE "take"]
                  /\ UNCHANGED <<tail, head, opt, over, dequeues>>

ReturnRest(c) == /\ At(c, "give")
                 /\ over' = over + con[c].want - con[c].n
                 /\ IF con[c].n = 0 THEN Leave(c) ELSE con' = [con EXCEPT ![c].pc = "take"]
                 /\ UNCHANGED <<tail, head, opt, dequeues>>

TakeIndex(c) == /\ At(c, "take")
                /\ head' = head + con[c].n
                /\ Leave(c)
                /\ UNCHANGED <<tail, opt, over, dequeues>>

(***************************************************************************)
(* The producer publishes n elements, all of them constructed.             *)
(***************************************************************************)
Publish(n) == /\ tail + n <= Start + MaxEnqueue
              /\ Grants!Publish(n)
              /\ UNCHANGED <<opt, over, con, dequeues>>
-----------------------------------------------------------------------------
Next == \/ \E n \in 1 .. MaxBulk : Publish(n)
        \/ \E c \in Consumers : \/ Look(c) \/ Claim(c) \/ Recheck(c) \/ ReturnRest(c) \/ TakeIndex(c)
                                \/ \E max \in 1 .. MaxBulk : Begin(c, max)

Spec == Init /\ [][Next]_vars
-----------------------------------------------------------------------------
Granted(c) == IF con[c].pc \in {"give", "take"} THEN con[c].n ELSE 0
Claimed(c) == IF con[c].pc \in {"recheck", "give"} THEN con[c].want ELSE IF At(c, "take") THEN con[c].n ELSE 0
Total(f(_)) == FoldFunction(LAMBDA x, y : x + y, 0, [c \in Consumers |-> f(c)])

(***************************************************************************)
(* A consumer that goes on to headIndex has an element: with all the       *)
(* indices promised and not yet taken, the head does not pass the tail,    *)
(* whatever stale dequeueOvercommit the consumers computed with.           *)
(***************************************************************************)
NeverPastTail == head + Total(Granted) <= tail

(***************************************************************************)
(* The counters are exact: what was claimed and not given back is what was *)
(* taken and what consumers in the middle of a call still account for.     *)
(* So once they are done a dequeue sees every element that is there.       *)
(***************************************************************************)
CountersExact == opt - over = head + Total(Claimed)

(***************************************************************************)
(* The counters implement what the producers build on: consumers get       *)
(* indices that were published, and each index once.                       *)
(***************************************************************************)
ImplementsGrants == Grants!Spec
=============================================================================
