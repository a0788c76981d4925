--------------------------- MODULE MCAtomicQueues ---------------------------
(***************************************************************************)
(* The atomic_queue library, side by side: its ring buffers, their sizes   *)
(* and slots, the ring behind a spinlock, and the throughput benchmark.  A *)
(* behaviour runs one of them; the others stay as they are at the start.   *)
(*                                                                         *)
(* head_ and tail_ of the ring start just before they wrap.                *)
(***************************************************************************)
EXTENDS Naturals

VARIABLES part,
          ringKind, head, tail, elem, state, ringPc, idx, val, pushes, pops, ringTaken, popped,
          declared,       \* the queue whose size and slots are looked at
          lockKind, ticket_, next_, lock_, lockPc, mine, head_, tail_, q_, lockSent, entered,
          lockTaken,
          counter_, benchPc, queue, benchSent, got, clock, stamp, t0, t1, last_consumer

ringVars == <<ringKind, head, tail, elem, state, ringPc, idx, val, pushes, pops, ringTaken, popped>>
lockedVars == <<lockKind, ticket_, next_, lock_, lockPc, mine, head_, tail_, q_, lockSent, entered,
                lockTaken>>
benchVars == <<counter_, benchPc, queue, benchSent, got, clock, stamp, t0, t1, last_consumer>>

Ring == INSTANCE AtomicQueue WITH
    Producers <- {"p1", "p2"}, Consumers <- {"c1", "c2"},
    Declared <- [form |-> "plain", size |-> 2, perLine |-> 1], Width <- 8, Starts <- {254},
    Kinds <- [any : BOOLEAN, spsc : BOOLEAN], Ops <- {"try", "wait"}, MaxPush <- 4, MaxPop <- 3,
    kind <- ringKind, pc <- ringPc, taken <- ringTaken
Locked == INSTANCE SpinlockQueue WITH
    Producers <- {"p1", "p2"}, Consumers <- {"c1"}, Locks <- {"ticket", "unfair"}, size_ <- 2,
    CounterBits <- 2, PerProducer <- 2, kind <- lockKind, pc <- lockPc, sent <- lockSent,
    taken <- lockTaken
Bench == INSTANCE ThroughputBenchmark WITH
    Producers <- {"p1", "p2"}, Consumers <- {"c1", "c2"}, Main <- "c2", N <- 2, SIZE <- 2,
    pc <- benchPc, sent <- benchSent

(***************************************************************************)
(* Queues are declared with sizes from 1 to MaxSize; "B" insists on a      *)
(* power of two per cache line (its static_assert).                        *)
(***************************************************************************)
MaxSize == 40
Smallest == {q \in [form : {"static", "plain", "B"}, size : {1}, perLine : {1, 2, 4, 8}] :
                q.form = "B" => q.perLine > 1}
Sizes == declared.size < MaxSize /\ declared' = [declared EXCEPT !.size = @ + 1]

ASSUME PartsAssumption == /\ Ring!RingAssumption /\ Locked!RingAssumption /\ Bench!BenchmarkAssumption

Init == /\ part \in {"ring", "sizes", "locked", "bench"}
        /\ Ring!Init /\ declared \in Smallest /\ Locked!Init /\ Bench!Init
        /\ part # "ring" => ringKind = [any |-> FALSE, spsc |-> FALSE]
        /\ part # "sizes" => declared.form = "plain" /\ declared.perLine = 1
        /\ part # "locked" => lockKind = "ticket"

vars == <<part, ringVars, declared, lockedVars, benchVars>>

RingBuffer == part = "ring" /\ Ring!Next /\ UNCHANGED <<part, declared, lockedVars, benchVars>>
SizesOfRings == part = "sizes" /\ Sizes /\ UNCHANGED <<part, ringVars, lockedVars, benchVars>>
LockedRing == part = "locked" /\ Locked!Next /\ UNCHANGED <<part, ringVars, declared, benchVars>>
Benchmark == part = "bench" /\ Bench!Next /\ UNCHANGED <<part, ringVars, declared, lockedVars>>

Next == RingBuffer \/ SizesOfRings \/ LockedRing \/ Benchmark

(***************************************************************************)
(* A thread inside an operation keeps running; when it starts one is its   *)
(* own decision, but the benchmark's threads do so without end.            *)
(***************************************************************************)
Fairness == /\ \A t \in {"p1", "p2"} : WF_ringVars(part = "ring" /\ Ring!Produce(t))
            /\ \A t \in {"c1", "c2"} : WF_ringVars(part = "ring" /\ Ring!Consume(t))
            /\ \A t \in {"p1", "p2", "c1"} : WF_lockedVars(part = "locked" /\ Locked!Work(t))
            /\ \A t \in {"p1", "p2", "c1", "c2"} : WF_benchVars(part = "bench" /\ Bench!Thread(t))

Spec == Init /\ [][Next]_vars /\ Fairness
-----------------------------------------------------------------------------
(***************************************************************************)
(* The ring buffers: a slot has one thread at its element, no element is   *)
(* overwritten, popped twice or lost as head_ and tail_ wrap, the spsc_    *)
(* variants keep the order.                                                *)
(***************************************************************************)
RingRight == part = "ring" => Ring!TypeOK /\ Ring!NoSlotRace /\ Ring!ElementsConserved /\ Ring!SpscInOrder

(***************************************************************************)
(* The ring is large enough for what was asked for; indices in flight have *)
(* slots of their own, across the wrap of head_ and tail_ if and only if   *)
(* the size divides the range of unsigned; and neighbours are on different *)
(* cache lines.                                                            *)
(***************************************************************************)
SlotsRight == part = "sizes" => Ring!HoldsSize(declared) /\ Ring!SlotsDistinct(declared) /\ Ring!NeighboursApart(declared)

(***************************************************************************)
(* The ring behind a spinlock: one thread inside, elements leave once and  *)
(* in order although the counters wrap; the benchmark on top of such a     *)
(* queue: threads start together, each number is summed once, and the time *)
(* it returns is not negative.                                             *)
(***************************************************************************)
LockedRight == /\ part = "locked" => Locked!OneInside /\ Locked!InOrder /\ Locked!CountsAgree
               /\ part = "bench" => Bench!StartTogether /\ Bench!ExactlyOnce /\ Bench!TimePositive

(***************************************************************************)
(* Nobody waits at a slot that no one will come to, a thread with a ticket *)
(* gets the lock, and the benchmark returns.                               *)
(***************************************************************************)
EveryoneServed == /\ part = "ring" => Ring!ConsumersServed /\ Ring!ProducersServed
                  /\ Locked!Served
                  /\ part = "bench" => Bench!Finishes
=============================================================================
