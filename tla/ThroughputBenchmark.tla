------------------------ MODULE ThroughputBenchmark ------------------------
(***************************************************************************)
(* benchmarks.cc, benchmark_throughput(), with barrier.h: as many          *)
(* producers as consumers wait at a Barrier, the producers push N numbers  *)
(* and a stop, each consumer takes numbers until it gets a stop.  The      *)
(* calling thread, Main, is the last consumer: it releases the barrier and *)
(* joins the others.  The queue is a bounded FIFO, and push() and pop()    *)
(* wait (RetryDecorator).  Time is counted in readings of the clock.       *)
(***************************************************************************)
EXTENDS Naturals, Sequences, FiniteSets, SequencesExt

CONSTANTS Producers, Consumers, Main,
          N,           \* numbers a producer pushes
          SIZE         \* capacity of the queue

Threads == Producers \cup Consumers
BenchmarkAssumption == /\ Main \in Consumers /\ Producers \cap Consumers = {}
                              /\ Cardinality(Producers) = Cardinality(Consumers)

VARIABLES counter_,         \* Barrier
          pc, queue,
          sent,             \* sent[p]: how many p has pushed
          got,              \* got[c]: the numbers c added to its sum, <<producer, number>>
          clock, stamp,     \* readings so far; stamp[t]: t's reading
          t0, t1, last_consumer

barrierVars == counter_
queueVars == <<queue, sent, got>>
timeVars == <<clock, stamp, t0, t1, last_consumer>>
vars == <<barrierVars, pc, queueVars, timeVars>>

stop == N + 1
Goto(t, label) == pc' = [pc EXCEPT ![t] = label]

Init == /\ counter_ = 0 /\ queue = << >>
        /\ pc = [t \in Threads |-> IF t = Main THEN "release" ELSE "start"]
        /\ sent = [p \in Producers |-> 0] /\ got = [c \in Consumers |-> << >>]
        /\ clock = 1 /\ stamp = [t \in Threads |-> 0] /\ t0 = 0 /\ t1 = 0
        /\ last_consumer = Cardinality(Consumers)
-----------------------------------------------------------------------------
(***************************************************************************)
(* Barrier: wait() counts itself and spins until the counter is zero;      *)
(* release() spins until everybody was counted and zeroes the counter.     *)
(***************************************************************************)
Arrive(t) == /\ pc[t] = "start"
             /\ counter_' = counter_ + 1
             /\ Goto(t, "spin")
             /\ UNCHANGED <<queueVars, timeVars>>
Leave(t) == /\ pc[t] = "spin" /\ counter_ = 0
            /\ Goto(t, IF t \in Producers THEN "stamp" ELSE "pop")
            /\ UNCHANGED <<barrierVars, queueVars, timeVars>>
Release == /\ pc[Main] = "release" /\ counter_ = Cardinality(Threads) - 1
           /\ counter_' = 0
           /\ Goto(Main, "pop")
           /\ UNCHANGED <<queueVars, timeVars>>
-----------------------------------------------------------------------------
(***************************************************************************)
(* rdtsc, and what is done with it: the first producer at the exchange     *)
(* saves the start, the last consumer at the decrement the end.            *)
(***************************************************************************)
ReadClock(t) == /\ pc[t] = "stamp"
                /\ stamp' = [stamp EXCEPT ![t] = clock] /\ clock' = clock + 1
                /\ Goto(t, IF t \in Producers THEN "cas" ELSE "dec")
                /\ UNCHANGED <<barrierVars, queueVars, t0, t1, last_consumer>>
SaveStart(p) == /\ pc[p] = "cas" /\ t0' = (IF t0 = 0 THEN stamp[p] ELSE t0)
                /\ Goto(p, "push")
                /\ UNCHANGED <<barrierVars, queueVars, clock, stamp, t1, last_consumer>>
SaveEnd(c) == /\ pc[c] = "dec"
              /\ last_consumer' = last_consumer - 1
              /\ t1' = (IF last_consumer = 1 THEN stamp[c] ELSE t1)
              /\ Goto(c, IF c = Main THEN "join" ELSE "exited")
              /\ UNCHANGED <<barrierVars, queueVars, clock, stamp, t0>>

Push(p) == /\ pc[p] = "push" /\ Len(queue) < SIZE
           /\ queue' = Append(queue, <<p, sent[p] + 1>>)
           /\ sent' = [sent EXCEPT ![p] = @ + 1]
           /\ Goto(p, IF sent[p] + 1 = stop THEN "exited" ELSE "push")
           /\ UNCHANGED <<barrierVars, got, timeVars>>

Pop(c) == /\ pc[c] = "pop" /\ queue # << >>
          /\ queue' = Tail(queue)
          /\ IF Head(queue)[2] = stop
             THEN Goto(c, "stamp") /\ got' = got
             ELSE got' = [got EXCEPT ![c] = Append(@, Head(queue))] /\ pc' = pc
          /\ UNCHANGED <<barrierVars, sent, timeVars>>

Join == /\ pc[Main] = "join" /\ \A t \in Threads \ {Main} : pc[t] = "exited"
        /\ Goto(Main, "returned")
        /\ UNCHANGED <<barrierVars, queueVars, timeVars>>
(***************************************************************************)
(* Barrier, push() and pop() wait by spinning.                             *)
(***************************************************************************)
Spin(t) == /\ \/ pc[t] = "spin" /\ counter_ # 0
              \/ pc[t] = "push" /\ Len(queue) = SIZE
              \/ pc[t] = "pop" /\ queue = << >>
           /\ UNCHANGED vars
Returned == pc[Main] = "returned" /\ UNCHANGED vars

Producer(p) == SaveStart(p) \/ Push(p)
Consumer(c) == Pop(c) \/ SaveEnd(c)
Thread(t) == \/ Arrive(t) \/ Leave(t) \/ ReadClock(t) \/ Spin(t)
             \/ t \in Producers /\ Producer(t)
             \/ t \in Consumers /\ Consumer(t)
             \/ t = Main /\ (Release \/ Join)
Next == (\E t \in Threads : Thread(t)) \/ Returned

Spec == Init /\ [][Next]_vars /\ \A t \in Threads : WF_vars(Thread(t))
-----------------------------------------------------------------------------
(***************************************************************************)
(* Nobody is past the barrier before everybody has reached it, and nobody  *)
(* is left spinning behind one that fills up again.                        *)
(***************************************************************************)
StartTogether == (\E t \in Threads : pc[t] \notin {"start", "spin", "release"})
                   => counter_ = 0 /\ \A t \in Threads : pc[t] # "start"

(***************************************************************************)
(* "Verify that all messages were received exactly once: no duplicates, no *)
(* omissions": when the benchmark returns every number of every producer   *)
(* is in the sum of one consumer and the queue is empty, although each     *)
(* consumer leaves at the first stop it sees.                              *)
(***************************************************************************)
ExactlyOnce == pc[Main] = "returned" =>
    /\ queue = << >>
    /\ \A p \in Producers, n \in 1 .. N :
         Cardinality({x \in UNION {{<<c, i>> : i \in DOMAIN got[c]} : c \in Consumers} :
                      got[x[1]][x[2]] = <<p, n>>}) = 1
    /\ \A c \in Consumers : \A x \in ToSet(got[c]) : x[2] \in 1 .. N

(***************************************************************************)
(* The time returned, t1 - t0, is an unsigned difference: the start that   *)
(* is saved precedes the end that is saved, however the readings and the   *)
(* two races to save them interleave.                                      *)
(***************************************************************************)
TimePositive == t1 # 0 => t0 # 0 /\ t0 < t1

(***************************************************************************)
(* Every thread gets its stop, and the benchmark returns.                  *)
(***************************************************************************)
Finishes == <>(pc[Main] = "returned")
=============================================================================
