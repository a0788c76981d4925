--------------------------- MODULE ConsumerTokens ---------------------------
(***************************************************************************)
(* concurrentqueue/concurrentqueue.h: how a consumer goes over the list of *)
(* producers: try_dequeue() with its survey of sizes ("any"),              *)
(* try_dequeue_bulk() in list order ("inorder"; try_dequeue_non_           *)
(* interleaved() is the same for one element), and both with a             *)
(* ConsumerToken ("token", "tokenBulk"), where after a quota of elements   *)
(* all consumers rotate to the next producer.                              *)
(*                                                                         *)
(* A sub-queue is its number of elements: SubQueue shows what taking from  *)
(* it means.  While other consumers are busy a sub-queue may appear to     *)
(* have less than it has.  Producers are numbered in the order in which    *)
(* they join the list, and next_prod() of p is p - 1.  AfterUnwrapped is a *)
(* faulty variant of After.                                                *)
(***************************************************************************)
EXTENDS Integers, FiniteSets

CONSTANTS Consumers,
          Calls,          \* the operations they use, with the most elements a call asks for: {<<op, max>>}
          QUOTA,          \* EXPLICIT_CONSUMER_CONSUMPTION_QUOTA_BEFORE_ROTATE
          Width,          \* uint32_t has this many bits
          MaxProducers,   \* bound: producers
          MaxSize         \* bound: elements in a sub-queue

TokenAssumption == /\ Calls \subseteq {"any", "inorder", "token", "tokenBulk"} \X (Nat \ {0})
                          /\ \A call \in Calls : call[1] \in {"any", "token"} => call[2] = 1
                          /\ {QUOTA, Width, MaxProducers, MaxSize} \subseteq Nat \ {0}

VARIABLES list,           \* producerListTail: the newest producer, 0 if there is none
          producerCount,
          size,           \* size[p]: the elements in p's sub-queue
          ids,            \* nextExplicitConsumerId
          offset,         \* globalExplicitConsumerOffset
          token,          \* token[c]: the ConsumerToken
          con,            \* con[c]: where the consumer is and its local variables
          full,           \* full[c]: the producers that had elements since c's call began
          served          \* the producer of the last element taken, 0 at the start

vars == <<list, producerCount, size, ids, offset, token, con, full, served>>

Producers == 1 .. MaxProducers
Uint(x) == x % 2 ^ Width
NoToken == [initial |-> 0, last |-> 0, items |-> 0, current |-> 0, desired |-> 0]
Idle == [pc |-> "idle", op |-> "", max |-> 0, got |-> 0, ptr |-> 0, tail |-> 0, best |-> 0, seen |-> 0]
At(c, l) == con[c].pc = l
Goto(c, r) == con' = [con EXCEPT ![c] = r]
Busy(c) == con[c].pc \notin {"none", "idle"}
WithToken(op) == op \in {"token", "tokenBulk"}

Init == /\ list = 0 /\ producerCount = 0 /\ size = [p \in Producers |-> 0]
        /\ ids = 0 /\ offset = 0
        /\ token = [c \in Consumers |-> NoToken]
        /\ con = [c \in Consumers |-> [Idle EXCEPT !.pc = "none"]]
        /\ full = [c \in Consumers |-> {}] /\ served = 0
-----------------------------------------------------------------------------
(***************************************************************************)
(* add_producer(): the count first, then the list.  Then enqueue().        *)
(***************************************************************************)
CountProducer == /\ producerCount < MaxProducers
                 /\ producerCount' = producerCount + 1
                 /\ UNCHANGED <<list, size, ids, offset, token, con, full, served>>

AddProducer == /\ list < producerCount
               /\ list' = list + 1
               /\ UNCHANGED <<producerCount, size, ids, offset, token, con, full, served>>

Enqueue(p) == /\ p <= list /\ size[p] < MaxSize
              /\ size' = [size EXCEPT ![p] = @ + 1]
              /\ UNCHANGED <<list, producerCount, ids, offset, token, con, full, served>>

(***************************************************************************)
(* ConsumerToken(queue)                                                    *)
(***************************************************************************)
NewToken(c) == /\ At(c, "none")
               /\ token' = [token EXCEPT ![c] = [NoToken EXCEPT !.initial = ids, !.last = 2 ^ Width - 1]]
               /\ ids' = Uint(ids + 1)
               /\ Goto(c, Idle)
               /\ UNCHANGED <<list, producerCount, size, offset, full, served>>
-----------------------------------------------------------------------------
(***************************************************************************)
(* Take k elements of p, or as many as there are.                          *)
(***************************************************************************)
Least(i, j) == IF i < j THEN i ELSE j
Gets(c, p, k) == LET m == Least(k, size[p])
                 IN  IF \E d \in Consumers \ {c} : Busy(d) THEN 0 .. m ELSE {m}
Take(p, n) == /\ size' = [size EXCEPT ![p] = @ - n]
              /\ full' = [c \in Consumers |-> {q \in full[c] : size'[q] > 0}]
              /\ served' = IF n > 0 THEN p ELSE served

(***************************************************************************)
(* producerListTail is loaded when a call begins, or, with a token that    *)
(* knows its place, only when the current producer has no more elements.   *)
(***************************************************************************)
Turned(c) == token[c].desired = 0 \/ token[c].last # offset
Call(c, op, max) ==
    /\ At(c, "idle")
    /\ Goto(c, [Idle EXCEPT !.op = op, !.max = max, !.ptr = list,
                            !.pc = CASE op = "any" -> "survey"
                                     [] op = "inorder" -> "each"
                                     [] WithToken(op) -> IF Turned(c) THEN "turn" ELSE "current"])
    /\ full' = [d \in Consumers |-> IF d = c /\ ~\E e \in Consumers : Busy(e) THEN {p \in 1 .. list : size[p] > 0} ELSE {}]
    /\ UNCHANGED <<list, producerCount, size, ids, offset, token, served>>

(***************************************************************************)
(* try_dequeue(): the largest of the first three that are not empty, and   *)
(* if that has become empty every other one.                               *)
(***************************************************************************)
Survey(c) ==
    LET r == con[c]
        more == r.seen < 3 /\ r.ptr >= 1
    IN  /\ At(c, "survey")
        /\ \/ /\ more /\ size[r.ptr] > 0
              /\ Goto(c, [r EXCEPT !.ptr = @ - 1, !.seen = @ + 1,
                                   !.tail = IF size[r.ptr] > r.tail THEN size[r.ptr] ELSE @,
                                   !.best = IF size[r.ptr] > r.tail THEN r.ptr ELSE @])
           \/ more /\ size[r.ptr] = 0 /\ Goto(c, [r EXCEPT !.ptr = @ - 1])
           \/ ~more /\ Goto(c, [r EXCEPT !.pc = IF r.seen > 0 THEN "best" ELSE "done", !.ptr = 0, !.tail = 0, !.seen = 0])
        /\ UNCHANGED <<list, producerCount, size, ids, offset, token, full, served>>


Best(c) ==
    /\ At(c, "best")
    /\ \E n \in Gets(c, con[c].best, 1) :
          /\ Take(con[c].best, n)
          /\ Goto(c, [con[c] EXCEPT !.got = n, !.pc = IF n = 1 THEN "done" ELSE "each", !.ptr = list])
    /\ UNCHANGED <<list, producerCount, ids, offset, token>>

(***************************************************************************)
(* Every producer in the order of the list, without the one tried before.  *)
(***************************************************************************)
Each(c) ==
    LET r == con[c]
    IN  /\ At(c, "each")
        /\ \/ r.ptr = 0 /\ Goto(c, [r EXCEPT !.pc = "done"]) /\ UNCHANGED <<size, full, served>>
           \/ r.ptr # 0 /\ r.ptr = r.best /\ Goto(c, [r EXCEPT !.ptr = @ - 1]) /\ UNCHANGED <<size, full, served>>
           \/ /\ r.ptr # 0 /\ r.ptr # r.best
              /\ \E n \in Gets(c, r.ptr, r.max - r.got) :
                    /\ Take(r.ptr, n)
                    /\ Goto(c, [r EXCEPT !.got = @ + n, !.pc = IF r.got + n = r.max THEN "done" ELSE "each", !.ptr = @ - 1])
        /\ UNCHANGED <<list, producerCount, ids, offset, token>>
-----------------------------------------------------------------------------
(***************************************************************************)
(* update_current_producer_after_rotation(): k places on in the circle     *)
(* whose newest producer is tl.                                            *)
(***************************************************************************)
AfterUnwrapped(p, tl) == IF p = 1 THEN 1 ELSE p - 1
After(p, tl) == IF p = 1 THEN tl ELSE p - 1
Places[k \in 0 .. MaxProducers, p \in Producers, tl \in Producers] ==
    IF k = 0 THEN p ELSE Places[k - 1, After(p, tl), tl]

Turn(c) == /\ At(c, "turn")
           /\ Goto(c, IF token[c].desired = 0 /\ list = 0 THEN [con[c] EXCEPT !.pc = "done"]
                      ELSE [con[c] EXCEPT !.pc = "turning", !.tail = list])
           /\ UNCHANGED <<list, producerCount, size, ids, offset, token, full, served>>

Turning(c) ==
    LET tk == token[c]
        tl == con[c].tail
        start == IF tk.desired # 0 THEN tk.desired
                 ELSE Places[producerCount - 1 - (tk.initial % producerCount), tl, tl]
        there == Places[Uint(offset - tk.last) % producerCount, start, tl]
    IN  /\ At(c, "turning")
        /\ token' = [token EXCEPT ![c] = [tk EXCEPT !.desired = there, !.current = there, !.last = offset, !.items = 0]]
        /\ Goto(c, [con[c] EXCEPT !.pc = "current", !.ptr = 0, !.tail = 0])
        /\ UNCHANGED <<list, producerCount, size, ids, offset, full, served>>

(***************************************************************************)
(* The current producer, then the others round the circle; who has taken   *)
(* the quota makes everyone rotate.                                        *)
(***************************************************************************)
Reached(op, items) == IF op = "token" THEN items = QUOTA ELSE items >= QUOTA
Current(c) ==
    LET r == con[c]
        p == token[c].current
    IN  /\ At(c, "current")
        /\ \E n \in Gets(c, p, r.max) :
              LET items == Uint(token[c].items + n)
              IN  /\ Take(p, n)
                  /\ token' = [token EXCEPT ![c].items = items]
                  /\ Goto(c, [r EXCEPT !.got = n, !.ptr = 0,
                                       !.pc = IF n < r.max THEN "tail" ELSE IF Reached(r.op, items) THEN "bump" ELSE "done"])
        /\ UNCHANGED <<list, producerCount, ids, offset>>

Bump(c) == /\ At(c, "bump")
           /\ offset' = Uint(offset + 1)
           /\ Goto(c, [con[c] EXCEPT !.pc = "done"])
           /\ UNCHANGED <<list, producerCount, size, ids, token, full, served>>

LoadTail(c) == /\ At(c, "tail")
               /\ Goto(c, [con[c] EXCEPT !.pc = "others", !.tail = list, !.ptr = After(token[c].current, list)])
               /\ UNCHANGED <<list, producerCount, size, ids, offset, token, full, served>>

Others(c) ==
    LET r == con[c]
    IN  /\ At(c, "others")
        /\ \/ r.ptr = token[c].current /\ Goto(c, [r EXCEPT !.pc = "done"]) /\ UNCHANGED <<size, token, full, served>>
           \/ /\ r.ptr # token[c].current
              /\ \E n \in Gets(c, r.ptr, r.max - r.got) :
                    /\ Take(r.ptr, n)
                    /\ token' = IF n = 0 THEN token ELSE [token EXCEPT ![c].current = r.ptr, ![c].items = n]
                    /\ Goto(c, [r EXCEPT !.got = @ + n, !.ptr = After(@, r.tail), !.pc = IF r.got + n = r.max THEN "done" ELSE "others"])
        /\ UNCHANGED <<list, producerCount, ids, offset>>

Return(c) == /\ At(c, "done")
             /\ Goto(c, Idle) /\ full' = [full EXCEPT ![c] = {}]
             /\ UNCHANGED <<list, producerCount, size, ids, offset, token, served>>
-----------------------------------------------------------------------------
Step(c) == \/ Survey(c) \/ Best(c) \/ Each(c) \/ Turn(c) \/ Turning(c) \/ Current(c) \/ Bump(c)
           \/ LoadTail(c) \/ Others(c) \/ Return(c)
Begin(c) == NewToken(c) \/ \E call \in Calls : Call(c, call[1], call[2])

Next == \/ CountProducer \/ AddProducer
        \/ \E p \in Producers : Enqueue(p)
        \/ \E c \in Consumers : Begin(c) \/ Step(c)

(***************************************************************************)
(* Consumers poll without end, as app9's main loop does at every wake-up.  *)
(***************************************************************************)
Spec == Init /\ [][Next]_vars /\ \A c \in Consumers : WF_vars(Begin(c) \/ Step(c))
-----------------------------------------------------------------------------
(***************************************************************************)
(* "Returns false if all producer streams appeared empty at the time they  *)
(* were checked": a call that no other consumer disturbs and that returns  *)
(* less than it was asked for has not passed over a producer that had      *)
(* elements all the time, while producers join and tokens rotate.          *)
(***************************************************************************)
NoFalseEmpty == \A c \in Consumers : At(c, "done") /\ con[c].got < con[c].max => full[c] = {}

(***************************************************************************)
(* "Every 256 items from one producer, make everyone rotate": between two  *)
(* calls no token has taken its quota from one producer without a rotation *)
(* it has not seen yet.  That is so for tokens used with single calls      *)
(* only: a bulk call adds what it got at once and may carry the count past *)
(* QUOTA, and a single call after it compares for equality, so a token     *)
(* that uses both may never make the others rotate.                        *)
(***************************************************************************)
QuotaRotates == \A c \in Consumers : At(c, "idle") /\ token[c].items >= QUOTA => Turned(c)

(***************************************************************************)
(* No producer starves: its elements are taken although others always have *)
(* more.                                                                   *)
(***************************************************************************)
EveryoneServed == \A p \in Producers : size[p] > 0 ~> (size[p] = 0 \/ served = p)
=============================================================================
