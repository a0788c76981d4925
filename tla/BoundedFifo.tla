---------------------------- MODULE BoundedFifo ----------------------------
(***************************************************************************)
(* What a single-producer single-consumer queue promises: elements come    *)
(* out once, in the order they went in, and at most Bound of them wait.    *)
(***************************************************************************)
EXTENDS Integers, Sequences

CONSTANTS Values, None, Bound

VARIABLES queue,   \* the elements waiting, oldest first
          taken    \* the element the consumer took last

vars == <<queue, taken>>

Init == queue = << >> /\ taken = None

Enqueue == \E v \in Values : /\ Len(queue) < Bound
                             /\ queue' = Append(queue, v)
                             /\ UNCHANGED taken

Dequeue == /\ queue # << >>
           /\ taken' = Head(queue)
           /\ queue' = Tail(queue)

Next == Enqueue \/ Dequeue

Spec == Init /\ [][Next]_vars
=============================================================================
