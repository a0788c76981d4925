----------------------------- MODULE ThreadExit -----------------------------
(***************************************************************************)
(* concurrentqueue/concurrentqueue.h: ThreadExitNotifier.  Each thread has *)
(* a list of listeners, one in every implicit producer it uses.  When the  *)
(* thread ends, ~ThreadExitNotifier() walks the list and calls them back;  *)
(* when a queue is destroyed, ~ImplicitProducer() takes its listener out   *)
(* of the list, unless the producer is inactive.  One mutex guards the     *)
(* lists.  What the callback does in the hash tables is ImplicitHash.      *)
(*                                                                         *)
(* A producer is its listener.  A step that reads a destroyed listener is  *)
(* undefined, and the thread is not followed any further.  ExitUnlocked is *)
(* a faulty variant of Exit.                                               *)
(***************************************************************************)
EXTENDS Naturals, Sequences, FiniteSets, SequencesExt

CONSTANTS Threads, Queues,
          PerQueue         \* bound: producers of a queue

ExitAssumption == "none" \notin Threads /\ PerQueue \in Nat

VARIABLES list,       \* list[t]: the listeners linked from tail on
          chain,      \* chain[l]: the thread whose list it is in, "none" otherwise
          inactive,   \* inactive[l]
          made,       \* the listeners of producers that exist
          mutex,      \* the ending thread that holds it, "none" otherwise
          thread,     \* thread[t]: where it is, the listener and the queues it has a producer of
          queue       \* queue[q]: where its destructor is, and the producer it destroys

vars == <<list, chain, inactive, made, mutex, thread, queue>>

Listeners == Queues \X (1 .. PerQueue)
None == <<>>
At(t, l) == thread[t].pc = l
Of(q) == {l \in made : l[1] = q}
Index(t, l) == CHOOSE k \in DOMAIN list[t] : list[t][k] = l

Init == /\ list = [t \in Threads |-> <<>>] /\ chain = [l \in Listeners |-> "none"]
        /\ inactive = [l \in Listeners |-> FALSE] /\ made = {} /\ mutex = "none"
        /\ thread = [t \in Threads |-> [pc |-> "run", at |-> None, uses |-> {}]]
        /\ queue = [q \in Queues |-> [pc |-> "alive", at |-> None]]
-----------------------------------------------------------------------------
(***************************************************************************)
(* The first enqueue of a thread to a queue, which must not be destroyed   *)
(* then: recycle a producer or create one, and subscribe().                *)
(***************************************************************************)
Enqueue(t, q, l) ==
    /\ At(t, "run") /\ queue[q].pc = "alive" /\ q \notin thread[t].uses
    /\ l[1] = q
    /\ \/ l \in made /\ inactive[l]
       \/ l[2] = Cardinality(Of(q)) + 1 /\ ~\E k \in Of(q) : inactive[k]
    /\ made' = made \cup {l} /\ inactive' = [inactive EXCEPT ![l] = FALSE]
    /\ thread' = [thread EXCEPT ![t] = [pc |-> "subscribe", at |-> l, uses |-> @.uses \cup {q}]]
    /\ UNCHANGED <<list, chain, mutex, queue>>

Subscribe(t) ==
    LET l == thread[t].at
    IN  /\ At(t, "subscribe") /\ mutex = "none"
        /\ list' = [list EXCEPT ![t] = <<l>> \o @]
        /\ chain' = [chain EXCEPT ![l] = t]
        /\ thread' = [thread EXCEPT ![t].pc = "run", ![t].at = None]
        /\ UNCHANGED <<inactive, made, mutex, queue>>
-----------------------------------------------------------------------------
(***************************************************************************)
(* ~ThreadExitNotifier()                                                   *)
(***************************************************************************)
Walk(t, k) == IF k > Len(list[t]) THEN [thread[t] EXCEPT !.pc = "unlock", !.at = None]
              ELSE [thread[t] EXCEPT !.pc = "callback", !.at = list[t][k]]

ExitUnlocked(t) == /\ At(t, "run")
                   /\ thread' = [thread EXCEPT ![t] = Walk(t, 1)]
                   /\ UNCHANGED <<list, chain, inactive, made, mutex, queue>>

Exit(t) == /\ At(t, "run") /\ mutex = "none"
           /\ mutex' = t
           /\ thread' = [thread EXCEPT ![t] = Walk(t, 1)]
           /\ UNCHANGED <<list, chain, inactive, made, queue>>

Callback(t) ==
    LET l == thread[t].at
    IN  /\ At(t, "callback")
        /\ chain' = [chain EXCEPT ![l] = "none"]
        /\ inactive' = [inactive EXCEPT ![l] = TRUE]
        /\ thread' = [thread EXCEPT ![t].pc = "next"]
        /\ UNCHANGED <<list, made, mutex, queue>>

ReadNext(t) ==
    LET l == thread[t].at
    IN  /\ At(t, "next")
        /\ thread' = [thread EXCEPT ![t] = IF l \in made THEN Walk(t, Index(t, l) + 1)
                                           ELSE [@ EXCEPT !.pc = "undefined"]]
        /\ UNCHANGED <<list, chain, inactive, made, mutex, queue>>

Gone(t) == /\ At(t, "unlock")
           /\ mutex' = IF mutex = t THEN "none" ELSE mutex
           /\ thread' = [thread EXCEPT ![t].pc = "gone"]
           /\ list' = [list EXCEPT ![t] = <<>>]
           /\ UNCHANGED <<chain, inactive, made, queue>>
-----------------------------------------------------------------------------
(***************************************************************************)
(* ~ConcurrentQueue(), when no thread is in the middle of an enqueue:      *)
(* ~ImplicitProducer() of every producer, in the order of the list.        *)
(***************************************************************************)
Pick(q) == IF Of(q) = {} THEN [pc |-> "destroyed", at |-> None]
           ELSE [pc |-> "producer", at |-> CHOOSE l \in Of(q) : \A k \in Of(q) : k[2] <= l[2]]

Destroy(q) == /\ queue[q].pc = "alive"
              /\ \A t \in Threads : ~(At(t, "subscribe") /\ thread[t].at[1] = q)
              /\ queue' = [queue EXCEPT ![q] = Pick(q)]
              /\ UNCHANGED <<list, chain, inactive, made, mutex, thread>>

LoadInactive(q) ==
    /\ queue[q].pc = "producer"
    /\ queue' = [queue EXCEPT ![q].pc = IF inactive[queue[q].at] THEN "free" ELSE "unsubscribe"]
    /\ UNCHANGED <<list, chain, inactive, made, mutex, thread>>

Unlink(l) == [list EXCEPT ![chain[l]] = RemoveAt(@, Index(chain[l], l))]

Unsubscribe(q) ==
    LET l == queue[q].at
    IN  /\ queue[q].pc = "unsubscribe" /\ mutex = "none"
        /\ \/ chain[l] = "none" /\ UNCHANGED <<list, chain>>
           \/ /\ chain[l] # "none"
              /\ list' = Unlink(l)
              /\ chain' = [chain EXCEPT ![l] = "none"]
        /\ queue' = [queue EXCEPT ![q].pc = "free"]
        /\ UNCHANGED <<inactive, made, mutex, thread>>

Free(q) == /\ queue[q].pc = "free"
           /\ made' = made \ {queue[q].at}
           /\ queue' = [queue EXCEPT ![q] = IF Of(q) = {queue[q].at} THEN [pc |-> "destroyed", at |-> None]
                                            ELSE [pc |-> "producer", at |-> <<q, queue[q].at[2] - 1>>]]
           /\ UNCHANGED <<list, chain, inactive, mutex, thread>>
-----------------------------------------------------------------------------
ThreadStep(t) == \/ Subscribe(t) \/ Exit(t) \/ Callback(t) \/ ReadNext(t) \/ Gone(t)
                 \/ \E q \in Queues, l \in Listeners : Enqueue(t, q, l)
QueueStep(q) == Destroy(q) \/ LoadInactive(q) \/ Unsubscribe(q) \/ Free(q)

Next == (\E t \in Threads : ThreadStep(t)) \/ (\E q \in Queues : QueueStep(q))

Spec == Init /\ [][Next]_vars
-----------------------------------------------------------------------------
(***************************************************************************)
(* A callback finds its producer alive, also when the queue is destroyed   *)
(* at the same time: either unsubscribe() was first, or it waits.          *)
(***************************************************************************)
CallbackAlive == \A t \in Threads : At(t, "callback") => thread[t].at \in made

(***************************************************************************)
(* The lists of the threads that have not begun to exit hold exactly the   *)
(* producers in use: none is left behind that was destroyed or recycled by *)
(* another thread, and none is in two lists.                               *)
(***************************************************************************)
Waiting == {t \in Threads : thread[t].pc \in {"run", "subscribe"}}
ListsExact == \A t \in Waiting :
                 /\ \A k \in DOMAIN list[t] : chain[list[t][k]] = t /\ list[t][k] \in made /\ ~inactive[list[t][k]]
                 /\ {l \in Listeners : chain[l] = t} = Range(list[t]) /\ Cardinality(Range(list[t])) = Len(list[t])
=============================================================================
