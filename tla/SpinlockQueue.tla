--------------------------- MODULE SpinlockQueue ---------------------------
(***************************************************************************)
(* atomic_queue_mutex.h and spinlock.h: the ring of AtomicQueueMutexT, its *)
(* head_ and tail_ plain counters of CounterBits bits, behind a            *)
(* TicketSpinlock or an UnfairSpinlock.  Threads call push() and pop() of  *)
(* RetryDecorator, which try until they succeed, as the benchmarks do. The *)
(* counters are not atomic: testing them, moving the element and moving    *)
(* the counter are steps of their own.  TakeBlindly and UnlockPlain are    *)
(* faulty variants of Exchange and Unlock; UnlockPlain is the other        *)
(* unlock() of TicketSpinlock, which no program of the repository calls.   *)
(***************************************************************************)
EXTENDS Naturals, Sequences

CONSTANTS Producers, Consumers,
          Locks,          \* the locks to look at, of {"ticket", "unfair"}
          size_,          \* slots of the ring, a power of two
          CounterBits,    \* width of unsigned
          PerProducer     \* bound: the elements a producer pushes

Threads == Producers \cup Consumers
RingAssumption == /\ size_ \in {2 ^ k : k \in 0 .. CounterBits} /\ Locks \subseteq {"ticket", "unfair"}
                         /\ Producers \cap Consumers = {}

VARIABLES kind,                \* which lock protects the ring
          ticket_, next_,      \* TicketSpinlock
          lock_,               \* UnfairSpinlock
          pc, mine,            \* mine[t]: the ticket t's lock() drew
          head_, tail_, q_,
          sent,                \* sent[p]: elements p has pushed
          entered,             \* history: elements in the order they were stored
          taken                \* history: elements in the order they were taken out

lockVars == <<ticket_, next_, lock_, mine>>
ringVars == <<head_, tail_, q_>>
vars == <<kind, lockVars, pc, ringVars, sent, entered, taken>>

Plus(n, k) == (n + k) % 2 ^ CounterBits
Minus(n, k) == (n + 2 ^ CounterBits - k) % 2 ^ CounterBits
Goto(t, label) == pc' = [pc EXCEPT ![t] = label]
Inside(t) == pc[t] \in {"try", "store", "advance", "unlock", "done"}

Init == /\ kind \in Locks
        /\ ticket_ = 0 /\ next_ = 0 /\ lock_ = 0
        /\ pc = [t \in Threads |-> "idle"] /\ mine = [t \in Threads |-> 0]
        /\ head_ = 0 /\ tail_ = 0 /\ q_ = [i \in 0 .. size_ - 1 |-> << >>]
        /\ sent = [p \in Producers |-> 0]
        /\ entered = << >> /\ taken = << >>
-----------------------------------------------------------------------------
(***************************************************************************)
(* TicketSpinlock::lock() draws a ticket and waits until it is next.       *)
(***************************************************************************)
Ticket(t) == /\ kind = "ticket" /\ pc[t] = "lock"
             /\ mine' = [mine EXCEPT ![t] = ticket_]
             /\ ticket_' = Plus(ticket_, 1)
             /\ Goto(t, "wait")
             /\ UNCHANGED <<kind, next_, lock_, ringVars, sent, entered, taken>>
Position(t) == Minus(mine[t], next_)
Acquire(t) == /\ kind = "ticket" /\ pc[t] = "wait" /\ Position(t) = 0
              /\ Goto(t, "try")
              /\ UNCHANGED <<kind, lockVars, ringVars, sent, entered, taken>>

(***************************************************************************)
(* UnfairSpinlock::lock() looks first and exchanges only if it was free.   *)
(***************************************************************************)
Load(t) == /\ kind = "unfair" /\ pc[t] = "lock" /\ lock_ = 0
           /\ Goto(t, "exchange")
           /\ UNCHANGED <<kind, lockVars, ringVars, sent, entered, taken>>
TakeBlindly(t) == /\ pc[t] = "exchange" /\ lock_' = 1
                  /\ Goto(t, "try")
                  /\ UNCHANGED <<kind, ticket_, next_, mine, ringVars, sent, entered, taken>>
Exchange(t) == /\ pc[t] = "exchange" /\ lock_' = 1
               /\ Goto(t, IF lock_ = 0 THEN "try" ELSE "lock")
               /\ UNCHANGED <<kind, ticket_, next_, mine, ringVars, sent, entered, taken>>

Spin(t) == /\ \/ kind = "ticket" /\ pc[t] = "wait" /\ Position(t) # 0
              \/ kind = "unfair" /\ pc[t] = "lock" /\ lock_ # 0
           /\ UNCHANGED vars

(***************************************************************************)
(* The destructor of the scoped lock.  "unlock" ends an attempt that found *)
(* the ring full or empty, "done" one that succeeded.                      *)
(***************************************************************************)
Released(t, next) == /\ pc[t] \in {"unlock", "done"}
                     /\ IF kind = "ticket" THEN next_' = next /\ lock_' = lock_
                                           ELSE lock_' = 0 /\ next_' = next_
                     /\ Goto(t, IF pc[t] = "unlock" THEN "lock" ELSE "idle")
                     /\ UNCHANGED <<kind, ticket_, mine, ringVars, sent, entered, taken>>
UnlockPlain(t) == Released(t, Plus(Plus(next_, 1), 1))
Unlock(t) == Released(t, Plus(mine[t], 1))
-----------------------------------------------------------------------------
(***************************************************************************)
(* push() and pop() of RetryDecorator, and try_push() and try_pop() under  *)
(* the lock: test, move the element, move the counter.                     *)
(***************************************************************************)
Call(t) == /\ pc[t] = "idle"
           /\ t \in Producers => sent[t] < PerProducer
           /\ Goto(t, "lock")
           /\ UNCHANGED <<kind, lockVars, ringVars, sent, entered, taken>>

Room == Minus(head_, tail_) < size_
Try(t) == /\ pc[t] = "try"
          /\ Goto(t, IF (IF t \in Producers THEN Room ELSE head_ # tail_) THEN "store" ELSE "unlock")
          /\ UNCHANGED <<kind, lockVars, ringVars, sent, entered, taken>>

Push(p) == /\ pc[p] = "store"
           /\ LET element == <<p, sent[p] + 1>>
              IN  q_' = [q_ EXCEPT ![head_ % size_] = element] /\ entered' = Append(entered, element)
           /\ sent' = [sent EXCEPT ![p] = @ + 1]
           /\ Goto(p, "advance")
           /\ UNCHANGED <<kind, lockVars, head_, tail_, taken>>
Pop(c) == /\ pc[c] = "store"
          /\ taken' = Append(taken, q_[tail_ % size_])
          /\ Goto(c, "advance")
          /\ UNCHANGED <<kind, lockVars, ringVars, sent, entered>>

Advance(t) == /\ pc[t] = "advance"
              /\ IF t \in Producers THEN head_' = Plus(head_, 1) /\ tail_' = tail_
                                    ELSE tail_' = Plus(tail_, 1) /\ head_' = head_
              /\ Goto(t, "done")
              /\ UNCHANGED <<kind, lockVars, q_, sent, entered, taken>>

Work(t) == \/ Ticket(t) \/ Acquire(t) \/ Load(t) \/ Exchange(t) \/ Spin(t) \/ Unlock(t)
           \/ Try(t) \/ Advance(t)
           \/ t \in Producers /\ Push(t)
           \/ t \in Consumers /\ Pop(t)
Next == \E t \in Threads : Call(t) \/ Work(t)

(***************************************************************************)
(* A thread that is in a call keeps running; when it calls is its own      *)
(* decision.                                                               *)
(***************************************************************************)
Spec == Init /\ [][Next]_vars /\ \A t \in Threads : WF_vars(Work(t))
-----------------------------------------------------------------------------
(***************************************************************************)
(* At most one thread is between lock() and unlock().                      *)
(***************************************************************************)
OneInside == \A t, u \in Threads : Inside(t) /\ Inside(u) => t = u

(***************************************************************************)
(* Elements leave the ring once and in the order they came, across the     *)
(* wrap of the counters, and none is overwritten before it has left.       *)
(***************************************************************************)
InOrder == \A i \in 1 .. Len(taken) : i <= Len(entered) /\ taken[i] = entered[i]

(***************************************************************************)
(* was_empty() and was_full() look at the counters without the lock.  When *)
(* nobody is moving a counter they agree with what is in the ring.         *)
(***************************************************************************)
CountsAgree == (\A t \in Threads : pc[t] # "advance")
                 => Minus(head_, tail_) = Len(entered) - Len(taken)

(***************************************************************************)
(* A thread that drew a ticket gets the lock.                              *)
(***************************************************************************)
Served == \A t \in Threads : pc[t] = "wait" ~> pc[t] = "try"
=============================================================================
