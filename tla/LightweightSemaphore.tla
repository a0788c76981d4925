------------------------ MODULE LightweightSemaphore ------------------------
(***************************************************************************)
(* concurrentqueue/lightweightsemaphore.h: a semaphore for any number of   *)
(* waiting and signalling threads, with waits for several units at once.   *)
(* m_count below zero is the number of waiters no signal has answered; the *)
(* kernel's semaphore m_sema (sem_t, external) is touched only for them.   *)
(*                                                                         *)
(* A loop around compare_exchange is one step when what the loop leaves    *)
(* behind is decided by the exchange that succeeds; the loop that settles  *)
(* a timeout acts on a value it loaded before, and is three steps.         *)
(***************************************************************************)
EXTENDS Integers, FiniteSets, FiniteSetsExt, Functions

CONSTANTS Threads,
          InitialCount,   \* the constructor's argument
          MaxUnits,       \* bound: units signalled in a behaviour
          Batch           \* bound: the largest argument of signal() and waitMany()

SemaphoreAssumption == /\ IsFiniteSet(Threads)
                              /\ InitialCount \in Nat /\ MaxUnits \in Nat /\ Batch \in Nat \ {0}

VARIABLES count,      \* m_count
          kernel,     \* the value of m_sema
          pc,         \* pc[t]: where t is inside signal(), wait() or waitMany()
          call,       \* call[t]: the wait's arguments, its result so far and its oldCount
          posts,      \* posts[t]: units t's signal() still has to post
          given,      \* history: units signalled, the initial ones included
          granted     \* history: units acquired

vars == <<count, kernel, pc, call, posts, given, granted>>

Timeouts == {"try", "none", "zero", "some"}   \* tryWait[Many](), no, a zero or a positive timeout
Call(max, timeout) == [max |-> max, timeout |-> timeout, got |-> 0, old |-> 0]

Init == /\ count = InitialCount /\ given = InitialCount
        /\ kernel = 0 /\ granted = 0
        /\ pc = [t \in Threads |-> "idle"]
        /\ call = [t \in Threads |-> Call(1, "try")]
        /\ posts = [t \in Threads |-> 0]

Goto(t, l) == pc' = [pc EXCEPT ![t] = l]

(***************************************************************************)
(* What one exchange takes from m_count: up to max of a positive count.    *)
(***************************************************************************)
Greedy(max) == IF count <= 0 THEN 0 ELSE IF count > max THEN max ELSE count

(***************************************************************************)
(* n more units for t.  A unit that came through the kernel or through the *)
(* decrement goes on to the rest of the batch.                             *)
(***************************************************************************)
Acquire(t, n) == /\ granted' = granted + n
                 /\ call' = [call EXCEPT ![t].got = @ + n, ![t].old = 0]

AcquireOne(t) == Acquire(t, 1) /\ Goto(t, IF call[t].max > 1 THEN "more" ELSE "done")
-----------------------------------------------------------------------------
(***************************************************************************)
(* A faulty variant: a timed-out waiter that adds to the count although it *)
(* changed.                                                                *)
(***************************************************************************)
Release(t, toRelease) == /\ posts' = [posts EXCEPT ![t] = toRelease]
                         /\ Goto(t, IF toRelease > 0 THEN "post" ELSE "idle")

SettleBlindly(t) == /\ pc[t] = "cas"
                    /\ count' = count + 1 /\ Goto(t, "done")
                    /\ UNCHANGED <<kernel, call, posts, given, granted>>

-----------------------------------------------------------------------------
(***************************************************************************)
(* signal(n): add n, then post to the kernel one by one for the waiters    *)
(* among them, at most n.                                                  *)
(***************************************************************************)
Signal(t, n) == /\ pc[t] = "idle" /\ given + n <= InitialCount + MaxUnits
                /\ count' = count + n /\ given' = given + n
                /\ Release(t, IF -count < n THEN Max({-count, 0}) ELSE n)
                /\ UNCHANGED <<kernel, call, granted>>

Post(t) == /\ pc[t] = "post"
           /\ kernel' = kernel + 1
           /\ Release(t, posts[t] - 1)
           /\ UNCHANGED <<count, call, given, granted>>

(***************************************************************************)
(* tryWait() and tryWaitMany(max), which is also how wait() and waitMany() *)
(* begin.                                                                  *)
(***************************************************************************)
TryWaitMany(t, max, timeout) ==
    LET n == Greedy(max)
    IN  /\ pc[t] = "idle"
        /\ count' = count - n /\ granted' = granted + n
        /\ call' = [call EXCEPT ![t] = [Call(max, timeout) EXCEPT !.got = n]]
        /\ Goto(t, IF n > 0 \/ max = 0 \/ timeout = "try" THEN "done" ELSE "spin")
        /\ UNCHANGED <<kernel, posts, given>>

(***************************************************************************)
(* wait[Many]WithPartialSpinning(): spin, then decrement and sleep.  How   *)
(* often it spins makes no difference to what it may see.                  *)
(***************************************************************************)
Spin(t) == /\ pc[t] = "spin" /\ count > 0
           /\ count' = count - Greedy(call[t].max)
           /\ Acquire(t, Greedy(call[t].max)) /\ Goto(t, "done")
           /\ UNCHANGED <<kernel, posts, given>>

Decrement(t) == /\ pc[t] = "spin"
                /\ count' = count - 1
                /\ IF count > 0 THEN AcquireOne(t)
                   ELSE /\ Goto(t, IF call[t].timeout = "zero" THEN "load" ELSE "sleep")
                        /\ UNCHANGED <<call, granted>>
                /\ UNCHANGED <<kernel, posts, given>>

Wake(t) == /\ pc[t] = "sleep" /\ kernel > 0
           /\ kernel' = kernel - 1 /\ AcquireOne(t)
           /\ UNCHANGED <<count, posts, given>>

TimeOut(t) == /\ pc[t] = "sleep" /\ kernel = 0 /\ call[t].timeout = "some"
              /\ Goto(t, "load")
              /\ UNCHANGED <<count, kernel, call, posts, given, granted>>

(***************************************************************************)
(* After a timeout: load m_count.  If signals have caught up, one unit of  *)
(* the kernel is this waiter's, as soon as it is posted; otherwise take    *)
(* the decrement back, provided the count is still the loaded one.         *)
(***************************************************************************)
Load(t) == /\ pc[t] = "load"
           /\ call' = [call EXCEPT ![t].old = count]
           /\ Goto(t, IF count >= 0 THEN "trywait" ELSE "cas")
           /\ UNCHANGED <<count, kernel, posts, given, granted>>

KernelTryWait(t) == /\ pc[t] = "trywait"
                    /\ IF kernel > 0 THEN kernel' = kernel - 1 /\ AcquireOne(t)
                       ELSE Goto(t, "load") /\ UNCHANGED <<kernel, call, granted>>
                    /\ UNCHANGED <<count, posts, given>>

Settle(t) == /\ pc[t] = "cas"
             /\ IF count = call[t].old THEN count' = count + 1 /\ Goto(t, "done")
                ELSE Goto(t, "load") /\ UNCHANGED count
             /\ UNCHANGED <<kernel, call, posts, given, granted>>

(***************************************************************************)
(* 1 + tryWaitMany(max - 1): the rest of the batch, if it is there.        *)
(***************************************************************************)
WaitMore(t) == LET n == Greedy(call[t].max - 1)
               IN  /\ pc[t] = "more"
                   /\ count' = count - n
                   /\ Acquire(t, n) /\ Goto(t, "done")
                   /\ UNCHANGED <<kernel, posts, given>>

Return(t) == /\ pc[t] = "done"
             /\ Goto(t, "idle")
             /\ call' = [call EXCEPT ![t] = Call(1, "try")]
             /\ UNCHANGED <<count, kernel, posts, given, granted>>

availableApprox == Max({count, 0})
-----------------------------------------------------------------------------
(***************************************************************************)
(* The steps of a thread inside a call.                                    *)
(***************************************************************************)
Inside(t) == \/ Post(t) \/ Spin(t) \/ Decrement(t) \/ Wake(t) \/ TimeOut(t) \/ Load(t)
             \/ KernelTryWait(t) \/ Settle(t) \/ WaitMore(t)

Next == \E t \in Threads :
          \/ Inside(t) \/ Return(t)
          \/ \E n \in 1 .. Batch : Signal(t, n)
          \/ \E max \in 0 .. Batch, timeout \in Timeouts : TryWaitMany(t, max, timeout)

Spec == Init /\ [][Next]_vars
-----------------------------------------------------------------------------
TypeOK == /\ count \in Int /\ kernel \in Nat /\ given \in Nat /\ granted \in Nat
          /\ pc \in [Threads -> {"idle", "post", "spin", "sleep", "load", "trywait", "cas", "more", "done"}]
          /\ call \in [Threads -> [max : 0 .. Batch, timeout : Timeouts, got : 0 .. Batch, old : Int]]
          /\ posts \in [Threads -> 0 .. Batch]

Owing == {t \in Threads : pc[t] \in {"sleep", "load", "trywait", "cas"}}  \* decremented, not settled
Coming == kernel + SumFunction(posts)                                     \* there or about to be posted

(***************************************************************************)
(* m_count is what was given less what was taken and what the waiters owe: *)
(* whatever the interleaving, no unit is taken twice, made up or lost.     *)
(***************************************************************************)
CountIsAccurate == count = given - granted - Cardinality(Owing)

(***************************************************************************)
(* The kernel has a unit, there or about to be posted, for each waiter a   *)
(* signal has answered and for no other: no sleeper is left behind by a    *)
(* signal(n), and no stray unit wakes a wait for nothing.                  *)
(***************************************************************************)
KernelMatches == Coming = Cardinality(Owing) - Max({-count, 0})

(***************************************************************************)
(* A wait for one unit or more fails only while the units not yet taken    *)
(* are fewer than the waiters with a claim on them, the failing one too.   *)
(***************************************************************************)
FailsOnlyShort == [][\A t \in Threads : pc[t] \in {"cas", "trywait"} /\ pc'[t] = "done" /\ call'[t].got = 0
                                          => given - granted < Cardinality(Owing)]_vars

(***************************************************************************)
(* waitMany(max)'s contract and its assertion: never more than max, and at *)
(* least one unless it had a timeout.                                      *)
(***************************************************************************)
BatchContract == \A t \in Threads : pc[t] = "done" =>
                    /\ call[t].got <= call[t].max
                    /\ call[t].timeout = "none" /\ call[t].max > 0 => call[t].got > 0
=============================================================================
