--------------------------- MODULE SpscSemaphore ---------------------------
(***************************************************************************)
(* readerwriterqueue/atomicops.h, namespace spsc_sema: a semaphore for one *)
(* waiting and one signalling thread.  m_count is decremented before the   *)
(* waiter sleeps in the kernel's semaphore m_sema, and a waiter that timed *)
(* out has to take its decrement back while a signal may be on its way.    *)
(*                                                                         *)
(* The module describes a family of semaphores, one per element of Semas,  *)
(* each with its own pair of threads.                                      *)
(***************************************************************************)
EXTENDS Integers

CONSTANTS Semas,
          InitialCount,   \* InitialCount[s]: the constructor's argument
          MaxSignals      \* bound: signals per semaphore in a behaviour

CountAssumption == InitialCount \in [Semas -> Nat] /\ MaxSignals \in Nat

VARIABLES count,      \* count[s]: m_count
          kernel,     \* kernel[s]: the value of the kernel's semaphore m_sema
          spc,        \* spc[s]: the signalling thread inside signal()
          wpc,        \* wpc[s]: the waiting thread inside tryWait() or wait()
          timeout,    \* timeout[s]: the argument of the wait: "try", "none", "zero" or "some"
          given,      \* history: units signalled, the initial ones included
          granted     \* history: units acquired

vars == <<count, kernel, spc, wpc, timeout, given, granted>>

Init == /\ count = InitialCount /\ given = InitialCount
        /\ kernel = [s \in Semas |-> 0] /\ granted = [s \in Semas |-> 0]
        /\ spc = [s \in Semas |-> "idle"] /\ wpc = [s \in Semas |-> "idle"]
        /\ timeout = [s \in Semas |-> "try"]

Add(f, s, n) == [f EXCEPT ![s] = @ + n]
At(f, s, v) == [f EXCEPT ![s] = v]

(***************************************************************************)
(* The waiter leaves with a unit ("got") or without one ("failed").        *)
(***************************************************************************)
Grant(s) == granted' = Add(granted, s, 1) /\ wpc' = At(wpc, s, "got")
-----------------------------------------------------------------------------
(***************************************************************************)
(* Faulty variants of the steps below, used to see that the properties     *)
(* notice them: a signal that never posts, a waiter that goes without its  *)
(* post.                                                                   *)
(***************************************************************************)
PostForgotten(s) == /\ spc[s] = "post"
                    /\ spc' = At(spc, s, "idle")
                    /\ UNCHANGED <<count, kernel, wpc, timeout, given, granted>>

KernelTryWaitIgnored(s) == /\ wpc[s] = "trywait"
                           /\ Grant(s)
                           /\ UNCHANGED <<count, kernel, spc, timeout, given>>
-----------------------------------------------------------------------------
(***************************************************************************)
(* signal(): add one, and post to the kernel if the waiter is behind.      *)
(***************************************************************************)
Signal(s) == /\ spc[s] = "idle"
             /\ given[s] < InitialCount[s] + MaxSignals
             /\ count' = Add(count, s, 1) /\ given' = Add(given, s, 1)
             /\ spc' = At(spc, s, IF count[s] < 0 THEN "post" ELSE "idle")
             /\ UNCHANGED <<kernel, wpc, timeout, granted>>

Post(s) == /\ spc[s] = "post"
           /\ kernel' = Add(kernel, s, 1)
           /\ spc' = At(spc, s, "idle")
           /\ UNCHANGED <<count, wpc, timeout, given, granted>>

(***************************************************************************)
(* tryWait(): load m_count and, if it is positive, decrement it.  Only     *)
(* this thread decrements, so the value cannot have gone.                  *)
(***************************************************************************)
TryWait(s, t) == /\ wpc[s] = "idle"
                 /\ timeout' = At(timeout, s, t)
                 /\ wpc' = At(wpc, s, IF count[s] > 0 THEN "grab" ELSE IF t = "try" THEN "failed" ELSE "spin")
                 /\ UNCHANGED <<count, kernel, spc, given, granted>>

Grab(s) == /\ wpc[s] = "grab"
           /\ count' = Add(count, s, -1)
           /\ Grant(s)
           /\ UNCHANGED <<kernel, spc, timeout, given>>

(***************************************************************************)
(* waitWithPartialSpinning(): spin for a while, then decrement and sleep.  *)
(* How often it spins makes no difference to what it may see.              *)
(***************************************************************************)
Spin(s) == /\ wpc[s] = "spin" /\ count[s] > 0
           /\ wpc' = At(wpc, s, "grab")
           /\ UNCHANGED <<count, kernel, spc, timeout, given, granted>>

Decrement(s) == /\ wpc[s] = "spin"
                /\ count' = Add(count, s, -1)
                /\ IF count[s] > 0
                   THEN Grant(s)
                   ELSE /\ wpc' = At(wpc, s, IF timeout[s] = "zero" THEN "restore" ELSE "sleep")
                        /\ UNCHANGED granted
                /\ UNCHANGED <<kernel, spc, timeout, given>>

Wake(s) == /\ wpc[s] = "sleep" /\ kernel[s] > 0
           /\ kernel' = Add(kernel, s, -1)
           /\ Grant(s)
           /\ UNCHANGED <<count, spc, timeout, given>>

TimeOut(s) == /\ wpc[s] = "sleep" /\ kernel[s] = 0 /\ timeout[s] = "some"
              /\ wpc' = At(wpc, s, "restore")
              /\ UNCHANGED <<count, kernel, spc, timeout, given, granted>>

(***************************************************************************)
(* After a timeout: take the decrement back; if a signal came meanwhile,   *)
(* decrement again and take the kernel's unit that belongs to it, as often *)
(* as it takes the signaller to post it.                                   *)
(***************************************************************************)
Restore(s) == /\ wpc[s] = "restore"
              /\ count' = Add(count, s, 1)
              /\ wpc' = At(wpc, s, IF count[s] < 0 THEN "failed" ELSE "undo")
              /\ UNCHANGED <<kernel, spc, timeout, given, granted>>

Undo(s) == /\ wpc[s] = "undo"
           /\ count' = Add(count, s, -1)
           /\ wpc' = At(wpc, s, IF count[s] > 0 THEN "trywait" ELSE "restore")
           /\ UNCHANGED <<kernel, spc, timeout, given, granted>>

KernelTryWait(s) == /\ wpc[s] = "trywait"
                    /\ IF kernel[s] > 0
                       THEN kernel' = Add(kernel, s, -1) /\ Grant(s)
                       ELSE wpc' = At(wpc, s, "restore") /\ UNCHANGED <<kernel, granted>>
                    /\ UNCHANGED <<count, spc, timeout, given>>

Return(s) == /\ wpc[s] \in {"got", "failed"}
             /\ wpc' = At(wpc, s, "idle")
             /\ UNCHANGED <<count, kernel, spc, timeout, given, granted>>

availableApprox(s) == IF count[s] > 0 THEN count[s] ELSE 0
-----------------------------------------------------------------------------
Waiter(s) == \/ Grab(s) \/ Spin(s) \/ Decrement(s) \/ Wake(s) \/ TimeOut(s)
             \/ Restore(s) \/ Undo(s) \/ KernelTryWait(s) \/ Return(s)

Next == \E s \in Semas : \/ Signal(s) \/ Post(s) \/ Waiter(s)
                         \/ \E t \in {"try", "none", "zero", "some"} : TryWait(s, t)

Spec == Init /\ [][Next]_vars

(***************************************************************************)
(* Threads inside signal() or a wait keep running (a sleeping one once it  *)
(* can be woken).                                                          *)
(***************************************************************************)
FairSpec == Spec /\ \A s \in Semas : WF_vars(Post(s)) /\ WF_vars(Waiter(s))
-----------------------------------------------------------------------------
TypeOK == /\ count \in [Semas -> Int] /\ kernel \in [Semas -> 0 .. 1]
          /\ spc \in [Semas -> {"idle", "post"}]
          /\ wpc \in [Semas -> {"idle", "grab", "spin", "sleep", "restore", "undo", "trywait", "got", "failed"}]
          /\ timeout \in [Semas -> {"try", "none", "zero", "some"}]
          /\ given \in [Semas -> Nat] /\ granted \in [Semas -> Nat]

Owing(s) == wpc[s] \in {"sleep", "restore", "trywait"}     \* decremented and not settled
Coming(s) == kernel[s] + IF spc[s] = "post" THEN 1 ELSE 0  \* kernel units there or on their way

(***************************************************************************)
(* m_count is what was given less what was taken and what the waiter owes: *)
(* no path, timeout or not, takes a unit twice or makes one up.            *)
(***************************************************************************)
CountIsAccurate == \A s \in Semas : count[s] = given[s] - granted[s] - IF Owing(s) THEN 1 ELSE 0

(***************************************************************************)
(* The kernel's semaphore has a unit, there or on its way, exactly when    *)
(* the waiter owes one that has been signalled: no late post is left to    *)
(* wake the next wait for nothing, and no sleeper is without one.          *)
(***************************************************************************)
KernelMatches == \A s \in Semas : Coming(s) = IF (Owing(s) /\ count[s] >= 0) \/ wpc[s] = "undo" THEN 1 ELSE 0

(***************************************************************************)
(* The assertion in signal(): m_count never falls below -1.                *)
(***************************************************************************)
SignalAssert == \A s \in Semas : count[s] >= -1

(***************************************************************************)
(* A wait only fails when no unit is there at that moment.                 *)
(***************************************************************************)
FailsOnlyEmpty == [][\A s \in Semas : wpc'[s] = "failed" /\ wpc[s] # "failed" => given[s] = granted[s]]_vars
=============================================================================
