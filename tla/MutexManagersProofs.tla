------------------------ MODULE MutexManagersProofs ------------------------
(***************************************************************************)
(* The safety of MutexManagers, proved for every MAX_QUEUE_SIZE, every     *)
(* number of events and every pipe capacity, and whichever of the          *)
(* producers main() starts.                                                *)
(***************************************************************************)
EXTENDS MutexManagers, Integers, Sequences, SequenceTheorems, TLAPS

PP == INSTANCE PipedEventProofs WITH Pipes <- Managers

(* A sequence holds the same elements here as in the lemmas about          *)
(* sequences of events that PipedEventProofs states.                       *)
LEMMA SameEvents == /\ PP!PipeAssumption
                    /\ \A s : PP!Range(s) = Range(s)
  BY MutexAssumption DEF PP!PipeAssumption, PP!Range, Range

A == "ManagerA"
B == "ManagerB"
Event == Producers \X Nat

(***************************************************************************)
(* The inductive invariant, in parts.  First the types.                    *)
(***************************************************************************)
Shape == /\ mpc \in [Managers -> {"new", "top", "lock", "count", "fire", "unlock", "drop", "exited"}]
         /\ mRunning \in [Managers -> BOOLEAN] /\ running \in BOOLEAN
         /\ mutex \in [Managers -> {"free", "thread", "main"}]
         /\ queue \in [Managers -> Seq(Event)] /\ batch \in Seq(Event)
         /\ made \in [Producers -> Nat] /\ dropped \in [Producers -> SUBSET Nat]
         /\ received \in [Producers -> Seq(Nat)]
         /\ \A m \in Producers : made[m] <= MaxEvents
         /\ counters \subseteq Managers
         /\ txCount \in [Managers -> Nat] /\ rxCount \in [Managers -> Nat]
         /\ lpc \in {"start", "startC", "loop", "wait", "serve", "lock", "consume", "unlock", "forward",
                     "fire", "unlockC", "stop", "join", "ended"}
         /\ next \in 1 .. 3 /\ ready \subseteq Managers /\ cur \in Managers

(***************************************************************************)
(* Who holds a mutex, and that only its holder is inside Fire() or         *)
(* Consume().  ManagerC's thread touches neither.                          *)
(***************************************************************************)
HeldByThread(m) == m # C /\ mpc[m] \in {"count", "fire", "unlock"}
HeldByMain(m) == \/ m = cur /\ lpc \in {"consume", "unlock"}
                 \/ m = C /\ lpc \in {"fire", "unlockC"}

Owners == /\ \A m \in Managers : /\ mutex[m] = "thread" <=> HeldByThread(m)
                                 /\ mutex[m] = "main" <=> HeldByMain(m)
                                 /\ cpc[m] # "idle" => m = cur /\ lpc = "consume"
                                 /\ fpc[m] # "idle" => \/ m # C /\ mpc[m] = "fire"
                                                       \/ m = C /\ lpc = "fire"
          /\ mpc[C] \in {"new", "top", "exited"}
          /\ lpc \in {"fire", "unlockC"} => cur # C

(***************************************************************************)
(* Where the events are: a list that main() has just swapped is empty, one *)
(* that a thread has just added to is not, and an event in a list either   *)
(* has its byte in the pipe or its Fire() is still to come.                *)
(***************************************************************************)
Firing(m) == \/ m # C /\ mpc[m] \in {"count", "fire"}
             \/ m = C /\ lpc = "fire"

Wakeups == \A m \in Managers : /\ m = cur /\ lpc \in {"consume", "unlock"} => queue[m] = << >>
                               /\ m # C /\ mpc[m] = "count" => queue[m] # << >>
                               /\ queue[m] # << >> => bytes[m] > 0 \/ Firing(m)

Sizes == \A m \in Producers : /\ Len(queue[m]) <= MAX_QUEUE_SIZE + 1
                              /\ mpc[m] = "lock" => Len(queue[m]) <= MAX_QUEUE_SIZE

(***************************************************************************)
(* What main() has started.                                                *)
(***************************************************************************)
Setup == /\ \A m \in Managers : mpc[m] # "new" => m \in counters
         /\ lpc = "start" => counters = {}
         /\ \A m \in Producers : made[m] > 0 => m \in counters
         /\ lpc \notin {"start", "startC"} => C \in counters
         /\ \A m \in Managers \ counters : txCount[m] = 0 /\ rxCount[m] = 0

(***************************************************************************)
(* The order in which the events pass through the lists: on the way to     *)
(* ManagerC the batch comes after ManagerC's list, on the way back before. *)
(***************************************************************************)
InLine == /\ PP!Ordered(batch) /\ \A m \in Managers : PP!Ordered(queue[m])
          /\ \A m \in Producers : /\ \A e \in Range(queue[m]) : e[1] = m
                                  /\ PP!Before(Range(batch), Range(queue[m]))
                                  /\ PP!Before(Range(queue[C]), Range(queue[m]))
          /\ IF cur = C THEN PP!Before(Range(batch), Range(queue[C]))
                        ELSE PP!Before(Range(queue[C]), Range(batch))
          /\ batch # << >> => lpc \in {"consume", "unlock", "forward", "fire", "unlockC"}

(***************************************************************************)
(* Each event of m that its thread has emplaced is in a list or received.  *)
(***************************************************************************)
Travels(m, n) == <<m, n>> \in Range(batch) \cup Range(queue[C]) \cup Range(queue[m])

InHand(m, n) == mpc[m] \in {"lock", "drop"} /\ n = made[m]

Once(m) == /\ PP!Increasing(received[m])
           /\ dropped[m] \subseteq 1 .. made[m]
           /\ mpc[m] \in {"lock", "drop"} => made[m] > 0 /\ made[m] \notin dropped[m]
           /\ \A n : Travels(m, n) => \A k \in Range(received[m]) : k < n
           /\ \A n : Travels(m, n) \/ n \in Range(received[m])
                       <=> n \in 1 .. made[m] /\ n \notin dropped[m] /\ ~InHand(m, n)

(***************************************************************************)
(* The counters and the lengths of the lists.                              *)
(***************************************************************************)
Size(q) == Len(q)

Uncounted(m) == IF mpc[m] = "count" THEN 1 ELSE 0

Going == IF cur = C THEN 0 ELSE Size(batch)
Returning == IF cur = C THEN Size(batch) ELSE 0

Counts == /\ txCount[A] + Uncounted(A) + txCount[B] + Uncounted(B) =
               rxCount[C] + Size(queue[A]) + Size(queue[B]) + Going
          /\ txCount[C] = rxCount[A] + rxCount[B] + Size(queue[C]) + Returning

IInv == /\ PP!IInv /\ Shape /\ Owners /\ Wakeups /\ Sizes /\ Setup
        /\ InLine /\ (\A m \in Producers : Once(m)) /\ Counts
-----------------------------------------------------------------------------
(* The managers of main.cpp, by name. *)
LEMMA Names == /\ Managers = {A, B, C} /\ Producers = {A, B}
               /\ Len(Order) = 3 /\ \A i \in 1 .. 3 : Order[i] \in Managers
<1>1. Len(Order) = 3 /\ DOMAIN Order = 1 .. 3 /\ Order[1] = A /\ Order[2] = B /\ Order[3] = C
  BY DEF Order, A, B, C
<1>2. Managers = {Order[i] : i \in 1 .. 3}
  BY <1>1 DEF Managers, Range
<1>3. \A i : i \in 1 .. 3 <=> i = 1 \/ i = 2 \/ i = 3
  OBVIOUS
<1>4. Managers = {A, B, C}
  BY <1>1, <1>2, <1>3
<1> QED
  BY <1>1, <1>3, <1>4 DEF Producers, A, B, C

(* The initial state satisfies the inductive invariant. *)
LEMMA InitIInv == Init => IInv
<1> SUFFICES ASSUME Init PROVE IInv
  OBVIOUS
<1>0. /\ \A m \in Managers : queue[m] = << >> /\ mpc[m] = "new" /\ mutex[m] = "free"
                             /\ txCount[m] = 0 /\ rxCount[m] = 0
      /\ \A m \in Producers : m \in Managers /\ made[m] = 0 /\ dropped[m] = {} /\ received[m] = << >>
      /\ A \in Managers /\ B \in Managers /\ C \in Managers /\ A \in Producers /\ B \in Producers
      /\ batch = << >> /\ lpc = "start" /\ cur = C /\ ready = {} /\ counters = {} /\ next = 1
  BY Names DEF Init
<1>1. PP!IInv
  BY PP!InitIInv, MutexAssumption DEF Init, P!Init, PP!Init, PP!PipeAssumption
<1>2. Shape
  <2>1. << >> \in Seq(Event) /\ << >> \in Seq(Nat)
    BY EmptySeq
  <2> QED
    BY <1>0, <2>1, MutexAssumption DEF Init, Shape
<1>3. Owners
  <2>1. \A m \in Managers : fpc[m] = "idle" /\ cpc[m] = "idle"
    BY DEF Init, P!Init
  <2> QED
    BY <1>0, <2>1 DEF Owners, HeldByThread, HeldByMain
<1>4. Wakeups /\ Setup
  BY <1>0 DEF Wakeups, Setup
<1>5. Sizes /\ Counts
  <2>1. Len(<< >>) = 0
    OBVIOUS
  <2> QED
    BY <1>0, <2>1, MutexAssumption DEF Sizes, Counts, Size, Uncounted, Going, Returning
<1>6. InLine
  BY SameEvents, <1>0, PP!EmptyIncreasing, PP!EmptyOrdered DEF InLine
<1>7. \A m \in Producers : Once(m)
  BY SameEvents, <1>0, PP!EmptyIncreasing DEF Once, Travels, InHand
<1> QED
  BY <1>1, <1>2, <1>3, <1>4, <1>5, <1>6, <1>7 DEF IInv
-----------------------------------------------------------------------------
(* Every step is one of PipedEvent, or leaves the pipes as they are. *)
LEMMA PipeStep == ASSUME Shape, [Next]_vars PROVE [PP!Next]_(PP!vars)
<1> USE DEF pipeVars, PP!vars
<1>0. cur \in Managers /\ C \in Managers /\ \A m \in Producers : m \in Managers
  BY Names DEF Shape
<1>1. ASSUME NEW m \in Managers, P!FireCheck(m) \/ P!FireStore(m) \/ P!FireWrite(m) PROVE PP!Next
  BY <1>1 DEF PP!Next, P!FireCheck, P!FireStore, P!FireWrite, PP!FireCheck, PP!FireStore, PP!FireWrite
<1>2. ASSUME NEW m \in Producers, Fire(m) PROVE PP!Next
  BY <1>0, <1>1, <1>2 DEF Fire
<1>3. ASSUME FireC PROVE PP!Next
  BY <1>0, <1>1, <1>3 DEF FireC
<1>4. ASSUME ConsumeEvent PROVE PP!Next
  BY <1>0, <1>4 DEF ConsumeEvent, PP!Next, P!ConsumeCheck, P!ConsumeRead, P!ConsumeReset, P!Readable,
                    PP!ConsumeCheck, PP!ConsumeRead, PP!ConsumeReset, PP!Readable
<1>5. ASSUME NEW m, \/ ThreadExit(m) \/ CheckSize(m) \/ CountDrop(m) \/ Emplace(m)
                    \/ CountTx(m) \/ Unlock(m)
      PROVE  UNCHANGED PP!vars
  BY <1>5 DEF ThreadExit, CheckSize, CountDrop, Emplace, CountTx, Unlock
<1>6. ASSUME Run \/ RunC \/ SignalHandler \/ CheckRunning \/ Wait \/ Serve \/ AllServed \/ Swap \/ Produced
      PROVE  UNCHANGED PP!vars
  BY <1>6 DEF Run, RunC, SignalHandler, CheckRunning, Wait, Serve, AllServed, Swap, Produced
<1>7. ASSUME ConsumeC \/ UnlockC \/ Return \/ Forwarded \/ Stop \/ Join \/ Ended \/ UNCHANGED vars
      PROVE  UNCHANGED PP!vars
  BY <1>7 DEF ConsumeC, UnlockC, Return, Forwarded, Stop, Join, Ended, vars
<1> QED
  BY <1>2, <1>3, <1>4, <1>5, <1>6, <1>7 DEF Next, ProducerThread, MainThread

(* The invariant of the pipes is preserved. *)
LEMMA PipeIInv == ASSUME IInv, [Next]_vars PROVE PP!IInv'
  BY PipeStep, PP!NextIInv, MutexAssumption DEF IInv, PP!PipeAssumption

(* What the invariant of the pipes says here. *)
LEMMA PipeFacts == ASSUME PP!IInv
                   PROVE  /\ fired \in [Managers -> BOOLEAN] /\ bytes \in [Managers -> Nat]
                          /\ fpc \in [Managers -> {"idle", "store", "write"}]
                          /\ cpc \in [Managers -> {"idle", "read", "reset"}]
                          /\ \A m \in Managers : PP!Quiet(m) \/ PP!Signalled(m)
  BY MutexAssumption DEF PP!IInv, PP!TypeOK

(* Every step preserves the types. *)
LEMMA ShapeStep == ASSUME IInv, [Next]_vars PROVE Shape'
<1> USE DEF Shape, pipeVars, threadVars, countVars, mainVars
<1>0. Shape /\ PP!Ordered(batch) /\ \A m \in Producers : m \in Managers /\ m \in {A, B}
  BY Names DEF IInv, InLine
<1>n. /\ C \in Managers /\ MaxEvents \in Nat
      /\ \A i \in 1 .. 3 : Order[i] \in Managers
  BY Names, MutexAssumption
<1>1. ASSUME NEW m \in Producers, CheckSize(m) PROVE Shape'
  <2>1. made[m] \in Nat
    BY <1>0
  <2>2. made[m] + 1 \in Nat /\ made[m] + 1 <= MaxEvents
    <3>1. made[m] < MaxEvents
      BY <1>1 DEF CheckSize
    <3> QED
      BY <1>n, <2>1, <3>1
  <2>3. /\ made' = [made EXCEPT ![m] = made[m] + 1]
        /\ \E v \in {"drop", "lock"} : mpc' = [mpc EXCEPT ![m] = v]
        /\ UNCHANGED <<dropped, mRunning, mutex, queue, countVars, mainVars>>
    BY <1>1 DEF CheckSize
  <2>4. made' \in [Producers -> Nat] /\ \A k \in Producers : made'[k] <= MaxEvents
    BY <1>0, <2>2, <2>3
  <2> QED
    BY <1>0, <2>3, <2>4
<1>2. ASSUME NEW m \in Producers, CountDrop(m) PROVE Shape'
  BY <1>0, <1>2 DEF CountDrop
<1>3. ASSUME NEW m \in Producers, Emplace(m) PROVE Shape'
  <2>1. Append(queue[m], <<m, made[m]>>) \in Seq(Event)
    BY <1>0, AppendProperties DEF Event
  <2> QED
    BY <1>0, <1>3, <2>1 DEF Emplace
<1>4. ASSUME NEW m \in Producers, CountTx(m) PROVE Shape'
  <2>1. txCount[m] + 1 \in Nat /\ txCount' = [txCount EXCEPT ![m] = txCount[m] + 1]
    BY <1>0, <1>4 DEF CountTx
  <2>2. txCount' \in [Managers -> Nat]
    BY <1>0, <2>1
  <2> QED
    BY <1>0, <1>4, <2>2 DEF CountTx
<1>5. ASSUME NEW m \in Managers, ThreadExit(m) PROVE Shape'
  BY <1>0, <1>5 DEF ThreadExit
<1>6. ASSUME NEW m \in Producers, Fire(m) \/ Unlock(m) PROVE Shape'
  BY <1>0, <1>6 DEF Fire, Unlock
<1>7. ASSUME Run PROVE Shape'
  BY <1>0, <1>7, Names, MutexAssumption DEF Run
<1>8. ASSUME RunC \/ SignalHandler \/ CheckRunning \/ Wait \/ Serve \/ AllServed PROVE Shape'
  BY <1>0, <1>n, <1>8 DEF RunC, SignalHandler, CheckRunning, Wait, Serve, AllServed
<1>9. ASSUME Swap \/ ConsumeEvent \/ Produced \/ FireC \/ UnlockC \/ Forwarded PROVE Shape'
  <2>1. CASE Swap
    <3>1. << >> \in Seq(Event)
      BY EmptySeq
    <3> QED
      BY <1>0, <2>1, <3>1 DEF Swap
  <2>2. CASE ConsumeEvent \/ FireC \/ Forwarded
    BY <1>0, <2>2 DEF ConsumeEvent, FireC, Forwarded
  <2>3. CASE Produced \/ UnlockC
    BY <1>0, <1>n, <2>3 DEF Produced, UnlockC
  <2> QED
    BY <1>9, <2>1, <2>2, <2>3
<1>10. ASSUME ConsumeC PROVE Shape'
  <2>1. Head(batch) \in Event /\ Tail(batch) \in Seq(Event)
    BY <1>0, <1>10, HeadTailProperties DEF ConsumeC
  <2>2. Append(queue[C], Head(batch)) \in Seq(Event)
    BY <1>0, <1>n, <2>1, AppendProperties
  <2>3. rxCount[C] + 1 \in Nat /\ txCount[C] + 1 \in Nat
    <3>1. rxCount[C] \in Nat /\ txCount[C] \in Nat
      BY <1>0, <1>n
    <3> QED
      BY <3>1
  <2> QED
    BY <1>0, <1>n, <1>10, <2>1, <2>2, <2>3 DEF ConsumeC
<1>11. ASSUME Return PROVE Shape'
  <2>1. Head(batch) \in Event /\ Tail(batch) \in Seq(Event)
    BY <1>0, <1>11, HeadTailProperties DEF Return
  <2>2. Head(batch)[1] \in Producers /\ Head(batch)[2] \in Nat
    BY <2>1 DEF Event
  <2>3. /\ Append(received[Head(batch)[1]], Head(batch)[2]) \in Seq(Nat)
        /\ rxCount[Head(batch)[1]] + 1 \in Nat
    BY <1>0, <2>2, AppendProperties
  <2> QED
    BY <1>0, <1>11, <2>1, <2>2, <2>3 DEF Return
<1>12. ASSUME Stop \/ Join \/ Ended \/ UNCHANGED vars PROVE Shape'
  <2>1. CASE Stop
    BY <1>0, <1>n, <2>1 DEF Stop
  <2>2. CASE Join
    <3>1. next' \in 1 .. 3
      BY <1>0, <2>2, Names DEF Join
    <3> QED
      BY <1>0, <2>2, <3>1 DEF Join
  <2>3. CASE UNCHANGED vars
    BY <1>0, <2>3 DEF vars
  <2> QED
    BY <1>12, <2>1, <2>2, <2>3 DEF Ended
<1> QED
  BY <1>1, <1>2, <1>3, <1>4, <1>5, <1>6, <1>7, <1>8, <1>9, <1>10, <1>11, <1>12, Names
     DEF Next, ProducerThread, MainThread
(***************************************************************************)
(* The facts about types and program counters that most steps need.        *)
(***************************************************************************)
LEMMA ThreadFacts == ASSUME IInv
                     PROVE  /\ mpc \in [Managers -> {"new", "top", "lock", "count", "fire", "unlock", "drop", "exited"}]
                            /\ mutex \in [Managers -> {"free", "thread", "main"}]
                            /\ bytes \in [Managers -> Nat]
                            /\ fpc \in [Managers -> {"idle", "store", "write"}]
                            /\ cpc \in [Managers -> {"idle", "read", "reset"}]
                            /\ cur \in Managers /\ C \in Managers
                            /\ \A m \in Producers : m \in Managers /\ m # C
<1>1. /\ mpc \in [Managers -> {"new", "top", "lock", "count", "fire", "unlock", "drop", "exited"}]
      /\ mutex \in [Managers -> {"free", "thread", "main"}] /\ cur \in Managers
  BY DEF IInv, Shape
<1>2. C \in Managers /\ \A m \in Producers : m \in Managers /\ m # C
  BY Names DEF A, B, C
<1> QED
  BY <1>1, <1>2, PipeFacts DEF IInv

(* Every step respects the mutexes. *)
LEMMA OwnersStep == ASSUME IInv, [Next]_vars PROVE Owners'
<1> USE DEF Owners, HeldByThread, HeldByMain, pipeVars, threadVars, countVars, mainVars
<1>0. Owners
  BY DEF IInv
<1>1. /\ mpc \in [Managers -> {"new", "top", "lock", "count", "fire", "unlock", "drop", "exited"}]
      /\ mutex \in [Managers -> {"free", "thread", "main"}]
      /\ fpc \in [Managers -> {"idle", "store", "write"}]
      /\ cpc \in [Managers -> {"idle", "read", "reset"}]
      /\ cur \in Managers /\ C \in Managers
      /\ \A m \in Producers : m \in Managers /\ m # C
  BY ThreadFacts
<1>2. ASSUME NEW m \in Managers, ThreadExit(m) \/ (m \in Producers /\ (CheckSize(m) \/ CountDrop(m)))
      PROVE  Owners'
  <2>1. /\ mpc[m] \in {"top", "drop"} /\ UNCHANGED <<mutex, fpc, cpc, lpc, cur>>
        /\ \/ mpc' = [mpc EXCEPT ![m] = "exited"]
           \/ m # C /\ \E v \in {"lock", "drop", "top"} : mpc' = [mpc EXCEPT ![m] = v]
    BY <1>1, <1>2 DEF ThreadExit, CheckSize, CountDrop
  <2> QED
    BY <1>0, <1>1, <2>1
<1>3. ASSUME NEW m \in Producers, Emplace(m) \/ Unlock(m) PROVE Owners'
  <2>1. /\ UNCHANGED <<fpc, cpc, lpc, cur>> /\ m \in Managers /\ m # C
        /\ \/ /\ mutex[m] = "free" /\ mutex' = [mutex EXCEPT ![m] = "thread"]
              /\ mpc[m] = "lock" /\ mpc' = [mpc EXCEPT ![m] = "count"]
           \/ /\ mutex' = [mutex EXCEPT ![m] = "free"]
              /\ mpc[m] = "unlock" /\ mpc' = [mpc EXCEPT ![m] = "top"]
    BY <1>1, <1>3 DEF Emplace, Unlock
  <2> QED
    BY <1>0, <1>1, <2>1
<1>4. ASSUME NEW m \in Producers, CountTx(m) PROVE Owners'
  <2>1. /\ UNCHANGED <<fpc, cpc, mutex, lpc, cur>> /\ m \in Managers /\ m # C
        /\ mpc[m] = "count" /\ mpc' = [mpc EXCEPT ![m] = "fire"]
    BY <1>1, <1>4 DEF CountTx
  <2> QED
    BY <1>0, <1>1, <2>1
<1>5. ASSUME NEW m \in Producers, Fire(m) PROVE Owners'
  <2>1. /\ UNCHANGED <<cpc, mutex, lpc, cur>> /\ m \in Managers /\ m # C /\ mpc[m] = "fire"
        /\ mpc' = [mpc EXCEPT ![m] = IF fpc'[m] = "idle" THEN "unlock" ELSE "fire"]
    BY <1>1, <1>5 DEF Fire, P!FireCheck, P!FireStore, P!FireWrite
  <2>2. \A k \in Managers \ {m} : fpc'[k] = fpc[k]
    BY <1>1, <1>5 DEF Fire, P!FireCheck, P!FireStore, P!FireWrite
  <2> QED
    BY <1>0, <1>1, <2>1, <2>2
<1>6. ASSUME Run PROVE Owners'
  <2>1. /\ lpc = "start" /\ lpc' = "startC" /\ UNCHANGED <<fpc, cpc, mutex, cur>>
        /\ mpc' = [m \in Managers |-> IF m \in Started THEN "top" ELSE mpc[m]]
    BY <1>6 DEF Run
  <2>2. \A m \in Managers : mpc[m] = "new"
    BY <1>1, <2>1 DEF IInv, Setup
  <2> QED
    BY <1>0, <1>1, <2>1, <2>2
<1>7. ASSUME RunC PROVE Owners'
  <2>1. /\ lpc = "startC" /\ lpc' = "loop" /\ UNCHANGED <<fpc, cpc, mutex, cur>>
        /\ mpc' = [mpc EXCEPT ![C] = "top"]
    BY <1>7 DEF RunC
  <2> QED
    BY <1>0, <1>1, <2>1
<1>8. ASSUME SignalHandler \/ Return \/ Ended \/ UNCHANGED vars PROVE Owners'
  BY <1>0, <1>8 DEF SignalHandler, Return, Ended, vars
<1>9. ASSUME \/ CheckRunning \/ Wait \/ Serve \/ AllServed \/ Forwarded \/ Stop \/ Join
      PROVE  Owners'
  <2>1. /\ UNCHANGED <<mpc, fpc, cpc, mutex>>
        /\ lpc \notin {"consume", "unlock", "fire", "unlockC"}
        /\ lpc' \notin {"consume", "unlock", "fire", "unlockC"}
    BY <1>9 DEF CheckRunning, Wait, Serve, AllServed, Forwarded, Stop, Join
  <2> QED
    BY <1>0, <2>1
<1>10. ASSUME Swap \/ Produced PROVE Owners'
  <2>1. /\ UNCHANGED <<mpc, fpc, cpc, cur>>
        /\ \/ /\ lpc = "lock" /\ lpc' = "consume"
              /\ mutex[cur] = "free" /\ mutex' = [mutex EXCEPT ![cur] = "main"]
           \/ /\ lpc = "unlock" /\ lpc' = "forward"
              /\ mutex' = [mutex EXCEPT ![cur] = "free"]
    BY <1>10 DEF Swap, Produced
  <2> QED
    BY <1>0, <1>1, <2>1
<1>11. ASSUME ConsumeEvent PROVE Owners'
  <2>1. /\ lpc = "consume" /\ UNCHANGED <<mpc, fpc, mutex, cur>>
        /\ lpc' = IF cpc'[cur] = "idle" THEN "unlock" ELSE "consume"
    BY <1>11 DEF ConsumeEvent, P!ConsumeCheck, P!ConsumeRead, P!ConsumeReset
  <2>2. \A m \in Managers \ {cur} : cpc'[m] = cpc[m]
    BY <1>1, <1>11 DEF ConsumeEvent, P!ConsumeCheck, P!ConsumeRead, P!ConsumeReset
  <2> QED
    BY <1>0, <1>1, <2>1, <2>2
<1>12. ASSUME ConsumeC \/ UnlockC PROVE Owners'
  <2>1. /\ UNCHANGED <<mpc, fpc, cpc, cur>>
        /\ \/ /\ lpc = "forward" /\ lpc' = "fire" /\ cur # C
              /\ mutex[C] = "free" /\ mutex' = [mutex EXCEPT ![C] = "main"]
           \/ /\ lpc = "unlockC" /\ lpc' = "forward"
              /\ mutex' = [mutex EXCEPT ![C] = "free"]
    BY <1>12 DEF ConsumeC, UnlockC
  <2> QED
    BY <1>0, <1>1, <2>1
<1>13. ASSUME FireC PROVE Owners'
  <2>1. /\ lpc = "fire" /\ UNCHANGED <<mpc, cpc, mutex, cur>>
        /\ lpc' = IF fpc'[C] = "idle" THEN "unlockC" ELSE "fire"
    BY <1>13 DEF FireC, P!FireCheck, P!FireStore, P!FireWrite
  <2>2. \A m \in Managers \ {C} : fpc'[m] = fpc[m]
    BY <1>1, <1>13 DEF FireC, P!FireCheck, P!FireStore, P!FireWrite
  <2> QED
    BY <1>0, <1>1, <2>1, <2>2
<1> QED
  BY <1>1, <1>2, <1>3, <1>4, <1>5, <1>6, <1>7, <1>8, <1>9, <1>10, <1>11, <1>12, <1>13
     DEF Next, ProducerThread, MainThread
(* A Fire() that ends while no one consumes leaves a byte in the pipe. *)
LEMMA FireEnds == ASSUME IInv, NEW m \in Managers, cpc[m] = "idle",
                         P!FireCheck(m) \/ P!FireStore(m) \/ P!FireWrite(m)
                  PROVE  /\ \A k \in Managers \ {m} : bytes'[k] = bytes[k]
                         /\ bytes'[m] \in Nat /\ (bytes[m] > 0 => bytes'[m] > 0)
                         /\ fpc'[m] = "idle" => bytes'[m] > 0
<1>1. /\ fired \in [Managers -> BOOLEAN] /\ bytes \in [Managers -> Nat]
      /\ fpc \in [Managers -> {"idle", "store", "write"}]
      /\ PP!Quiet(m) \/ PP!Signalled(m)
  BY PipeFacts DEF IInv
<1>2. CASE P!FireCheck(m)
  <2>1. UNCHANGED bytes /\ fpc[m] = "idle" /\ (fpc'[m] = "idle" => fired[m])
    BY <1>1, <1>2 DEF P!FireCheck
  <2>2. fired[m] /\ fpc[m] = "idle" => bytes[m] > 0
    <3>1. CASE PP!Quiet(m)
      BY <3>1 DEF PP!Quiet
    <3>2. CASE PP!Signalled(m)
      BY <3>2 DEF PP!Signalled
    <3> QED
      BY <1>1, <3>1, <3>2
  <2> QED
    BY <1>1, <2>1, <2>2
<1>3. CASE P!FireStore(m)
  <2>1. UNCHANGED bytes /\ fpc'[m] = "write"
    BY <1>1, <1>3 DEF P!FireStore
  <2> QED
    BY <1>1, <2>1
<1>4. CASE P!FireWrite(m)
  <2>1. bytes' = [bytes EXCEPT ![m] = bytes[m] + 1]
    BY <1>4 DEF P!FireWrite
  <2> QED
    BY <1>1, <2>1
<1> QED
  BY <1>2, <1>3, <1>4

(* No step loses a wake-up. *)
LEMMA WakeupsStep == ASSUME IInv, [Next]_vars PROVE Wakeups'
<1> USE DEF Wakeups, Firing, pipeVars, threadVars, countVars, mainVars
<1>0. Wakeups /\ Owners
  BY DEF IInv
<1>1. /\ mpc \in [Managers -> {"new", "top", "lock", "count", "fire", "unlock", "drop", "exited"}]
      /\ bytes \in [Managers -> Nat]
      /\ cur \in Managers /\ C \in Managers
      /\ \A m \in Producers : m \in Managers /\ m # C
  BY ThreadFacts
<1>q. queue \in [Managers -> Seq(Event)] /\ batch \in Seq(Event)
  BY DEF IInv, Shape
<1>2. ASSUME NEW m \in Managers,
             ThreadExit(m) \/ (m \in Producers /\ (CheckSize(m) \/ CountDrop(m) \/ CountTx(m) \/ Unlock(m)))
      PROVE  Wakeups'
  <2>1. /\ UNCHANGED <<bytes, queue, lpc, cur>> /\ mpc[m] # "fire"
        /\ \/ mpc[m] # "count" /\ \E v \in {"exited", "lock", "drop", "top"} : mpc' = [mpc EXCEPT ![m] = v]
           \/ m # C /\ mpc' = [mpc EXCEPT ![m] = "fire"]
    BY <1>1, <1>2 DEF ThreadExit, CheckSize, CountDrop, CountTx, Unlock
  <2> QED
    BY <1>0, <1>1, <2>1
<1>3. ASSUME NEW m \in Producers, Emplace(m) PROVE Wakeups'
  <2>1. /\ UNCHANGED <<bytes, lpc, cur>> /\ m \in Managers /\ m # C
        /\ mutex[m] = "free" /\ mpc' = [mpc EXCEPT ![m] = "count"]
        /\ queue' = [queue EXCEPT ![m] = Append(@, <<m, made[m]>>)]
    BY <1>1, <1>3 DEF Emplace
  <2>2. Append(queue[m], <<m, made[m]>>) # << >>
    <3>1. <<m, made[m]>> \in Event
      BY DEF IInv, Shape, Event
    <3> QED
      BY <1>q, <2>1, <3>1, AppendProperties
  <2>3. ~(m = cur /\ lpc \in {"consume", "unlock"})
    BY <1>0, <2>1 DEF Owners, HeldByMain
  <2> QED
    BY <1>0, <1>1, <1>q, <2>1, <2>2, <2>3
<1>4. ASSUME NEW m \in Producers, Fire(m) PROVE Wakeups'
  <2>1. /\ UNCHANGED <<queue, lpc, cur>> /\ m \in Managers /\ m # C /\ mpc[m] = "fire"
        /\ mpc' = [mpc EXCEPT ![m] = IF fpc'[m] = "idle" THEN "unlock" ELSE "fire"]
        /\ P!FireCheck(m) \/ P!FireStore(m) \/ P!FireWrite(m)
    BY <1>1, <1>4 DEF Fire
  <2>2. cpc[m] = "idle"
    BY <1>0, <2>1 DEF Owners, HeldByThread, HeldByMain
  <2>3. /\ \A k \in Managers \ {m} : bytes'[k] = bytes[k]
        /\ fpc'[m] = "idle" => bytes'[m] > 0
    BY <2>1, <2>2, FireEnds
  <2> QED
    BY <1>0, <1>1, <2>1, <2>3
<1>5. ASSUME Run \/ RunC PROVE Wakeups'
  <2>1. /\ UNCHANGED <<bytes, queue, cur>> /\ lpc \in {"start", "startC"} /\ lpc' \in {"startC", "loop"}
        /\ \/ lpc = "start" /\ mpc' = [m \in Managers |-> IF m \in Started THEN "top" ELSE mpc[m]]
           \/ mpc' = [mpc EXCEPT ![C] = "top"]
    BY <1>5 DEF Run, RunC
  <2>2. lpc = "start" => \A m \in Managers : mpc[m] = "new"
    BY <1>1 DEF IInv, Setup
  <2> QED
    BY <1>0, <1>1, <2>1, <2>2
<1>6. ASSUME SignalHandler \/ Return \/ Ended \/ UNCHANGED vars PROVE Wakeups'
  BY <1>0, <1>6 DEF SignalHandler, Return, Ended, vars
<1>7. ASSUME \/ CheckRunning \/ Wait \/ Serve \/ AllServed \/ Forwarded \/ Stop \/ Join
             \/ Produced \/ UnlockC
      PROVE  Wakeups'
  <2>1. /\ UNCHANGED <<mpc, bytes, queue>> /\ lpc # "fire" /\ lpc' \notin {"consume", "unlock", "fire"}
    BY <1>7 DEF CheckRunning, Wait, Serve, AllServed, Forwarded, Stop, Join, Produced, UnlockC
  <2> QED
    BY <1>0, <2>1
<1>8. ASSUME Swap PROVE Wakeups'
  <2>1. /\ UNCHANGED <<mpc, bytes, cur>> /\ lpc = "lock" /\ lpc' = "consume" /\ mutex[cur] = "free"
        /\ queue' = [queue EXCEPT ![cur] = << >>]
    BY <1>8 DEF Swap
  <2>2. ~(cur # C /\ mpc[cur] = "count")
    BY <1>0, <1>1, <2>1 DEF Owners, HeldByThread
  <2> QED
    BY <1>0, <1>1, <1>q, <2>1, <2>2
<1>9. ASSUME ConsumeEvent PROVE Wakeups'
  <2>1. UNCHANGED <<mpc, queue, cur>> /\ lpc = "consume" /\ lpc' \in {"consume", "unlock"}
    BY <1>9 DEF ConsumeEvent
  <2>2. \A m \in Managers \ {cur} : bytes'[m] = bytes[m]
    BY <1>1, <1>9 DEF ConsumeEvent, P!ConsumeCheck, P!ConsumeRead, P!ConsumeReset
  <2> QED
    BY <1>0, <1>1, <2>1, <2>2
<1>10. ASSUME ConsumeC PROVE Wakeups'
  <2>1. /\ UNCHANGED <<mpc, bytes, cur>> /\ lpc = "forward" /\ lpc' = "fire"
        /\ \E q : queue' = [queue EXCEPT ![C] = q]
    BY <1>10 DEF ConsumeC
  <2> QED
    BY <1>0, <1>1, <1>q, <2>1
<1>11. ASSUME FireC PROVE Wakeups'
  <2>1. /\ UNCHANGED <<mpc, queue, cur>> /\ lpc = "fire"
        /\ lpc' = IF fpc'[C] = "idle" THEN "unlockC" ELSE "fire"
        /\ P!FireCheck(C) \/ P!FireStore(C) \/ P!FireWrite(C)
    BY <1>11 DEF FireC
  <2>2. cpc[C] = "idle"
    BY <1>0, <1>1, <2>1 DEF Owners
  <2>3. /\ \A k \in Managers \ {C} : bytes'[k] = bytes[k]
        /\ fpc'[C] = "idle" => bytes'[C] > 0
    BY <1>1, <2>1, <2>2, FireEnds
  <2> QED
    BY <1>0, <1>1, <2>1, <2>3
<1> QED
  BY <1>1, <1>2, <1>3, <1>4, <1>5, <1>6, <1>7, <1>8, <1>9, <1>10, <1>11
     DEF Next, ProducerThread, MainThread

(* Every step preserves what main() has started. *)
LEMMA SetupStep == ASSUME IInv, [Next]_vars PROVE Setup'
<1> USE DEF Setup, pipeVars, threadVars, countVars, mainVars
<1>0. Setup
  BY DEF IInv
<1>1. /\ mpc \in [Managers -> {"new", "top", "lock", "count", "fire", "unlock", "drop", "exited"}]
      /\ made \in [Producers -> Nat] /\ txCount \in [Managers -> Nat] /\ rxCount \in [Managers -> Nat]
      /\ C \in Managers /\ \A m \in Producers : m \in Managers /\ m # C
  BY ThreadFacts DEF IInv, Shape
<1>2. ASSUME NEW m \in Producers, CheckSize(m) PROVE Setup'
  <2>1. /\ mpc[m] = "top" /\ UNCHANGED <<counters, txCount, rxCount, lpc>>
        /\ \E v \in {"drop", "lock"} : mpc' = [mpc EXCEPT ![m] = v]
        /\ \E n : made' = [made EXCEPT ![m] = n]
    BY <1>2 DEF CheckSize
  <2> QED
    BY <1>0, <1>1, <2>1
<1>3. ASSUME NEW m \in Producers, CountTx(m) PROVE Setup'
  <2>1. /\ mpc[m] = "count" /\ UNCHANGED <<counters, made, rxCount, lpc>>
        /\ mpc' = [mpc EXCEPT ![m] = "fire"]
        /\ \E n : txCount' = [txCount EXCEPT ![m] = n]
    BY <1>3 DEF CountTx
  <2> QED
    BY <1>0, <1>1, <2>1
<1>4. ASSUME NEW m \in Managers,
             ThreadExit(m) \/ (m \in Producers /\ (CountDrop(m) \/ Emplace(m) \/ Fire(m) \/ Unlock(m)))
      PROVE  Setup'
  <2>1. /\ mpc[m] # "new" /\ UNCHANGED <<counters, made, txCount, rxCount, lpc>>
        /\ \E v \in {"exited", "top", "count", "fire", "unlock"} : mpc' = [mpc EXCEPT ![m] = v]
    BY <1>4 DEF ThreadExit, CountDrop, Emplace, Fire, Unlock
  <2> QED
    BY <1>0, <1>1, <2>1
<1>5. ASSUME Run PROVE Setup'
  BY <1>0, <1>1, <1>5 DEF Run
<1>6. ASSUME RunC PROVE Setup'
  BY <1>0, <1>1, <1>6 DEF RunC
<1>7. ASSUME ConsumeC PROVE Setup'
  <2>1. /\ lpc = "forward" /\ lpc' = "fire" /\ UNCHANGED <<counters, made, mpc>>
        /\ \E n : rxCount' = [rxCount EXCEPT ![C] = n]
        /\ \E n : txCount' = [txCount EXCEPT ![C] = n]
    BY <1>7 DEF ConsumeC
  <2> QED
    BY <1>0, <1>1, <2>1
<1>8. ASSUME Return PROVE Setup'
  <2>1. /\ batch # << >> /\ UNCHANGED <<counters, made, mpc, txCount, lpc>>
        /\ \E n : rxCount' = [rxCount EXCEPT ![Head(batch)[1]] = n]
    BY <1>8 DEF Return
  <2>2. Head(batch) \in Range(batch) /\ Head(batch) \in Producers \X Nat
    <3>1. batch \in Seq(Producers \X Nat) /\ PP!Ordered(batch)
      BY DEF IInv, Shape, InLine, Event
    <3> QED
      BY SameEvents, <2>1, <3>1, PP!TailOrdered, HeadTailProperties
  <2>3. PICK m \in Producers, n \in Nat : Head(batch) = <<m, n>>
    BY <2>2
  <2>4. n \in 1 .. made[m]
    BY <2>2, <2>3 DEF IInv, Once, Travels
  <2>5. m \in counters
    BY <1>0, <1>1, <2>3, <2>4
  <2> QED
    BY <1>0, <1>1, <2>1, <2>3, <2>5
<1>9. ASSUME \/ SignalHandler \/ CheckRunning \/ Wait \/ Serve \/ AllServed \/ Swap \/ ConsumeEvent
             \/ Produced \/ FireC \/ UnlockC \/ Forwarded \/ Stop \/ Join \/ Ended \/ UNCHANGED vars
      PROVE  Setup'
  <2>1. UNCHANGED <<counters, made, mpc, txCount, rxCount>>
    BY <1>9 DEF SignalHandler, CheckRunning, Wait, Serve, AllServed, Swap, ConsumeEvent,
                Produced, FireC, UnlockC, Forwarded, Stop, Join, Ended, vars
  <2>2. lpc' = lpc \/ (lpc \notin {"start", "startC"} /\ lpc' \notin {"start", "startC"})
    BY <1>9 DEF SignalHandler, CheckRunning, Wait, Serve, AllServed, Swap, ConsumeEvent,
                Produced, FireC, UnlockC, Forwarded, Stop, Join, Ended, vars
  <2> QED
    BY <1>0, <2>1, <2>2
<1> QED
  BY <1>1, <1>2, <1>3, <1>4, <1>5, <1>6, <1>7, <1>8, <1>9 DEF Next, ProducerThread, MainThread
(* The steps that leave the lists, and who is served, as they are; of the  *)
(* threads, those steps are neither at a check nor at a counter.           *)
LEMMA ListsUnchanged ==
  ASSUME IInv,
         \/ \E m \in Managers : ThreadExit(m)
         \/ \E m \in Producers : CountDrop(m) \/ Fire(m) \/ Unlock(m)
         \/ Run \/ RunC \/ SignalHandler \/ CheckRunning \/ Wait \/ AllServed \/ ConsumeEvent
         \/ Produced \/ FireC \/ UnlockC \/ Forwarded \/ Stop \/ Join \/ Ended \/ UNCHANGED vars
  PROVE  /\ UNCHANGED <<queue, batch, cur, received, made, txCount, rxCount>>
         /\ \A m \in Managers : /\ mpc'[m] = mpc[m] \/ mpc[m] # "count"
                                /\ mpc'[m] = mpc[m] \/ mpc'[m] \notin {"count", "lock", "drop"}
<1> USE DEF pipeVars, threadVars, countVars, mainVars
<1>1. /\ mpc \in [Managers -> {"new", "top", "lock", "count", "fire", "unlock", "drop", "exited"}]
      /\ C \in Managers /\ \A m \in Producers : m \in Managers /\ m # C
  BY ThreadFacts
<1>2. CASE \E m \in Managers : ThreadExit(m)
  BY <1>1, <1>2 DEF ThreadExit
<1>3. CASE \E m \in Producers : CountDrop(m) \/ Fire(m) \/ Unlock(m)
  <2>1. PICK m \in Producers : CountDrop(m) \/ Fire(m) \/ Unlock(m)
    BY <1>3
  <2>2. /\ UNCHANGED <<queue, batch, cur, received, made, txCount, rxCount>>
        /\ mpc[m] # "count" /\ \E v \in {"top", "fire", "unlock"} : mpc' = [mpc EXCEPT ![m] = v]
    BY <2>1 DEF CountDrop, Fire, Unlock
  <2> QED
    BY <1>1, <2>2
<1>4. CASE Run
  <2>1. /\ UNCHANGED <<queue, batch, cur, received, made, txCount, rxCount>> /\ lpc = "start"
        /\ mpc' = [m \in Managers |-> IF m \in Started THEN "top" ELSE mpc[m]]
    BY <1>4 DEF Run
  <2>2. \A m \in Managers : mpc[m] = "new"
    BY <1>1, <2>1 DEF IInv, Setup
  <2> QED
    BY <1>1, <2>1, <2>2
<1>5. CASE RunC
  <2>1. mpc[C] # "count"
    BY DEF IInv, Owners
  <2> QED
    BY <1>1, <1>5, <2>1 DEF RunC
<1>6. CASE SignalHandler \/ CheckRunning \/ Wait \/ AllServed \/ ConsumeEvent \/ Produced \/ FireC
  BY <1>6 DEF SignalHandler, CheckRunning, Wait, AllServed, ConsumeEvent, Produced, FireC
<1>7. CASE UnlockC \/ Forwarded \/ Stop \/ Join \/ Ended \/ UNCHANGED vars
  BY <1>7 DEF UnlockC, Forwarded, Stop, Join, Ended, vars
<1> QED
  BY <1>2, <1>3, <1>4, <1>5, <1>6, <1>7

(* The unlocked check bounds the lists of the producers. *)
LEMMA SizesStep == ASSUME IInv, [Next]_vars PROVE Sizes'
<1> USE DEF pipeVars, threadVars, countVars, mainVars
<1>0. /\ Sizes /\ MAX_QUEUE_SIZE \in Nat
      /\ \A m \in Producers : Len(queue[m]) \in Nat
  <2>1. \A m \in Producers : queue[m] \in Seq(Event)
    BY ThreadFacts DEF IInv, Shape
  <2> QED
    BY <2>1, LenProperties, MutexAssumption DEF IInv
<1>1. /\ mpc \in [Managers -> {"new", "top", "lock", "count", "fire", "unlock", "drop", "exited"}]
      /\ queue \in [Managers -> Seq(Event)]
      /\ cur \in Managers /\ C \in Managers /\ \A m \in Producers : m \in Managers /\ m # C
  BY ThreadFacts DEF IInv, Shape
<1>2. ASSUME NEW m \in Producers, CheckSize(m) PROVE Sizes'
  <2>1. /\ UNCHANGED queue
        /\ mpc' = [mpc EXCEPT ![m] = IF Len(queue[m]) > MAX_QUEUE_SIZE THEN "drop" ELSE "lock"]
    BY <1>2 DEF CheckSize
  <2>2. /\ mpc'[m] = "lock" => ~(Len(queue[m]) > MAX_QUEUE_SIZE)
        /\ \A k \in Producers \ {m} : mpc'[k] = mpc[k]
    BY <1>1, <2>1
  <2> QED
    BY <1>0, <2>1, <2>2 DEF Sizes
<1>3. ASSUME NEW m \in Producers, Emplace(m) PROVE Sizes'
  <2>1. /\ mpc[m] = "lock" /\ mpc' = [mpc EXCEPT ![m] = "count"]
        /\ queue' = [queue EXCEPT ![m] = Append(@, <<m, made[m]>>)]
    BY <1>3 DEF Emplace
  <2>2. Len(Append(queue[m], <<m, made[m]>>)) = Len(queue[m]) + 1
    <3>1. <<m, made[m]>> \in Event /\ queue[m] \in Seq(Event)
      BY <1>1 DEF IInv, Shape, Event
    <3> QED
      BY <3>1, AppendProperties
  <2>3. Len(queue[m]) + 1 <= MAX_QUEUE_SIZE + 1
    BY <1>0, <2>1 DEF Sizes
  <2>4. /\ Len(queue'[m]) <= MAX_QUEUE_SIZE + 1 /\ mpc'[m] # "lock"
        /\ \A k \in Producers \ {m} : mpc'[k] = mpc[k] /\ queue'[k] = queue[k]
    BY <1>1, <2>1, <2>2, <2>3
  <2> QED
    BY <1>0, <2>4 DEF Sizes
<1>4. ASSUME NEW m \in Producers, CountTx(m) PROVE Sizes'
  <2>1. UNCHANGED queue /\ mpc' = [mpc EXCEPT ![m] = "fire"]
    BY <1>4 DEF CountTx
  <2> QED
    BY <1>0, <1>1, <2>1 DEF Sizes
<1>5. ASSUME Serve \/ Return PROVE Sizes'
  BY <1>0, <1>5 DEF Serve, Return, Sizes
<1>6. ASSUME Swap PROVE Sizes'
  <2>1. queue' = [queue EXCEPT ![cur] = << >>] /\ UNCHANGED mpc
    BY <1>6 DEF Swap
  <2>2. \A m \in Producers : queue'[m] = queue[m] \/ Len(queue'[m]) = 0
    BY <1>1, <2>1
  <2>3. 0 <= MAX_QUEUE_SIZE /\ 0 <= MAX_QUEUE_SIZE + 1
    BY <1>0
  <2> QED
    BY <1>0, <2>1, <2>2, <2>3 DEF Sizes
<1>7. ASSUME ConsumeC PROVE Sizes'
  <2>1. (\E q : queue' = [queue EXCEPT ![C] = q]) /\ UNCHANGED mpc
    BY <1>7 DEF ConsumeC
  <2>2. \A m \in Producers : queue'[m] = queue[m]
    BY <1>1, <2>1
  <2> QED
    BY <1>0, <2>1, <2>2 DEF Sizes
<1>8. ASSUME UNCHANGED queue, \A m \in Managers : mpc'[m] = mpc[m] \/ mpc'[m] \notin {"count", "lock", "drop"}
      PROVE  Sizes'
  BY <1>0, <1>1, <1>8 DEF Sizes
<1> QED
  BY <1>1, <1>2, <1>3, <1>4, <1>5, <1>6, <1>7, <1>8, ListsUnchanged DEF Next, ProducerThread, MainThread

(* The counters and the lengths of the lists change together. *)
LEMMA CountsStep == ASSUME IInv, [Next]_vars PROVE Counts'
<1> USE DEF pipeVars, threadVars, countVars, mainVars
<1>0. Counts /\ InLine
  BY DEF IInv
<1>1. /\ mpc \in [Managers -> {"new", "top", "lock", "count", "fire", "unlock", "drop", "exited"}]
      /\ queue \in [Managers -> Seq(Event)] /\ batch \in Seq(Event)
      /\ cur \in Managers /\ C \in Managers /\ \A m \in Producers : m \in Managers /\ m # C
      /\ txCount \in [Managers -> Nat] /\ rxCount \in [Managers -> Nat]
  BY ThreadFacts DEF IInv, Shape
<1>2. /\ A \in Managers /\ B \in Managers /\ A # B /\ A # C /\ B # C
      /\ \A m \in Producers : m = A \/ m = B
      /\ cur = A \/ cur = B \/ cur = C
  BY <1>1, Names DEF A, B, C
<1>3. /\ Size(queue[A]) \in Nat /\ Size(queue[B]) \in Nat /\ Size(queue[C]) \in Nat /\ Size(batch) \in Nat
      /\ txCount[A] \in Nat /\ txCount[B] \in Nat /\ txCount[C] \in Nat
      /\ rxCount[A] \in Nat /\ rxCount[B] \in Nat /\ rxCount[C] \in Nat
      /\ Uncounted(A) \in Nat /\ Uncounted(B) \in Nat /\ Going \in Nat /\ Returning \in Nat
  <2>1. /\ Size(queue[A]) \in Nat /\ Size(queue[B]) \in Nat /\ Size(queue[C]) \in Nat /\ Size(batch) \in Nat
    BY <1>1, <1>2, LenProperties DEF Size
  <2> QED
    BY <1>1, <1>2, <2>1 DEF Uncounted, Going, Returning
<1>p. /\ Size(queue'[A]) \in Nat /\ Size(queue'[B]) \in Nat /\ Size(queue'[C]) \in Nat
      /\ txCount'[A] \in Nat /\ txCount'[B] \in Nat /\ txCount'[C] \in Nat
      /\ rxCount'[A] \in Nat /\ rxCount'[B] \in Nat /\ rxCount'[C] \in Nat
      /\ Uncounted(A)' \in Nat /\ Uncounted(B)' \in Nat /\ Going' \in Nat /\ Returning' \in Nat
  <2>1. /\ queue' \in [Managers -> Seq(Event)] /\ batch' \in Seq(Event)
        /\ txCount' \in [Managers -> Nat] /\ rxCount' \in [Managers -> Nat]
    BY ShapeStep DEF Shape
  <2>2. /\ Size(queue'[A]) \in Nat /\ Size(queue'[B]) \in Nat /\ Size(queue'[C]) \in Nat /\ Size(batch') \in Nat
    BY <1>1, <1>2, <2>1, LenProperties DEF Size
  <2> QED
    BY <1>1, <1>2, <2>1, <2>2 DEF Uncounted, Going, Returning
<1>4. ASSUME NEW m \in Producers, CheckSize(m) PROVE Counts'
  <2>1. /\ UNCHANGED <<queue, batch, cur, txCount, rxCount>> /\ mpc[m] = "top"
        /\ \E v \in {"drop", "lock"} : mpc' = [mpc EXCEPT ![m] = v]
    BY <1>4 DEF CheckSize
  <2>2. \A k \in Producers : mpc'[k] = "count" <=> mpc[k] = "count"
    BY <1>1, <2>1
  <2> QED
    BY <1>0, <1>2, <2>1, <2>2, Names DEF Counts, Uncounted, Going, Returning
<1>5. ASSUME NEW m \in Producers, Emplace(m) PROVE Counts'
  <2>1. /\ UNCHANGED <<batch, cur, txCount, rxCount>> /\ mpc[m] = "lock" /\ mpc' = [mpc EXCEPT ![m] = "count"]
        /\ queue' = [queue EXCEPT ![m] = Append(@, <<m, made[m]>>)]
    BY <1>5 DEF Emplace
  <2>2. Size(Append(queue[m], <<m, made[m]>>)) = Size(queue[m]) + 1
    <3>1. <<m, made[m]>> \in Event /\ queue[m] \in Seq(Event)
      BY <1>1 DEF IInv, Shape, Event
    <3> QED
      BY <3>1, AppendProperties DEF Size
  <2>3. /\ mpc'[m] = "count" /\ Size(queue'[m]) = Size(queue[m]) + 1
        /\ \A k \in Managers \ {m} : mpc'[k] = mpc[k] /\ queue'[k] = queue[k]
    BY <1>1, <2>1, <2>2
  <2>4. /\ Uncounted(m)' = 1 /\ Uncounted(m) = 0
        /\ \A k \in Managers \ {m} : Uncounted(k)' = Uncounted(k) /\ Size(queue'[k]) = Size(queue[k])
    BY <2>1, <2>3 DEF Uncounted
  <2>5. /\ Going' = Going /\ Returning' = Returning
        /\ txCount'[A] = txCount[A] /\ txCount'[B] = txCount[B] /\ txCount'[C] = txCount[C]
        /\ rxCount'[A] = rxCount[A] /\ rxCount'[B] = rxCount[B] /\ rxCount'[C] = rxCount[C]
    BY <2>1 DEF Going, Returning
  <2>6. Size(queue'[C]) = Size(queue[C])
    BY <1>1, <2>4
  <2>7. /\ Uncounted(A)' + Uncounted(B)' = Uncounted(A) + Uncounted(B) + 1
        /\ Uncounted(A)' \in Nat /\ Uncounted(B)' \in Nat
        /\ Size(queue'[A]) + Size(queue'[B]) = Size(queue[A]) + Size(queue[B]) + 1
        /\ Size(queue'[A]) \in Nat /\ Size(queue'[B]) \in Nat
    <3>1. CASE m = A
      <4>1. /\ Uncounted(A)' = 1 /\ Uncounted(A) = 0 /\ Uncounted(B)' = Uncounted(B)
            /\ Size(queue'[A]) = Size(queue[A]) + 1 /\ Size(queue'[B]) = Size(queue[B])
        BY <1>2, <2>3, <2>4, <3>1
      <4> QED
        BY <1>3, <1>p, <4>1
    <3>2. CASE m = B
      <4>1. /\ Uncounted(B)' = 1 /\ Uncounted(B) = 0 /\ Uncounted(A)' = Uncounted(A)
            /\ Size(queue'[B]) = Size(queue[B]) + 1 /\ Size(queue'[A]) = Size(queue[A])
        BY <1>2, <2>3, <2>4, <3>2
      <4> QED
        BY <1>3, <1>p, <4>1
    <3> QED
      BY <1>2, <3>1, <3>2
  <2> QED
    BY <1>3, <1>p, <1>0, <2>5, <2>6, <2>7 DEF Counts
<1>6. ASSUME NEW m \in Producers, CountTx(m) PROVE Counts'
  <2>1. /\ UNCHANGED <<queue, batch, cur, rxCount>> /\ mpc[m] = "count" /\ mpc' = [mpc EXCEPT ![m] = "fire"]
        /\ txCount' = [txCount EXCEPT ![m] = txCount[m] + 1]
    BY <1>6 DEF CountTx
  <2>2. /\ mpc'[m] = "fire" /\ txCount'[m] = txCount[m] + 1
        /\ \A k \in Managers \ {m} : mpc'[k] = mpc[k] /\ txCount'[k] = txCount[k]
    BY <1>1, <2>1
  <2>3. Uncounted(m)' = 0 /\ Uncounted(m) = 1 /\ \A k \in Managers \ {m} : Uncounted(k)' = Uncounted(k)
    BY <2>1, <2>2 DEF Uncounted
  <2>4. /\ Going' = Going /\ Returning' = Returning
        /\ Size(queue'[A]) = Size(queue[A]) /\ Size(queue'[B]) = Size(queue[B]) /\ Size(queue'[C]) = Size(queue[C])
        /\ rxCount'[A] = rxCount[A] /\ rxCount'[B] = rxCount[B] /\ rxCount'[C] = rxCount[C]
    BY <2>1 DEF Going, Returning
  <2>5. txCount'[C] = txCount[C]
    BY <1>1, <2>2
  <2>6. CASE m = A
    <3>1. /\ Uncounted(A)' = 0 /\ Uncounted(A) = 1 /\ Uncounted(B)' = Uncounted(B)
          /\ txCount'[A] = txCount[A] + 1 /\ txCount'[B] = txCount[B]
      BY <1>2, <2>2, <2>3, <2>6
    <3> QED
      BY <1>3, <1>p, <1>0, <2>4, <2>5, <3>1 DEF Counts
  <2>7. CASE m = B
    <3>1. /\ Uncounted(B)' = 0 /\ Uncounted(B) = 1 /\ Uncounted(A)' = Uncounted(A)
          /\ txCount'[B] = txCount[B] + 1 /\ txCount'[A] = txCount[A]
      BY <1>2, <2>2, <2>3, <2>7
    <3> QED
      BY <1>3, <1>p, <1>0, <2>4, <2>5, <3>1 DEF Counts
  <2> QED
    BY <1>2, <2>6, <2>7
<1>7. ASSUME Serve PROVE Counts'
  <2>1. UNCHANGED <<queue, batch, mpc, txCount, rxCount>> /\ lpc = "serve"
    BY <1>7 DEF Serve
  <2>2. Size(batch) = 0
    BY <1>0, <2>1 DEF InLine, Size
  <2> QED
    BY <1>0, <2>1, <2>2 DEF Counts, Uncounted, Going, Returning
<1>8. ASSUME Swap PROVE Counts'
  <2>1. /\ UNCHANGED <<mpc, cur, txCount, rxCount>> /\ lpc = "lock" /\ batch' = queue[cur]
        /\ queue' = [queue EXCEPT ![cur] = << >>]
    BY <1>8 DEF Swap
  <2>2. Size(batch) = 0
    BY <1>0, <2>1 DEF InLine, Size
  <2>3. Size(queue'[cur]) = 0 /\ \A m \in Managers \ {cur} : queue'[m] = queue[m]
    BY <1>1, <2>1 DEF Size
  <2>4. /\ Uncounted(A)' = Uncounted(A) /\ Uncounted(B)' = Uncounted(B)
        /\ txCount'[A] = txCount[A] /\ txCount'[B] = txCount[B] /\ txCount'[C] = txCount[C]
        /\ rxCount'[A] = rxCount[A] /\ rxCount'[B] = rxCount[B] /\ rxCount'[C] = rxCount[C]
    BY <2>1 DEF Uncounted
  <2>5. CASE cur = A
    <3>1. /\ Size(queue'[A]) = 0 /\ Size(queue'[B]) = Size(queue[B]) /\ Size(queue'[C]) = Size(queue[C])
          /\ Going = 0 /\ Going' = Size(queue[A]) /\ Returning = 0 /\ Returning' = 0
      BY <1>1, <1>2, <2>1, <2>2, <2>3, <2>5 DEF Going, Returning
    <3> QED
      BY <1>3, <1>p, <1>0, <2>4, <3>1 DEF Counts
  <2>6. CASE cur = B
    <3>1. /\ Size(queue'[B]) = 0 /\ Size(queue'[A]) = Size(queue[A]) /\ Size(queue'[C]) = Size(queue[C])
          /\ Going = 0 /\ Going' = Size(queue[B]) /\ Returning = 0 /\ Returning' = 0
      BY <1>1, <1>2, <2>1, <2>2, <2>3, <2>6 DEF Going, Returning
    <3> QED
      BY <1>3, <1>p, <1>0, <2>4, <3>1 DEF Counts
  <2>7. CASE cur = C
    <3>1. /\ Size(queue'[C]) = 0 /\ Size(queue'[A]) = Size(queue[A]) /\ Size(queue'[B]) = Size(queue[B])
          /\ Going = 0 /\ Going' = 0 /\ Returning = 0 /\ Returning' = Size(queue[C])
      BY <1>1, <1>2, <2>1, <2>2, <2>3, <2>7 DEF Going, Returning
    <3> QED
      BY <1>3, <1>p, <1>0, <2>4, <3>1 DEF Counts
  <2> QED
    BY <1>2, <2>5, <2>6, <2>7
<1>9. ASSUME ConsumeC PROVE Counts'
  <2>1. /\ UNCHANGED <<mpc, cur>> /\ cur # C /\ batch # << >>
        /\ queue' = [queue EXCEPT ![C] = Append(@, Head(batch))]
        /\ batch' = Tail(batch)
        /\ rxCount' = [rxCount EXCEPT ![C] = rxCount[C] + 1]
        /\ txCount' = [txCount EXCEPT ![C] = txCount[C] + 1]
    BY <1>9 DEF ConsumeC
  <2>2. Head(batch) \in Event /\ Size(Tail(batch)) = Size(batch) - 1
    BY <1>1, <2>1, HeadTailProperties DEF Size
  <2>3. Size(Append(queue[C], Head(batch))) = Size(queue[C]) + 1
    BY <1>1, <2>2, AppendProperties DEF Size
  <2>4. /\ Size(queue'[C]) = Size(queue[C]) + 1 /\ rxCount'[C] = rxCount[C] + 1 /\ txCount'[C] = txCount[C] + 1
        /\ Size(queue'[A]) = Size(queue[A]) /\ Size(queue'[B]) = Size(queue[B])
        /\ rxCount'[A] = rxCount[A] /\ rxCount'[B] = rxCount[B]
        /\ txCount'[A] = txCount[A] /\ txCount'[B] = txCount[B]
    BY <1>1, <1>2, <2>1, <2>3
  <2>5. /\ Uncounted(A)' = Uncounted(A) /\ Uncounted(B)' = Uncounted(B)
        /\ Going' = Going - 1 /\ Returning' = Returning
    BY <2>1, <2>2 DEF Uncounted, Going, Returning
  <2> QED
    BY <1>3, <1>p, <1>0, <2>4, <2>5 DEF Counts
<1>10. ASSUME Return PROVE Counts'
  <2>1. /\ UNCHANGED <<mpc, cur, queue, txCount>> /\ cur = C /\ batch # << >>
        /\ batch' = Tail(batch)
        /\ rxCount' = [rxCount EXCEPT ![Head(batch)[1]] = rxCount[Head(batch)[1]] + 1]
    BY <1>10 DEF Return
  <2>2. Head(batch) \in Event /\ Size(Tail(batch)) = Size(batch) - 1
    BY <1>1, <2>1, HeadTailProperties DEF Size
  <2>3. Head(batch)[1] = A \/ Head(batch)[1] = B
    BY <1>2, <2>2 DEF Event
  <2>4. /\ rxCount'[C] = rxCount[C]
        /\ \/ rxCount'[A] = rxCount[A] + 1 /\ rxCount'[B] = rxCount[B]
           \/ rxCount'[A] = rxCount[A] /\ rxCount'[B] = rxCount[B] + 1
    BY <1>1, <1>2, <2>1, <2>3
  <2>5. /\ Uncounted(A)' = Uncounted(A) /\ Uncounted(B)' = Uncounted(B)
        /\ txCount'[A] = txCount[A] /\ txCount'[B] = txCount[B] /\ txCount'[C] = txCount[C]
        /\ Size(queue'[A]) = Size(queue[A]) /\ Size(queue'[B]) = Size(queue[B]) /\ Size(queue'[C]) = Size(queue[C])
        /\ Going' = Going /\ Returning' = Returning - 1
    BY <2>1, <2>2 DEF Uncounted, Going, Returning
  <2> QED
    BY <1>3, <1>p, <1>0, <2>4, <2>5 DEF Counts
<1>11. ASSUME UNCHANGED <<queue, batch, cur, txCount, rxCount>>,
              \A m \in Managers : /\ mpc'[m] = mpc[m] \/ mpc[m] # "count"
                                  /\ mpc'[m] = mpc[m] \/ mpc'[m] \notin {"count", "lock", "drop"}
       PROVE  Counts'
  <2>1. Uncounted(A)' = Uncounted(A) /\ Uncounted(B)' = Uncounted(B)
    BY <1>2, <1>11 DEF Uncounted
  <2> QED
    BY <1>0, <1>11, <2>1 DEF Counts, Going, Returning
<1> QED
  BY <1>1, <1>4, <1>5, <1>6, <1>7, <1>8, <1>9, <1>10, <1>11, ListsUnchanged
     DEF Next, ProducerThread, MainThread

(***************************************************************************)
(* The facts about the lists and the events in them that the next two      *)
(* lemmas need.                                                            *)
(***************************************************************************)
LEMMA ListFacts == ASSUME IInv
                   PROVE  /\ queue \in [Managers -> Seq(Event)] /\ batch \in Seq(Event)
                          /\ cur \in Managers /\ C \in Managers
                          /\ \A m \in Producers : m \in Managers /\ m # C
                          /\ \A m \in Managers : m # C => m \in Producers
                          /\ Range(batch) \subseteq Event
                          /\ \A m \in Managers : Range(queue[m]) \subseteq Event
                          /\ \A e \in Event : e[1] \in Producers /\ e[2] \in Nat /\ e = <<e[1], e[2]>>
<1>1. queue \in [Managers -> Seq(Event)] /\ batch \in Seq(Event)
  BY DEF IInv, Shape
<1>2. Range(batch) \subseteq Event /\ \A m \in Managers : Range(queue[m]) \subseteq Event
  BY <1>1, RangeOfSeq
<1>3. \A e \in Event : e[1] \in Producers /\ e[2] \in Nat /\ e = <<e[1], e[2]>>
  BY DEF Event
<1>4. \A m \in Managers : m # C => m \in Producers
  BY DEF Producers
<1> QED
  BY <1>1, <1>2, <1>3, <1>4, ThreadFacts

(* An event about to be emplaced comes after all others of its creator. *)
LEMMA EmplaceLast == ASSUME IInv, NEW m \in Producers, mpc[m] = "lock"
                     PROVE  /\ <<m, made[m]>> \in Event
                            /\ PP!Before(Range(batch), {<<m, made[m]>>})
                            /\ PP!Before(Range(queue[C]), {<<m, made[m]>>})
                            /\ PP!Before(Range(queue[m]), {<<m, made[m]>>})
                            /\ \A k \in Range(received[m]) : k < made[m]
<1>1. made[m] \in Nat /\ Once(m)
  BY DEF IInv, Shape
<1>2. \A n : Travels(m, n) \/ n \in Range(received[m]) => n \in 1 .. made[m] /\ n # made[m]
  BY <1>1 DEF Once, InHand
<1>3. \A n : Travels(m, n) \/ n \in Range(received[m]) => n < made[m]
  BY <1>1, <1>2
<1>4. ASSUME NEW x \in Range(batch) \cup Range(queue[C]) \cup Range(queue[m]), x[1] = m
      PROVE  x[2] < made[m]
  <2>1. x = <<m, x[2]>>
    BY <1>4, ListFacts
  <2>2. Travels(m, x[2])
    BY <2>1 DEF Travels
  <2> QED
    BY <1>3, <2>2
<1> QED
  BY <1>1, <1>3, <1>4 DEF PP!Before, Event

(* Events keep their places in the line. *)
LEMMA InLineStep == ASSUME IInv, [Next]_vars PROVE InLine'
<1> USE DEF pipeVars, threadVars, countVars, mainVars
<1> DEFINE Busy == {"consume", "unlock", "forward", "fire", "unlockC"}
<1>0. InLine
  BY DEF IInv
<1>1. /\ queue \in [Managers -> Seq(Event)] /\ batch \in Seq(Event)
      /\ cur \in Managers /\ C \in Managers
      /\ \A m \in Producers : m \in Managers /\ m # C
      /\ \A m \in Managers : m # C => m \in Producers
  BY ListFacts
<1>2. ASSUME NEW m \in Producers, Emplace(m) PROVE InLine'
  <2> DEFINE e == <<m, made[m]>>
  <2>1. /\ mpc[m] = "lock" /\ queue' = [queue EXCEPT ![m] = Append(@, e)]
        /\ UNCHANGED <<batch, cur, lpc>>
    BY <1>2 DEF Emplace
  <2>2. /\ e \in Event /\ PP!Before(Range(batch), {e}) /\ PP!Before(Range(queue[C]), {e})
        /\ PP!Before(Range(queue[m]), {e})
    BY <2>1, EmplaceLast
  <2> HIDE DEF e
  <2>3. PP!Ordered(Append(queue[m], e)) /\ Range(Append(queue[m], e)) = Range(queue[m]) \cup {e}
    <3>1. queue[m] \in Seq(Event) /\ PP!Ordered(queue[m])
      BY <1>0, <1>1 DEF InLine
    <3> QED
      BY SameEvents, <2>2, <3>1, PP!AppendRange, PP!AppendOrdered
  <2>4. /\ PP!Ordered(queue'[m]) /\ Range(queue'[m]) = Range(queue[m]) \cup {e} /\ queue'[C] = queue[C]
        /\ \A k \in Managers \ {m} : queue'[k] = queue[k]
    BY <1>1, <2>1, <2>3
  <2>5. \A x \in Range(queue'[m]) : x[1] = m
    BY <1>0, <2>4 DEF InLine, e
  <2>6. PP!Before(Range(batch), Range(queue'[m])) /\ PP!Before(Range(queue[C]), Range(queue'[m]))
    <3>1. PP!Before(Range(batch), Range(queue[m])) /\ PP!Before(Range(queue[C]), Range(queue[m]))
      BY <1>0 DEF InLine
    <3> QED
      BY <2>2, <2>4, <3>1 DEF PP!Before
  <2> QED
    BY <1>0, <1>1, <2>1, <2>4, <2>5, <2>6 DEF InLine
<1>3. ASSUME Serve PROVE InLine'
  <2>1. UNCHANGED <<queue, batch>> /\ lpc = "serve"
    BY <1>3 DEF Serve
  <2>2. batch = << >> /\ batch' = << >>
    BY <1>0, <2>1 DEF InLine
  <2> QED
    BY SameEvents, <1>0, <2>1, <2>2, PP!EmptyOrdered, PP!EmptyIncreasing DEF InLine
<1>4. ASSUME Swap PROVE InLine'
  <2>1. /\ queue' = [queue EXCEPT ![cur] = << >>] /\ batch' = queue[cur]
        /\ UNCHANGED cur /\ lpc' = "consume"
    BY <1>4 DEF Swap
  <2>2. queue'[cur] = << >> /\ \A k \in Managers \ {cur} : queue'[k] = queue[k]
    BY <1>1, <2>1
  <2>3. PP!Ordered(batch') /\ \A k \in Managers : PP!Ordered(queue'[k])
    BY SameEvents, <1>0, <1>1, <2>1, <2>2, PP!EmptyOrdered DEF InLine
  <2>4. \A k \in Producers : \A x \in Range(queue'[k]) : x[1] = k
    BY SameEvents, <1>0, <1>1, <2>2, PP!EmptyIncreasing DEF InLine
  <2>5. \A k \in Producers : PP!Before(Range(queue'[C]), Range(queue'[k]))
    BY SameEvents, <1>0, <1>1, <2>2, PP!EmptyIncreasing, PP!EmptyOrdered DEF InLine
  <2>6. \A k \in Producers : PP!Before(Range(batch'), Range(queue'[k]))
    <3>1. CASE cur = C
      BY <1>0, <1>1, <2>1, <2>2, <3>1 DEF InLine
    <3>2. CASE cur # C
      <4>1. \A x \in Range(batch') : x[1] = cur
        BY <1>0, <1>1, <2>1, <3>2 DEF InLine
      <4>2. \A k \in Producers \ {cur} : \A x \in Range(queue'[k]) : x[1] # cur
        BY <2>4
      <4>3. Range(queue'[cur]) = {}
        BY SameEvents, <2>2, PP!EmptyIncreasing
      <4> QED
        BY <4>1, <4>2, <4>3 DEF PP!Before
    <3> QED
      BY <3>1, <3>2
  <2>7. IF cur' = C THEN PP!Before(Range(batch'), Range(queue'[C])) ELSE PP!Before(Range(queue'[C]), Range(batch'))
    <3>1. CASE cur = C
      BY SameEvents, <2>1, <2>2, <3>1, PP!EmptyIncreasing, PP!EmptyOrdered
    <3>2. CASE cur # C
      BY <1>0, <1>1, <2>1, <2>2, <3>2 DEF InLine
    <3> QED
      BY <3>1, <3>2
  <2> QED
    BY <2>1, <2>3, <2>4, <2>5, <2>6, <2>7 DEF InLine
<1>5. ASSUME ConsumeC PROVE InLine'
  <2> DEFINE h == Head(batch)
  <2>1. /\ queue' = [queue EXCEPT ![C] = Append(@, h)] /\ batch' = Tail(batch)
        /\ UNCHANGED cur /\ lpc' = "fire" /\ cur # C /\ batch # << >>
    BY <1>5 DEF ConsumeC
  <2>2. /\ h \in Range(batch) /\ Range(batch') = Range(batch) \ {h} /\ PP!Before({h}, Range(batch'))
        /\ PP!Ordered(batch')
    BY SameEvents, <1>0, <1>1, <2>1, PP!TailOrdered DEF InLine, Event
  <2>3. h \in Event
    BY <2>2, ListFacts
  <2>4. PP!Before(Range(queue[C]), Range(batch))
    BY <1>0, <2>1 DEF InLine
  <2>5. PP!Before(Range(queue[C]), {h})
    BY <2>2, <2>4 DEF PP!Before
  <2>6. PP!Ordered(Append(queue[C], h)) /\ Range(Append(queue[C], h)) = Range(queue[C]) \cup {h}
    <3>1. queue[C] \in Seq(Event) /\ PP!Ordered(queue[C])
      BY <1>0, <1>1 DEF InLine
    <3>2. Range(Append(queue[C], h)) = Range(queue[C]) \cup {h}
      BY SameEvents, <2>3, <3>1, PP!AppendRange
    <3>3. PP!Ordered(Append(queue[C], h))
      BY SameEvents, <2>3, <2>5, <3>1, PP!AppendOrdered
    <3> QED
      BY <3>2, <3>3
  <2>7. /\ PP!Ordered(queue'[C]) /\ Range(queue'[C]) = Range(queue[C]) \cup {h}
        /\ \A k \in Managers \ {C} : queue'[k] = queue[k]
    BY <1>1, <2>1, <2>6
  <2>8. PP!Before(Range(queue'[C]), Range(batch'))
    BY <2>2, <2>4, <2>7 DEF PP!Before
  <2>9. ASSUME NEW k \in Producers
        PROVE  PP!Before(Range(batch'), Range(queue'[k])) /\ PP!Before(Range(queue'[C]), Range(queue'[k]))
    <3>1. queue'[k] = queue[k] /\ PP!Before(Range(batch), Range(queue[k])) /\ PP!Before(Range(queue[C]), Range(queue[k]))
      BY <1>0, <1>1, <2>7 DEF InLine
    <3> QED
      BY <2>2, <2>7, <3>1 DEF PP!Before
  <2>10. \A k \in Producers : \A x \in Range(queue'[k]) : x[1] = k
    BY <1>0, <1>1, <2>7 DEF InLine
  <2>11. \A k \in Managers : PP!Ordered(queue'[k])
    BY <1>0, <2>7 DEF InLine
  <2> QED
    BY <2>1, <2>2, <2>8, <2>9, <2>10, <2>11 DEF InLine
<1>6. ASSUME Return PROVE InLine'
  <2>1. UNCHANGED <<queue, cur, lpc>> /\ batch' = Tail(batch) /\ batch # << >> /\ lpc = "forward"
    BY <1>6 DEF Return
  <2>2. Range(batch') \subseteq Range(batch) /\ PP!Ordered(batch')
    BY SameEvents, <1>0, <1>1, <2>1, PP!TailOrdered DEF InLine, Event
  <2>3. \A X : /\ PP!Before(Range(batch), X) => PP!Before(Range(batch'), X)
               /\ PP!Before(X, Range(batch)) => PP!Before(X, Range(batch'))
    BY <2>2 DEF PP!Before
  <2> QED
    BY <1>0, <2>1, <2>2, <2>3 DEF InLine
<1>7. ASSUME UNCHANGED <<queue, batch, cur>>, batch # << >> => lpc' \in Busy
      PROVE  InLine'
  BY <1>0, <1>7 DEF InLine
<1>8. ASSUME NEW m \in Managers, \/ ThreadExit(m)
                                 \/ m \in Producers /\ (CheckSize(m) \/ CountDrop(m) \/ CountTx(m) \/ Fire(m) \/ Unlock(m))
      PROVE  InLine'
  <2>1. UNCHANGED <<queue, batch, cur, lpc>>
    BY <1>8 DEF ThreadExit, CheckSize, CountDrop, CountTx, Fire, Unlock
  <2> QED
    BY <1>0, <1>7, <2>1 DEF InLine
<1>9. ASSUME \/ Run \/ RunC \/ SignalHandler \/ CheckRunning \/ Wait \/ AllServed \/ ConsumeEvent
             \/ Produced \/ FireC \/ UnlockC \/ Forwarded \/ Stop \/ Join \/ Ended \/ UNCHANGED vars
      PROVE  InLine'
  <2>1. UNCHANGED <<queue, batch, cur>>
    BY <1>9, ListsUnchanged
  <2>2. lpc' = lpc \/ lpc' \in Busy \/ lpc \notin Busy \/ batch = << >>
    <3>1. CASE Run \/ RunC \/ SignalHandler \/ CheckRunning \/ Wait \/ AllServed \/ Stop \/ Join \/ Ended \/ UNCHANGED vars
      BY <3>1 DEF Run, RunC, SignalHandler, CheckRunning, Wait, AllServed, Stop, Join, Ended, vars
    <3>2. CASE ConsumeEvent \/ Produced \/ FireC \/ UnlockC \/ Forwarded
      BY <3>2 DEF ConsumeEvent, Produced, FireC, UnlockC, Forwarded
    <3> QED
      BY <1>9, <3>1, <3>2
  <2> QED
    BY <1>0, <1>7, <2>1, <2>2 DEF InLine
<1> QED
  BY <1>1, <1>2, <1>3, <1>4, <1>5, <1>6, <1>8, <1>9 DEF Next, ProducerThread, MainThread

(* Every event is somewhere, once. *)
LEMMA OnceStep == ASSUME IInv, [Next]_vars, NEW k \in Producers PROVE Once(k)'
<1> USE DEF pipeVars, threadVars, countVars, mainVars
<1> DEFINE Choosing == {"lock", "drop"}
<1>0. Once(k) /\ InLine
  BY DEF IInv
<1>1. /\ queue \in [Managers -> Seq(Event)] /\ batch \in Seq(Event)
      /\ cur \in Managers /\ C \in Managers /\ k \in Managers /\ k # C
      /\ \A m \in Managers : m # C => m \in Producers
      /\ \A m \in Producers : m \in Managers /\ m # C
      /\ mpc \in [Managers -> {"new", "top", "lock", "count", "fire", "unlock", "drop", "exited"}]
      /\ made \in [Producers -> Nat] /\ dropped \in [Producers -> SUBSET Nat]
      /\ received \in [Producers -> Seq(Nat)]
  BY ListFacts DEF IInv, Shape
<1>2. ASSUME received'[k] = received[k], made'[k] = made[k], dropped'[k] = dropped[k],
             mpc'[k] = mpc[k] \/ (mpc[k] \notin Choosing /\ mpc'[k] \notin Choosing),
             \A n : Travels(k, n)' <=> Travels(k, n)
      PROVE  Once(k)'
  <2>1. \A n : InHand(k, n)' <=> InHand(k, n)
    BY <1>2 DEF InHand
  <2>2. mpc'[k] \in Choosing <=> mpc[k] \in Choosing
    BY <1>2
  <2> HIDE DEF Choosing
  <2> QED
    BY <1>0, <1>2, <2>1, <2>2 DEF Once, Choosing
<1>3. ASSUME NEW m \in Producers, CheckSize(m) PROVE Once(k)'
  <2>1. /\ UNCHANGED <<queue, batch, received, dropped>> /\ mpc[m] = "top"
        /\ made' = [made EXCEPT ![m] = made[m] + 1]
        /\ \E v \in {"lock", "drop"} : mpc' = [mpc EXCEPT ![m] = v]
    BY <1>3 DEF CheckSize
  <2>2. \A n : Travels(k, n)' <=> Travels(k, n)
    BY <2>1 DEF Travels
  <2>3. CASE k # m
    <3>1. received'[k] = received[k] /\ made'[k] = made[k] /\ dropped'[k] = dropped[k] /\ mpc'[k] = mpc[k]
      BY <1>1, <2>1, <2>3
    <3> QED
      BY <1>2, <2>2, <3>1
  <2>4. CASE k = m
    <3>1. /\ made'[k] = made[k] + 1 /\ mpc'[k] \in Choosing /\ mpc[k] \notin Choosing
          /\ received'[k] = received[k] /\ dropped'[k] = dropped[k] /\ made[k] \in Nat
      BY <1>1, <2>1, <2>4
    <3>2. dropped[k] \subseteq 1 .. made[k]
      BY <1>0 DEF Once
    <3>3. /\ dropped[k] \subseteq 1 .. (made[k] + 1) /\ made[k] + 1 > 0 /\ made[k] + 1 \notin dropped[k]
          /\ \A n : n \in 1 .. made[k] <=> n \in 1 .. (made[k] + 1) /\ n # made[k] + 1
      BY <3>1, <3>2
    <3>4. \A n : Travels(k, n) \/ n \in Range(received[k]) <=> n \in 1 .. made[k] /\ n \notin dropped[k]
      BY <1>0, <3>1 DEF Once, InHand
    <3>5. \A n : InHand(k, n)' <=> n = made[k] + 1
      BY <3>1 DEF InHand
    <3>6. PP!Increasing(received[k]) /\ \A n : Travels(k, n) => \A j \in Range(received[k]) : j < n
      BY <1>0 DEF Once
    <3> QED
      BY <2>2, <3>1, <3>3, <3>4, <3>5, <3>6 DEF Once
  <2> QED
    BY <2>3, <2>4
<1>4. ASSUME NEW m \in Producers, CountDrop(m) PROVE Once(k)'
  <2>1. /\ UNCHANGED <<queue, batch, received, made>> /\ mpc[m] = "drop"
        /\ dropped' = [dropped EXCEPT ![m] = dropped[m] \cup {made[m]}]
        /\ mpc' = [mpc EXCEPT ![m] = "top"]
    BY <1>4 DEF CountDrop
  <2>2. \A n : Travels(k, n)' <=> Travels(k, n)
    BY <2>1 DEF Travels
  <2>3. CASE k # m
    <3>1. received'[k] = received[k] /\ made'[k] = made[k] /\ dropped'[k] = dropped[k] /\ mpc'[k] = mpc[k]
      BY <1>1, <2>1, <2>3
    <3> QED
      BY <1>2, <2>2, <3>1
  <2>4. CASE k = m
    <3>1. /\ dropped'[k] = dropped[k] \cup {made[k]} /\ mpc'[k] = "top" /\ mpc[k] = "drop"
          /\ received'[k] = received[k] /\ made'[k] = made[k] /\ made[k] \in Nat
      BY <1>1, <2>1, <2>4
    <3>2. dropped[k] \subseteq 1 .. made[k] /\ made[k] > 0
      BY <1>0, <3>1 DEF Once
    <3>3. dropped'[k] \subseteq 1 .. made[k]
      BY <3>1, <3>2
    <3>4. \A n : Travels(k, n) \/ n \in Range(received[k])
                   <=> n \in 1 .. made[k] /\ n \notin dropped[k] /\ n # made[k]
      BY <1>0, <3>1 DEF Once, InHand
    <3>5. \A n : ~InHand(k, n)'
      BY <3>1 DEF InHand
    <3>6. PP!Increasing(received[k]) /\ \A n : Travels(k, n) => \A j \in Range(received[k]) : j < n
      BY <1>0 DEF Once
    <3> QED
      BY <2>2, <3>1, <3>3, <3>4, <3>5, <3>6 DEF Once
  <2> QED
    BY <2>3, <2>4
<1>5. ASSUME NEW m \in Producers, Emplace(m) PROVE Once(k)'
  <2>1. /\ UNCHANGED <<batch, received, made, dropped>> /\ mpc[m] = "lock"
        /\ queue' = [queue EXCEPT ![m] = Append(@, <<m, made[m]>>)]
        /\ mpc' = [mpc EXCEPT ![m] = "count"]
    BY <1>5 DEF Emplace
  <2>2. CASE k # m
    <3>1. queue'[C] = queue[C] /\ queue'[k] = queue[k]
      BY <1>1, <2>1, <2>2
    <3>2. \A n : Travels(k, n)' <=> Travels(k, n)
      BY <2>1, <3>1 DEF Travels
    <3>3. received'[k] = received[k] /\ made'[k] = made[k] /\ dropped'[k] = dropped[k] /\ mpc'[k] = mpc[k]
      BY <1>1, <2>1, <2>2
    <3> QED
      BY <1>2, <3>2, <3>3
  <2>3. CASE k = m
    <3>1. /\ queue'[C] = queue[C] /\ queue'[k] = Append(queue[k], <<k, made[k]>>)
          /\ mpc'[k] = "count" /\ mpc[k] = "lock" /\ made[k] \in Nat /\ queue[k] \in Seq(Event)
          /\ received'[k] = received[k] /\ made'[k] = made[k] /\ dropped'[k] = dropped[k] /\ batch' = batch
      BY <1>1, <2>1, <2>3
    <3>2. <<k, made[k]>> \in Event /\ \A j \in Range(received[k]) : j < made[k]
      BY <3>1, EmplaceLast
    <3>3. Range(queue'[k]) = Range(queue[k]) \cup {<<k, made[k]>>}
      BY SameEvents, <3>1, <3>2, PP!AppendRange
    <3>4. \A n : Travels(k, n)' <=> Travels(k, n) \/ n = made[k]
      BY <3>1, <3>3 DEF Travels
    <3>5. \A n : Travels(k, n) \/ n \in Range(received[k])
                   <=> n \in 1 .. made[k] /\ n \notin dropped[k] /\ n # made[k]
      BY <1>0, <3>1 DEF Once, InHand
    <3>6. made[k] \in 1 .. made[k] /\ made[k] \notin dropped[k]
      <4>1. made[k] > 0 /\ made[k] \notin dropped[k]
        BY <1>0, <3>1 DEF Once
      <4> QED
        BY <3>1, <4>1
    <3>7. \A n : ~InHand(k, n)'
      BY <3>1 DEF InHand
    <3>8. /\ PP!Increasing(received[k]) /\ dropped[k] \subseteq 1 .. made[k]
          /\ \A n : Travels(k, n) => \A j \in Range(received[k]) : j < n
      BY <1>0 DEF Once
    <3> QED
      BY <3>1, <3>2, <3>4, <3>5, <3>6, <3>7, <3>8 DEF Once
  <2> QED
    BY <2>2, <2>3
<1>6. ASSUME Swap PROVE Once(k)'
  <2>1. /\ queue' = [queue EXCEPT ![cur] = << >>] /\ batch' = queue[cur] /\ lpc = "lock"
        /\ UNCHANGED <<received, made, dropped, mpc>>
    BY <1>6 DEF Swap
  <2>2. Range(queue'[cur]) = {} /\ \A m \in Managers \ {cur} : queue'[m] = queue[m]
    BY SameEvents, <1>1, <2>1, PP!EmptyIncreasing
  <2>3. Range(batch) = {}
    BY SameEvents, <1>0, <2>1, PP!EmptyIncreasing DEF InLine
  <2>4. ASSUME NEW n PROVE Travels(k, n)' <=> Travels(k, n)
    <3>1. CASE cur = C \/ cur = k
      BY <1>1, <2>1, <2>2, <2>3, <3>1 DEF Travels
    <3>2. CASE cur # C /\ cur # k
      <4>1. <<k, n>> \notin Range(queue[cur])
        BY <1>0, <1>1, <3>2 DEF InLine
      <4> QED
        BY <1>1, <2>1, <2>2, <2>3, <3>2, <4>1 DEF Travels
    <3> QED
      BY <3>1, <3>2
  <2>5. received'[k] = received[k] /\ made'[k] = made[k] /\ dropped'[k] = dropped[k] /\ mpc'[k] = mpc[k]
    BY <2>1
  <2> QED
    BY <1>2, <2>4, <2>5
<1>7. ASSUME ConsumeC PROVE Once(k)'
  <2>1. /\ queue' = [queue EXCEPT ![C] = Append(@, Head(batch))] /\ batch' = Tail(batch)
        /\ batch # << >> /\ UNCHANGED <<received, made, dropped, mpc>>
    BY <1>7 DEF ConsumeC
  <2>2. Head(batch) \in Range(batch) /\ Range(batch') = Range(batch) \ {Head(batch)}
    BY SameEvents, <1>0, <1>1, <2>1, PP!TailOrdered DEF InLine, Event
  <2>3. Head(batch) \in Event
    BY <2>2, ListFacts
  <2>4. Range(Append(queue[C], Head(batch))) = Range(queue[C]) \cup {Head(batch)}
    BY SameEvents, <1>1, <2>3, PP!AppendRange
  <2>5. Range(queue'[C]) = Range(queue[C]) \cup {Head(batch)} /\ queue'[k] = queue[k]
    BY <1>1, <2>1, <2>4
  <2>6. \A n : Travels(k, n)' <=> Travels(k, n)
    BY <2>2, <2>5 DEF Travels
  <2>7. received'[k] = received[k] /\ made'[k] = made[k] /\ dropped'[k] = dropped[k] /\ mpc'[k] = mpc[k]
    BY <2>1
  <2> QED
    BY <1>2, <2>6, <2>7
<1>8. ASSUME Return PROVE Once(k)'
  <2> DEFINE h == Head(batch)
  <2>1. /\ UNCHANGED <<queue, made, dropped, mpc>> /\ cur = C /\ batch # << >> /\ batch' = Tail(batch)
        /\ received' = [received EXCEPT ![h[1]] = Append(@, h[2])]
    BY <1>8 DEF Return
  <2>2. h \in Range(batch) /\ Range(batch') = Range(batch) \ {h} /\ PP!Before({h}, Range(batch'))
    BY SameEvents, <1>0, <1>1, <2>1, PP!TailOrdered DEF InLine, Event
  <2>3. h[1] \in Producers /\ h[2] \in Nat /\ h = <<h[1], h[2]>>
    BY <2>2, ListFacts
  <2>4. PP!Before(Range(batch), Range(queue[C])) /\ PP!Before(Range(batch), Range(queue[k]))
    BY <1>0, <2>1 DEF InLine
  <2> HIDE DEF h
  <2>5. CASE k # h[1]
    <3>1. \A n : Travels(k, n)' <=> Travels(k, n)
      BY <2>1, <2>2, <2>3, <2>5 DEF Travels
    <3>2. received'[k] = received[k] /\ made'[k] = made[k] /\ dropped'[k] = dropped[k] /\ mpc'[k] = mpc[k]
      BY <1>1, <2>1, <2>3, <2>5
    <3> QED
      BY <1>2, <3>1, <3>2
  <2>6. CASE k = h[1]
    <3>1. /\ received'[k] = Append(received[k], h[2]) /\ received[k] \in Seq(Nat)
          /\ made'[k] = made[k] /\ dropped'[k] = dropped[k] /\ mpc'[k] = mpc[k]
      BY <1>1, <2>1, <2>3, <2>6
    <3>2. Travels(k, h[2])
      BY <2>2, <2>3, <2>6 DEF Travels
    <3>3. /\ PP!Increasing(received[k]) /\ \A j \in Range(received[k]) : j < h[2]
          /\ \A n : Travels(k, n) => \A j \in Range(received[k]) : j < n
      BY <1>0, <3>2 DEF Once
    <3>4. PP!Increasing(received'[k]) /\ Range(received'[k]) = Range(received[k]) \cup {h[2]}
      BY SameEvents, <2>3, <3>1, <3>3, PP!AppendRange, PP!AppendIncreasing
    <3>5. ASSUME NEW n, Travels(k, n)' PROVE h[2] < n /\ Travels(k, n)
      <4>1. <<k, n>> \in Range(batch') \/ <<k, n>> \in Range(queue[C]) \/ <<k, n>> \in Range(queue[k])
        BY <2>1, <3>5 DEF Travels
      <4>2. <<k, n>>[1] = h[1] /\ <<k, n>>[2] = n
        BY <2>6
      <4>3. h[2] < <<k, n>>[2]
        BY <2>2, <2>4, <4>1, <4>2 DEF PP!Before
      <4> QED
        BY <2>2, <4>1, <4>2, <4>3 DEF Travels
    <3>6. ASSUME NEW n, Travels(k, n), n # h[2] PROVE Travels(k, n)'
      <4>1. <<k, n>> # h
        BY <2>3, <3>6
      <4> QED
        BY <2>1, <2>2, <3>6, <4>1 DEF Travels
    <3>7. \A n : Travels(k, n)' \/ n \in Range(received'[k]) <=> Travels(k, n) \/ n \in Range(received[k])
      BY <3>2, <3>4, <3>5, <3>6
    <3>8. \A n : Travels(k, n)' => \A j \in Range(received'[k]) : j < n
      BY <3>3, <3>4, <3>5
    <3>9. \A n : InHand(k, n)' <=> InHand(k, n)
      BY <3>1 DEF InHand
    <3> QED
      BY <1>0, <3>1, <3>4, <3>7, <3>8, <3>9 DEF Once
  <2> QED
    BY <2>5, <2>6
<1>9. ASSUME UNCHANGED <<queue, batch, received, made, dropped>>,
             mpc'[k] = mpc[k] \/ (mpc[k] \notin Choosing /\ mpc'[k] \notin Choosing)
      PROVE  Once(k)'
  <2>1. \A n : Travels(k, n)' <=> Travels(k, n)
    BY <1>9 DEF Travels
  <2> QED
    BY <1>2, <1>9, <2>1
<1>10. ASSUME NEW m \in Managers, ThreadExit(m) \/ (m \in Producers /\ (CountTx(m) \/ Fire(m) \/ Unlock(m)))
       PROVE  Once(k)'
  <2>1. /\ UNCHANGED <<queue, batch, received, made, dropped>> /\ mpc[m] \notin Choosing
        /\ \E v \in {"exited", "fire", "unlock", "top"} : mpc' = [mpc EXCEPT ![m] = v]
    BY <1>10 DEF ThreadExit, CountTx, Fire, Unlock
  <2>2. PICK v \in {"exited", "fire", "unlock", "top"} : mpc' = [mpc EXCEPT ![m] = v]
    BY <2>1
  <2>3. mpc'[k] = mpc[k] \/ (mpc[k] \notin Choosing /\ mpc'[k] \notin Choosing)
    BY <1>1, <2>1, <2>2
  <2> QED
    BY <1>9, <2>1, <2>3
<1>11. ASSUME Run PROVE Once(k)'
  <2>1. /\ UNCHANGED <<queue, batch, received, made, dropped>> /\ lpc = "start"
        /\ mpc' = [m \in Managers |-> IF m \in Started THEN "top" ELSE mpc[m]]
    BY <1>11 DEF Run
  <2>2. mpc[k] = "new"
    BY <1>1, <2>1 DEF IInv, Setup
  <2> QED
    BY <1>1, <1>9, <2>1, <2>2
<1>12. ASSUME RunC PROVE Once(k)'
  <2>1. UNCHANGED <<queue, batch, received, made, dropped>> /\ mpc' = [mpc EXCEPT ![C] = "top"]
    BY <1>12 DEF RunC
  <2>2. mpc'[k] = mpc[k]
    BY <1>1, <2>1
  <2> QED
    BY <1>9, <2>1, <2>2
<1>13. ASSUME \/ SignalHandler \/ CheckRunning \/ Wait \/ Serve \/ AllServed \/ ConsumeEvent
              \/ Produced \/ FireC \/ UnlockC \/ Forwarded \/ Stop \/ Join \/ Ended \/ UNCHANGED vars
       PROVE  Once(k)'
  <2>1. UNCHANGED <<queue, batch, received, made, dropped, mpc>>
    BY <1>13 DEF SignalHandler, CheckRunning, Wait, Serve, AllServed, ConsumeEvent, Produced, FireC,
                 UnlockC, Forwarded, Stop, Join, Ended, vars
  <2>2. mpc'[k] = mpc[k]
    BY <2>1
  <2> QED
    BY <1>9, <2>1, <2>2
<1> QED
  BY <1>1, <1>3, <1>4, <1>5, <1>6, <1>7, <1>8, <1>10, <1>11, <1>12, <1>13
     DEF Next, ProducerThread, MainThread

(* The inductive invariant is preserved by every step. *)
LEMMA NextIInv == ASSUME IInv, [Next]_vars PROVE IInv'
<1>1. PP!IInv' /\ Shape' /\ Owners' /\ Wakeups' /\ Sizes' /\ Setup'
  BY PipeIInv, ShapeStep, OwnersStep, WakeupsStep, SizesStep, SetupStep
<1>2. InLine' /\ Counts'
  BY InLineStep, CountsStep
<1>3. \A m \in Producers : Once(m)'
  BY OnceStep
<1> QED
  BY <1>1, <1>2, <1>3 DEF IInv
-----------------------------------------------------------------------------
(* A list that nobody holds and that has events has a byte in its pipe. *)
LEMMA WakeupOfIInv == IInv => NoLostWakeup
<1> SUFFICES ASSUME IInv, NEW m \in Managers, mutex[m] = "free", queue[m] # << >>
             PROVE  P!Readable(m)
  BY DEF NoLostWakeup
<1>1. ~HeldByThread(m) /\ ~HeldByMain(m)
  BY DEF IInv, Owners
<1>2. ~Firing(m)
  BY <1>1 DEF HeldByThread, HeldByMain, Firing
<1> QED
  BY <1>2 DEF IInv, Wakeups, P!Readable

(* The numbers of the events are those their creator has made. *)
LEMMA TypeOfIInv == IInv => TypeOK
<1> SUFFICES ASSUME IInv PROVE TypeOK
  OBVIOUS
<1>1. /\ queue \in [Managers -> Seq(Event)] /\ batch \in Seq(Event)
      /\ C \in Managers
      /\ \A m \in Producers : m \in Managers /\ m # C
      /\ \A m \in Managers : m # C => m \in Producers
      /\ Range(batch) \subseteq Event
      /\ \A m \in Managers : Range(queue[m]) \subseteq Event
      /\ \A e \in Event : e[1] \in Producers /\ e[2] \in Nat /\ e = <<e[1], e[2]>>
  BY ListFacts
<1>2. ASSUME NEW m \in Producers
      PROVE  /\ made[m] \in 0 .. MaxEvents /\ 1 .. made[m] \subseteq 1 .. MaxEvents
             /\ received[m] \in Seq(Nat) /\ dropped[m] \subseteq 1 .. made[m]
  <2>1. /\ made[m] \in Nat /\ made[m] <= MaxEvents /\ received[m] \in Seq(Nat)
        /\ dropped[m] \subseteq 1 .. made[m]
    BY DEF IInv, Shape, Once
  <2> QED
    BY <2>1, MutexAssumption
<1>3. ASSUME NEW m \in Producers, NEW n, Travels(m, n) \/ n \in Range(received[m])
      PROVE  n \in 1 .. MaxEvents
  BY <1>2, <1>3 DEF IInv, Once
<1> DEFINE Good == Producers \X (1 .. MaxEvents)
<1>4. ASSUME NEW e \in Event, Travels(e[1], e[2]) PROVE e \in Good
  <2>1. e[1] \in Producers /\ e[2] \in 1 .. MaxEvents /\ e = <<e[1], e[2]>>
    BY <1>1, <1>3, <1>4
  <2> QED
    BY <2>1
<1> HIDE DEF Good
<1>5. batch \in Seq(Good)
  <2>1. \A e \in Range(batch) : e \in Event /\ Travels(e[1], e[2])
    BY <1>1 DEF Travels
  <2> QED
    BY SameEvents, <1>1, <1>4, <2>1, PP!SeqOverRange
<1>6. \A m \in Managers : queue[m] \in Seq(Good)
  <2>1. SUFFICES ASSUME NEW m \in Managers PROVE queue[m] \in Seq(Good)
    OBVIOUS
  <2>2. \A e \in Range(queue[m]) : e \in Event /\ (m = C \/ e[1] = m)
    BY <1>1 DEF IInv, InLine
  <2>3. \A e \in Range(queue[m]) : e \in Event /\ Travels(e[1], e[2])
    BY <1>1, <2>2 DEF Travels
  <2> QED
    BY SameEvents, <1>1, <1>4, <2>3, PP!SeqOverRange
<1>7. ASSUME NEW m \in Producers
      PROVE  /\ made[m] \in 0 .. MaxEvents /\ dropped[m] \subseteq 1 .. MaxEvents
             /\ received[m] \in Seq(1 .. MaxEvents)
  <2>1. Range(received[m]) \subseteq 1 .. MaxEvents
    BY <1>3
  <2> QED
    BY SameEvents, <1>2, <2>1, PP!SeqOverRange
<1>8. P!TypeOK
  BY DEF IInv, PP!IInv, PP!TypeOK, P!TypeOK
<1> QED
  BY <1>5, <1>6, <1>7, <1>8, Names DEF IInv, Shape, TypeOK, Good

(* The line of a producer's events is in order and holds what travels. *)
LEMMA LineOfIInv == ASSUME IInv, NEW m \in Producers
                    PROVE  PP!Ordered(Line(m)) /\ OnTheWay(m) = {e[2] : e \in {x \in Event : x[1] = m /\ Travels(m, x[2])}}
<1>1. /\ queue[C] \in Seq(Event) /\ queue[m] \in Seq(Event) /\ batch \in Seq(Event)
      /\ m \in Managers /\ C \in Managers
      /\ Range(batch) \subseteq Event /\ Range(queue[C]) \subseteq Event /\ Range(queue[m]) \subseteq Event
      /\ \A e \in Event : e[1] \in Producers /\ e[2] \in Nat /\ e = <<e[1], e[2]>>
  BY ListFacts
<1>2. /\ PP!Ordered(batch) /\ PP!Ordered(queue[C]) /\ PP!Ordered(queue[m])
      /\ PP!Before(Range(batch), Range(queue[m])) /\ PP!Before(Range(queue[C]), Range(queue[m]))
      /\ cur = C => PP!Before(Range(batch), Range(queue[C]))
      /\ cur # C => PP!Before(Range(queue[C]), Range(batch))
  BY <1>1 DEF IInv, InLine
<1> DEFINE r == IF cur = C THEN batch ELSE << >>
           g == IF cur # C THEN batch ELSE << >>
<1>3. /\ r \in Seq(Event) /\ g \in Seq(Event) /\ PP!Ordered(r) /\ PP!Ordered(g)
      /\ Range(r) \cup Range(g) = Range(batch)
      /\ PP!Before(Range(r), Range(queue[C])) /\ PP!Before(Range(r), Range(g)) /\ PP!Before(Range(queue[C]), Range(g))
  BY SameEvents, <1>1, <1>2, PP!EmptyIncreasing, PP!EmptyOrdered
<1> DEFINE first == r \o queue[C]
           second == first \o g
<1>4. Line(m) = second \o queue[m]
  BY DEF Line
<1> HIDE DEF r, g
<1>5. first \in Seq(Event) /\ PP!Ordered(first) /\ Range(first) = Range(r) \cup Range(queue[C])
  BY SameEvents, <1>1, <1>2, <1>3, PP!ConcatOrdered
<1> HIDE DEF first
<1>6. PP!Before(Range(first), Range(g))
  BY <1>3, <1>5 DEF PP!Before
<1>7. second \in Seq(Event) /\ PP!Ordered(second) /\ Range(second) = Range(first) \cup Range(g)
  <2>1. first \in Seq(Event) /\ g \in Seq(Event) /\ PP!Ordered(first) /\ PP!Ordered(g) /\ PP!Before(Range(first), Range(g))
    BY <1>3, <1>5, <1>6
  <2> QED
    BY SameEvents, <2>1, PP!ConcatOrdered
<1> HIDE DEF second
<1>8. Range(second) = Range(batch) \cup Range(queue[C]) /\ PP!Before(Range(second), Range(queue[m]))
  <2>1. Range(second) = Range(batch) \cup Range(queue[C])
    BY <1>3, <1>5, <1>7
  <2> QED
    BY <1>2, <2>1 DEF PP!Before
<1>9. PP!Ordered(Line(m)) /\ Range(Line(m)) = (Range(batch) \cup Range(queue[C])) \cup Range(queue[m])
  <2>1. /\ PP!Ordered(second \o queue[m])
        /\ Range(second \o queue[m]) = Range(second) \cup Range(queue[m])
    <3>1. /\ second \in Seq(Event) /\ queue[m] \in Seq(Event) /\ PP!Ordered(second) /\ PP!Ordered(queue[m])
          /\ PP!Before(Range(second), Range(queue[m]))
      BY <1>1, <1>2, <1>7, <1>8
    <3> QED
      BY SameEvents, <3>1, PP!ConcatOrdered
  <2> QED
    BY <1>4, <1>8, <2>1
<1>10. {x \in Range(Line(m)) : x[1] = m} = {x \in Event : x[1] = m /\ Travels(m, x[2])}
  <2>1. ASSUME NEW x \in Event, x[1] = m PROVE x \in Range(Line(m)) <=> Travels(m, x[2])
    <3>1. x = <<m, x[2]>>
      BY <1>1, <2>1
    <3> QED
      BY <1>9, <3>1 DEF Travels
  <2>2. Range(Line(m)) \subseteq Event
    BY <1>1, <1>9
  <2> QED
    BY <2>1, <2>2
<1> QED
  BY <1>9, <1>10 DEF OnTheWay

(* An event is on its way exactly when it travels. *)
LEMMA OnTheWayTravels == ASSUME IInv, NEW m \in Producers, NEW n
                         PROVE  n \in OnTheWay(m) <=> Travels(m, n)
<1>1. ASSUME n \in OnTheWay(m) PROVE Travels(m, n)
  BY <1>1, LineOfIInv
<1>2. ASSUME Travels(m, n) PROVE n \in OnTheWay(m)
  <2>1. <<m, n>> \in Event
    BY <1>2, ListFacts DEF Travels
  <2>2. <<m, n>>[1] = m /\ <<m, n>>[2] = n
    OBVIOUS
  <2> QED
    BY <1>2, <2>1, <2>2, LineOfIInv
<1> QED
  BY <1>1, <1>2

(* What the inductive invariant says of the events and the counters. *)
LEMMA AccountsOfIInv == IInv => EventsAccounted
<1> SUFFICES ASSUME IInv PROVE EventsAccounted
  OBVIOUS
<1>1. TypeOK
  BY TypeOfIInv
<1>2. QueueBound
  BY DEF IInv, Sizes, QueueBound
<1>3. EachEventOnce
  <2> SUFFICES ASSUME NEW m \in Producers
               PROVE  /\ PP!Ordered(Line(m)) /\ PP!Increasing(received[m])
                      /\ \A n \in OnTheWay(m), k \in Range(received[m]) : k < n
                      /\ Range(received[m]) \cup OnTheWay(m) =
                           (1 .. made[m]) \ (dropped[m] \cup (IF mpc[m] \in {"lock", "drop"} THEN {made[m]} ELSE {}))
    BY DEF EachEventOnce, PP!Ordered, PP!Increasing
  <2>1. Once(m)
    BY DEF IInv
  <2>2. \A n : n \in OnTheWay(m) <=> Travels(m, n)
    BY OnTheWayTravels
  <2>3. PP!Increasing(received[m]) /\ \A n : Travels(m, n) => \A k \in Range(received[m]) : k < n
    BY <2>1 DEF Once
  <2>4. \A n : n \in Range(received[m]) \cup OnTheWay(m)
                <=> n \in 1 .. made[m] /\ n \notin dropped[m] /\ ~InHand(m, n)
    BY <2>1, <2>2 DEF Once
  <2>5. \A n : InHand(m, n) <=> n \in (IF mpc[m] \in {"lock", "drop"} THEN {made[m]} ELSE {})
    BY DEF InHand
  <2> QED
    BY <2>2, <2>3, <2>4, <2>5, LineOfIInv
<1>4. CountersAgree
  <2>1. /\ A \in Managers /\ B \in Managers /\ C \in Managers /\ A # C /\ B # C
    BY Names DEF A, B, C
  <2>2. /\ txCount[A] \in Nat /\ txCount[B] \in Nat /\ txCount[C] \in Nat
        /\ rxCount[A] \in Nat /\ rxCount[B] \in Nat /\ rxCount[C] \in Nat
    BY <2>1 DEF IInv, Shape
  <2>3. /\ Size(queue[A]) \in Nat /\ Size(queue[B]) \in Nat /\ Size(queue[C]) \in Nat /\ Size(batch) \in Nat
    BY <2>1, LenProperties DEF IInv, Shape, Size
  <2>4. \A m \in {A, B} : mpc[m] = "count" => Size(queue[m]) # 0
    <3>1. \A m \in {A, B} : queue[m] \in Seq(Event) /\ (mpc[m] = "count" => queue[m] # << >>)
      BY <2>1 DEF IInv, Shape, Wakeups
    <3> QED
      BY <3>1, EmptySeq, LenProperties DEF Size
  <2>5. Uncounted(A) \in Nat /\ Uncounted(A) <= Size(queue[A]) /\ Uncounted(B) \in Nat /\ Uncounted(B) <= Size(queue[B])
    BY <2>3, <2>4 DEF Uncounted
  <2>6. Going \in Nat /\ Returning \in Nat
    BY <2>3 DEF Going, Returning
  <2>7. /\ txCount[A] + Uncounted(A) + txCount[B] + Uncounted(B) =
             rxCount[C] + Size(queue[A]) + Size(queue[B]) + Going
        /\ txCount[C] = rxCount[A] + rxCount[B] + Size(queue[C]) + Returning
    BY DEF IInv, Counts
  <2>8. rxCount[C] <= txCount[A] + txCount[B] /\ rxCount[A] + rxCount[B] <= txCount[C]
    BY <2>2, <2>3, <2>5, <2>6, <2>7
  <2> QED
    BY <2>8 DEF IInv, Setup, CountersAgree, A, B
<1> QED
  BY <1>1, <1>2, <1>3, <1>4 DEF EventsAccounted

(***************************************************************************)
(* The inductive invariant holds in every reachable state.                 *)
(***************************************************************************)
THEOREM InductiveInvariant == Spec => []IInv
  BY InitIInv, NextIInv, PTL DEF Spec

(***************************************************************************)
(* A list whose mutex is free and that holds events has a byte in its      *)
(* pipe, whichever producers run and however full the lists are.           *)
(***************************************************************************)
THEOREM WakeupNeverLost == Spec => []NoLostWakeup
  BY InductiveInvariant, WakeupOfIInv, PTL

(***************************************************************************)
(* The lists stay bounded though their size is read without the mutex,     *)
(* each event is in one place, in order, and the counters agree.           *)
(***************************************************************************)
THEOREM AllEventsAccounted == Spec => []EventsAccounted
  BY InductiveInvariant, AccountsOfIInv, PTL
=============================================================================
