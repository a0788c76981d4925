------------------------- MODULE EventRouterProofs -------------------------
(***************************************************************************)
(* The safety of EventRouter, proved for every number of managers, every   *)
(* assignment of types to consumers and to events, every queue and pipe    *)
(* capacity and every number of events.                                    *)
(*                                                                         *)
(* What is known of the pipes is not proved again: a step of the router is *)
(* a step of PipedEvent or leaves the pipes alone, so the invariant of     *)
(* PipedEventProofs holds here as well.                                    *)
(***************************************************************************)
EXTENDS EventRouter, Integers, Sequences, SequenceTheorems, TLAPS

PP == INSTANCE PipedEventProofs WITH Pipes <- Managers

(* A sequence holds the same elements here as in the lemmas about          *)
(* sequences of events that PipedEventProofs states.                       *)
LEMMA SameEvents == /\ PP!PipeAssumption
                    /\ \A s : PP!Range(s) = Range(s)
  BY RouterAssumption DEF PP!PipeAssumption, PP!Range, Range

(***************************************************************************)
(* The inductive invariant, in parts.  First the types, with the functions *)
(* and sequences over all numbers.                                         *)
(***************************************************************************)
Shape == /\ mpc \in [Managers -> {"new", "top", "count", "fire", "drop", "exited"}]
         /\ mRunning \in [Managers -> BOOLEAN] /\ running \in BOOLEAN
         /\ made \in [Managers -> Nat] /\ dropped \in [Managers -> SUBSET Nat]
         /\ queue \in [Managers -> Seq(Nat)] /\ batch \in Seq(Nat)
         /\ \A m \in Managers : made[m] <= MaxEvents[m] /\ Len(queue[m]) <= Capacity
         /\ producers \subseteq Managers /\ counters \subseteq Managers
         /\ consumers \in [Types -> SUBSET Managers]
         /\ lpc \in {"addProducer", "addConsumer", "run", "loop", "wait", "serve", "consume",
                     "drain", "route", "stop", "join", "ended"}
         /\ next \in 1 .. Len(Order)
         /\ ready \subseteq Managers /\ cur \in Managers
         /\ delivered \in [Managers -> [Managers -> Seq(Nat)]]

(***************************************************************************)
(* Who is inside Fire() and Consume(), and what epoll_wait reported.       *)
(***************************************************************************)
Callers == /\ \A m \in Managers : /\ fpc[m] # "idle" => mpc[m] = "fire"
                                  /\ cpc[m] # "idle" => lpc = "consume" /\ cur = m
           /\ lpc = "consume" => cur \notin ready
           /\ \A m \in ready : bytes[m] > 0

(***************************************************************************)
(* How far main() has registered and started the managers.                 *)
(***************************************************************************)
Registered(m) == \E i \in 1 .. next - 1 : m = Order[i]

Setup == /\ \A m \in Managers :
              /\ mpc[m] # "new" <=> m \in counters
              /\ m \in counters <=> /\ lpc \notin {"addProducer", "addConsumer"}
                                    /\ lpc = "run" => Registered(m)
         /\ \A t \in Types, m \in Managers :
              m \in consumers[t] <=> /\ t \in WillConsume[m]
                                     /\ lpc # "addProducer"
                                     /\ lpc = "addConsumer" => Registered(m)

(***************************************************************************)
(* The events of p, in the order in which they were created: delivered     *)
(* ones first, then those of the batch being routed, then those queued;    *)
(* and none of these was dropped.                                          *)
(***************************************************************************)
Batch(p) == IF cur = p THEN Range(batch) ELSE {}

Accepted(p) == Range(queue[p]) \cup Batch(p)

OrderOf(p) == /\ PP!Increasing(queue[p])
              /\ Accepted(p) \subseteq 1 .. made[p] /\ dropped[p] \subseteq 1 .. made[p]
              /\ Accepted(p) \cap dropped[p] = {}
              /\ mpc[p] = "drop" => made[p] > 0 /\ made[p] \notin Accepted(p)
              /\ \A b \in Batch(p), n \in Range(queue[p]) : b < n
              /\ \A c \in Managers : /\ PP!Increasing(delivered[c][p])
                                     /\ \A d \in Range(delivered[c][p]), n \in Accepted(p) : d < n

InOrder == /\ PP!Increasing(batch) /\ (lpc \notin {"drain", "route"} => batch = << >>)
           /\ \A p \in Managers : OrderOf(p)

Routing == \A c, p \in Managers : Range(delivered[c][p]) = Wanted(c, p)

IInv == /\ PP!IInv /\ Shape /\ Callers /\ NoLostWakeup
        /\ Setup /\ CountersRegistered /\ InOrder /\ Routing
-----------------------------------------------------------------------------
(* Order[i] is a manager, there is one, and Order lists them all. *)
LEMMA OrderManagers == /\ Len(Order) \in Nat \ {0}
                       /\ \A i \in 1 .. Len(Order) : Order[i] \in Managers
                       /\ \A m \in Managers : \E i \in 1 .. Len(Order) : m = Order[i]
<1>1. Len(Order) \in Nat \ {0} /\ DOMAIN Order = 1 .. Len(Order)
  BY RouterAssumption, EmptySeq, LenProperties
<1> QED
  BY <1>1 DEF Managers, Range

(* The bounds are numbers. *)
LEMMA Bounds == MaxEvents \in [Managers -> Nat] /\ Capacity \in Nat /\ PipeCapacity \in Nat
  BY RouterAssumption

(* The initial state satisfies the inductive invariant. *)
LEMMA InitIInv == Init => IInv
<1> SUFFICES ASSUME Init PROVE IInv
  OBVIOUS
<1>1. PP!IInv
  BY PP!InitIInv, RouterAssumption DEF Init, P!Init, PP!Init, PP!PipeAssumption
<1>2. Shape
  BY SameEvents, RouterAssumption, OrderManagers, PP!EmptyIncreasing, EmptySeq DEF Init, Shape
<1>3. Callers /\ Setup /\ CountersRegistered
  BY DEF Init, P!Init, Callers, Setup, CountersRegistered
<1>4. NoLostWakeup
  BY DEF Init, NoLostWakeup
<1>5. InOrder
  BY SameEvents, PP!EmptyIncreasing DEF Init, InOrder, OrderOf, Accepted, Batch
<1>6. Routing
  BY SameEvents, PP!EmptyIncreasing DEF Init, Routing, Wanted
<1> QED
  BY <1>1, <1>2, <1>3, <1>4, <1>5, <1>6 DEF IInv

(* Every step of the program is one of PipedEvent, or leaves the pipes as *)
(* they are.                                                              *)
LEMMA PipeStep == ASSUME Shape, [Next]_vars PROVE [PP!Next]_(PP!vars)
<1>1. ASSUME NEW m \in Managers, Fire(m) PROVE PP!Next
  BY <1>1 DEF Fire, PP!Next, P!FireCheck, P!FireStore, P!FireWrite,
              PP!FireCheck, PP!FireStore, PP!FireWrite
<1>2. ASSUME ConsumeEvent PROVE PP!Next
  BY <1>2 DEF Shape, ConsumeEvent, PP!Next, P!ConsumeCheck, P!ConsumeRead, P!ConsumeReset, P!Readable,
              PP!ConsumeCheck, PP!ConsumeRead, PP!ConsumeReset, PP!Readable
<1>3. ASSUME NEW m \in Managers, ThreadExit(m) \/ RunImpl(m) \/ CountTx(m) \/ CountDrop(m)
      PROVE  UNCHANGED PP!vars
  BY <1>3 DEF ThreadExit, RunImpl, CountTx, CountDrop, pipeVars, PP!vars
<1>4. ASSUME AddProducer \/ AddConsumer \/ Run \/ Stop \/ Join
      PROVE  UNCHANGED PP!vars
  BY <1>4 DEF AddProducer, AddConsumer, Run, Stop, Join, pipeVars, PP!vars
<1>5. ASSUME CheckRunning \/ Wait \/ WaitInVain \/ WaitFails \/ SignalHandler \/ Ended
      PROVE  UNCHANGED PP!vars
  BY <1>5 DEF CheckRunning, Wait, WaitInVain, WaitFails, SignalHandler, Ended, vars, pipeVars, PP!vars
<1>6. ASSUME Serve \/ AllServed \/ Drain \/ Drained \/ Route \/ Routed
      PROVE  UNCHANGED PP!vars
  BY <1>6 DEF Serve, AllServed, Drain, Drained, Route, Routed, pipeVars, PP!vars
<1>7. ASSUME UNCHANGED vars PROVE UNCHANGED PP!vars
  BY <1>7 DEF vars, pipeVars, PP!vars
<1> QED
  BY <1>1, <1>2, <1>3, <1>4, <1>5, <1>6, <1>7 DEF Next, ManagerThread, MainThread

(* The invariant of the pipes is preserved. *)
LEMMA PipeIInv == ASSUME IInv, [Next]_vars PROVE PP!IInv'
  BY PipeStep, PP!NextIInv, RouterAssumption DEF IInv, PP!PipeAssumption

(***************************************************************************)
(* What the invariant of the pipes says here, in the variables of the      *)
(* router.                                                                 *)
(***************************************************************************)
LEMMA PipeFacts == ASSUME PP!IInv
                   PROVE  /\ fired \in [Managers -> BOOLEAN] /\ bytes \in [Managers -> Nat]
                          /\ fpc \in [Managers -> {"idle", "store", "write"}]
                          /\ cpc \in [Managers -> {"idle", "read", "reset"}]
                          /\ \A m \in Managers : PP!Quiet(m) \/ PP!Signalled(m)
  BY RouterAssumption DEF PP!IInv, PP!TypeOK

(* Advance() stays within the managers, and goes on to one of two places. *)
LEMMA AdvanceNext == ASSUME NEW again, NEW after, next \in 1 .. Len(Order), Advance(again, after)
                     PROVE  /\ next' \in 1 .. Len(Order)
                            /\ \/ lpc' = again /\ next' = next + 1
                               \/ lpc' = after /\ next = Len(Order) /\ next' = 1
  BY OrderManagers DEF Advance

(* The manager whose turn it is was not handled before in this round. *)
LEMMA NotYetRegistered == ASSUME next \in 1 .. Len(Order) PROVE ~Registered(Order[next])
<1>1. DOMAIN Order = 1 .. Len(Order) /\ Len(Order) \in Nat
  BY RouterAssumption, LenProperties
<1>2. \A i \in 1 .. next - 1 : i \in 1 .. Len(Order) /\ i # next
  BY <1>1
<1>3. \A i, j \in DOMAIN Order : Order[i] = Order[j] => i = j
  BY RouterAssumption DEF IsInjective
<1> QED
  BY <1>1, <1>2, <1>3 DEF Registered

(* Going on to the next manager registers the one just handled; after the *)
(* last one all of them are.                                              *)
LEMMA RegisteredNext == ASSUME next \in 1 .. Len(Order), NEW m \in Managers
                        PROVE  /\ next' = next + 1 => (Registered(m)' <=> Registered(m) \/ m = Order[next])
                               /\ next' = 1 => ~Registered(m)'
                               /\ next = Len(Order) => Registered(m) \/ m = Order[next]
<1>1. Len(Order) \in Nat
  BY OrderManagers
<1>2. ASSUME next' = next + 1 PROVE Registered(m)' <=> Registered(m) \/ m = Order[next]
  <2>1. next' - 1 = next
    BY <1>1, <1>2
  <2>2. \A i : i \in 1 .. next <=> i \in 1 .. next - 1 \/ i = next
    BY <1>1
  <2> QED
    BY <2>1, <2>2 DEF Registered
<1>3. ASSUME next' = 1 PROVE ~Registered(m)'
  BY <1>3 DEF Registered
<1>4. ASSUME next = Len(Order) PROVE Registered(m) \/ m = Order[next]
  <2>1. PICK i \in 1 .. Len(Order) : m = Order[i]
    BY OrderManagers
  <2>2. i \in 1 .. next - 1 \/ i = next
    BY <1>1, <1>4
  <2> QED
    BY <2>1, <2>2 DEF Registered
<1> QED
  BY <1>2, <1>3, <1>4

(* Every step preserves the types. *)
LEMMA ShapeStep == ASSUME IInv, [Next]_vars PROVE Shape'
<1> USE DEF Shape, pipeVars, threadVars, setupVars, routeVars
<1>0. Shape
  BY DEF IInv
<1>1. ASSUME NEW m \in Managers, RunImpl(m) PROVE Shape'
  <2>1. made[m] + 1 \in Nat /\ made[m] + 1 <= MaxEvents[m]
    <3>1. made[m] < MaxEvents[m]
      BY <1>1 DEF RunImpl
    <3> QED
      BY Bounds, <1>0, <3>1
  <2>2. /\ Append(queue[m], made[m] + 1) \in Seq(Nat)
        /\ Len(Append(queue[m], made[m] + 1)) = Len(queue[m]) + 1
        /\ Len(queue[m]) \in Nat
    BY <1>0, <2>1, AppendProperties, LenProperties
  <2>3. /\ made' \in [Managers -> Nat] /\ queue' \in [Managers -> Seq(Nat)]
        /\ \A k \in Managers : made'[k] <= MaxEvents[k] /\ Len(queue'[k]) <= Capacity
    <3>1. CASE queue' = queue
      BY Bounds, <1>0, <2>1, <3>1, <1>1 DEF RunImpl
    <3>2. CASE Len(queue[m]) < Capacity /\ queue' = [queue EXCEPT ![m] = Append(@, made[m] + 1)]
      BY Bounds, <1>0, <2>1, <2>2, <3>2, <1>1 DEF RunImpl
    <3> QED
      BY <1>1, <3>1, <3>2 DEF RunImpl
  <2> QED
    BY <1>0, <1>1, <2>3 DEF RunImpl
<1>2. ASSUME NEW m \in Managers, CountDrop(m) PROVE Shape'
  BY <1>0, <1>2 DEF CountDrop
<1>3. ASSUME NEW m \in Managers, ThreadExit(m) \/ CountTx(m) \/ Fire(m) PROVE Shape'
  BY <1>0, <1>3 DEF ThreadExit, CountTx, Fire
<1>4. ASSUME AddProducer \/ AddConsumer \/ Run \/ Stop \/ Join PROVE Shape'
  <2>1. Order[next] \in Managers
    BY <1>0, OrderManagers
  <2>2. CASE AddProducer
    BY <1>0, <2>1, <2>2, AdvanceNext DEF AddProducer
  <2>3. CASE AddConsumer
    BY <1>0, <2>1, <2>3, AdvanceNext DEF AddConsumer
  <2>4. CASE Run
    BY <1>0, <2>1, <2>4, AdvanceNext DEF Run
  <2>5. CASE Stop
    BY <1>0, <2>1, <2>5 DEF Stop
  <2>6. CASE Join
    BY <1>0, <2>6, AdvanceNext DEF Join
  <2> QED
    BY <1>4, <2>2, <2>3, <2>4, <2>5, <2>6
<1>5. ASSUME CheckRunning \/ Wait \/ WaitInVain \/ WaitFails \/ SignalHandler \/ Ended PROVE Shape'
  BY <1>0, <1>5 DEF CheckRunning, Wait, WaitInVain, WaitFails, SignalHandler, Ended, vars, ReadableProducers
<1>6. ASSUME Serve \/ AllServed \/ ConsumeEvent \/ Drained \/ Routed PROVE Shape'
  BY <1>0, <1>6 DEF Serve, AllServed, ConsumeEvent, Drained, Routed
<1>7. ASSUME Drain PROVE Shape'
  <2>1. /\ Head(queue[cur]) \in Nat /\ Tail(queue[cur]) \in Seq(Nat)
        /\ Len(Tail(queue[cur])) = Len(queue[cur]) - 1 /\ Len(queue[cur]) \in Nat
    BY <1>0, <1>7, HeadTailProperties, LenProperties DEF Drain
  <2>2. Append(batch, Head(queue[cur])) \in Seq(Nat)
    BY <1>0, <2>1, AppendProperties
  <2>3. /\ batch' \in Seq(Nat) /\ queue' \in [Managers -> Seq(Nat)]
        /\ \A m \in Managers : Len(queue'[m]) <= Capacity
    <3>1. /\ cur \in Managers /\ queue \in [Managers -> Seq(Nat)]
          /\ \A m \in Managers : Len(queue[m]) <= Capacity
      BY <1>0
    <3>2. batch' = Append(batch, Head(queue[cur])) /\ queue' = [queue EXCEPT ![cur] = Tail(@)]
      BY <1>7 DEF Drain
    <3>3. queue' \in [Managers -> Seq(Nat)]
      BY <2>1, <3>1, <3>2
    <3>4. Len(queue[cur]) - 1 <= Capacity
      BY Bounds, <2>1, <3>1
    <3>5. \A m \in Managers : queue'[m] = IF m = cur THEN Tail(queue[cur]) ELSE queue[m]
      BY <3>1, <3>2
    <3> QED
      BY <2>1, <2>2, <3>1, <3>2, <3>3, <3>4, <3>5
  <2> QED
    BY <1>0, <2>3, <1>7 DEF Drain
<1>8. ASSUME Route PROVE Shape'
  <2>1. Head(batch) \in Nat /\ Tail(batch) \in Seq(Nat)
    BY <1>0, <1>8, HeadTailProperties DEF Route
  <2>2. \A c \in Managers : Append(delivered[c][cur], Head(batch)) \in Seq(Nat)
    BY <1>0, <2>1, AppendProperties
  <2> QED
    BY <1>0, <1>8, <2>1, <2>2 DEF Route
<1>9. ASSUME UNCHANGED vars PROVE Shape'
  BY <1>0, <1>9 DEF vars
<1> QED
  BY <1>1, <1>2, <1>3, <1>4, <1>5, <1>6, <1>7, <1>8, <1>9 DEF Next, ManagerThread, MainThread

(* Every step preserves what is known of the callers of the pipes. *)
LEMMA CallersStep == ASSUME IInv, [Next]_vars PROVE Callers'
<1> USE DEF Callers, pipeVars, threadVars, setupVars, routeVars
<1>0. Callers /\ Shape /\ PP!IInv
  BY DEF IInv
<1>1. /\ fired \in [Managers -> BOOLEAN] /\ bytes \in [Managers -> Nat]
      /\ fpc \in [Managers -> {"idle", "store", "write"}]
      /\ cpc \in [Managers -> {"idle", "read", "reset"}]
  BY <1>0, PipeFacts
<1>2. /\ mpc \in [Managers -> {"new", "top", "count", "fire", "drop", "exited"}]
      /\ cur \in Managers /\ ready \subseteq Managers /\ Order[next] \in Managers
  BY <1>0, OrderManagers DEF Shape
<1>3. ASSUME NEW m \in Managers, Fire(m) PROVE Callers'
  <2>1. CASE P!FireCheck(m)
    BY <1>1, <1>2, <1>0, <1>3, <2>1 DEF Fire, P!FireCheck
  <2>2. CASE P!FireStore(m)
    BY <1>1, <1>2, <1>0, <1>3, <2>2 DEF Fire, P!FireStore
  <2>3. CASE P!FireWrite(m)
    BY <1>1, <1>2, <1>0, <1>3, <2>3 DEF Fire, P!FireWrite
  <2> QED
    BY <1>3, <2>1, <2>2, <2>3 DEF Fire
<1>4. ASSUME NEW m \in Managers, ThreadExit(m) \/ RunImpl(m) \/ CountTx(m) \/ CountDrop(m)
      PROVE  Callers'
  BY <1>1, <1>2, <1>0, <1>4 DEF ThreadExit, RunImpl, CountTx, CountDrop
<1>5. ASSUME Run PROVE Callers'
  <2>1. lpc \notin {"consume"} /\ lpc' \notin {"consume"}
    BY <1>5 DEF Run, Advance
  <2>2. mpc' = [mpc EXCEPT ![Order[next]] = "top"] /\ UNCHANGED <<fpc, cpc, bytes, cur, ready>>
    BY <1>5 DEF Run
  <2>3. mpc[Order[next]] = "new"
    BY <1>0, <1>2, <1>5, NotYetRegistered DEF IInv, Setup, Shape, Run
  <2> QED
    BY <1>1, <1>2, <1>0, <2>1, <2>2, <2>3
<1>6. ASSUME AddProducer \/ AddConsumer \/ Stop \/ Join PROVE Callers'
  BY <1>0, <1>6 DEF AddProducer, AddConsumer, Stop, Join, Advance
<1>7. ASSUME Wait PROVE Callers'
  BY <1>0, <1>7 DEF Wait, ReadableProducers, P!Readable
<1>8. ASSUME CheckRunning \/ WaitInVain \/ WaitFails \/ SignalHandler \/ Ended PROVE Callers'
  BY <1>0, <1>8 DEF CheckRunning, WaitInVain, WaitFails, SignalHandler, Ended, vars
<1>9. ASSUME ConsumeEvent PROVE Callers'
  <2>1. CASE P!ConsumeCheck(cur)
    BY <1>1, <1>2, <1>0, <1>9, <2>1 DEF ConsumeEvent, P!ConsumeCheck
  <2>2. CASE P!ConsumeRead(cur)
    BY <1>1, <1>2, <1>0, <1>9, <2>2 DEF ConsumeEvent, P!ConsumeRead
  <2>3. CASE P!ConsumeReset(cur)
    BY <1>1, <1>2, <1>0, <1>9, <2>3 DEF ConsumeEvent, P!ConsumeReset
  <2> QED
    BY <1>9, <2>1, <2>2, <2>3 DEF ConsumeEvent
<1>10. ASSUME Serve \/ AllServed \/ Drain \/ Drained \/ Route \/ Routed PROVE Callers'
  BY <1>0, <1>10 DEF Serve, AllServed, Drain, Drained, Route, Routed
<1>11. ASSUME UNCHANGED vars PROVE Callers'
  BY <1>0, <1>11 DEF vars
<1> QED
  BY <1>3, <1>4, <1>5, <1>6, <1>7, <1>8, <1>9, <1>10, <1>11 DEF Next, ManagerThread, MainThread
(* Every step preserves what main() has registered and started. *)
LEMMA SetupStep == ASSUME IInv, [Next]_vars PROVE Setup'
<1> USE DEF Setup, pipeVars, threadVars, setupVars, routeVars
<1>0. /\ Setup
      /\ mpc \in [Managers -> {"new", "top", "count", "fire", "drop", "exited"}]
      /\ consumers \in [Types -> SUBSET Managers] /\ counters \subseteq Managers
      /\ next \in 1 .. Len(Order) /\ Order[next] \in Managers
  BY OrderManagers DEF IInv, Shape
<1>1. ASSUME next' = next PROVE \A m \in Managers : Registered(m)' <=> Registered(m)
  BY <1>1 DEF Registered
<1>2. ASSUME NEW m \in Managers, ThreadExit(m) \/ RunImpl(m) \/ CountTx(m) \/ CountDrop(m) \/ Fire(m)
      PROVE  Setup'
  <2>1. /\ mpc[m] # "new" /\ UNCHANGED <<lpc, next, counters, consumers>>
        /\ \E v \in {"top", "count", "fire", "drop", "exited"} : mpc' = [mpc EXCEPT ![m] = v]
    BY <1>2 DEF ThreadExit, RunImpl, CountTx, CountDrop, Fire
  <2> QED
    BY <1>0, <1>1, <2>1
<1>3. ASSUME AddProducer PROVE Setup'
  <2>1. /\ lpc = "addProducer" /\ UNCHANGED <<mpc, counters, consumers>>
        /\ \/ lpc' = "addProducer"
           \/ lpc' = "addConsumer" /\ next' = 1
    BY <1>3 DEF AddProducer, Advance
  <2> QED
    BY <1>0, <2>1, RegisteredNext
<1>4. ASSUME AddConsumer PROVE Setup'
  <2>1. /\ lpc = "addConsumer" /\ UNCHANGED <<mpc, counters>>
        /\ \A t \in Types, m \in Managers :
             m \in consumers'[t] <=> m \in consumers[t] \/ (m = Order[next] /\ t \in WillConsume[m])
    BY <1>4 DEF AddConsumer
  <2>2. \/ lpc' = "addConsumer" /\ next' = next + 1
        \/ lpc' = "run" /\ next = Len(Order) /\ next' = 1
    BY <1>0, <1>4, AdvanceNext DEF AddConsumer
  <2>3. CASE lpc' = "addConsumer" /\ next' = next + 1
    BY <1>0, <2>1, <2>3, RegisteredNext
  <2>4. CASE lpc' = "run" /\ next = Len(Order) /\ next' = 1
    BY <1>0, <2>1, <2>4, RegisteredNext
  <2> QED
    BY <2>2, <2>3, <2>4
<1>5. ASSUME Run PROVE Setup'
  <2>1. /\ lpc = "run" /\ UNCHANGED consumers
        /\ counters' = counters \cup {Order[next]}
        /\ mpc' = [mpc EXCEPT ![Order[next]] = "top"]
    BY <1>5 DEF Run
  <2>2. \/ lpc' = "run" /\ next' = next + 1
        \/ lpc' = "loop" /\ next = Len(Order) /\ next' = 1
    BY <1>0, <1>5, AdvanceNext DEF Run
  <2>3. CASE lpc' = "run" /\ next' = next + 1
    BY <1>0, <2>1, <2>3, RegisteredNext
  <2>4. CASE lpc' = "loop" /\ next = Len(Order) /\ next' = 1
    BY <1>0, <2>1, <2>4, RegisteredNext
  <2> QED
    BY <2>2, <2>3, <2>4
<1>6. ASSUME Stop \/ Join \/ CheckRunning \/ Wait \/ WaitInVain \/ WaitFails
             \/ Serve \/ AllServed \/ ConsumeEvent \/ Drain \/ Drained \/ Route \/ Routed
      PROVE  Setup'
  <2>1. /\ lpc \notin {"addProducer", "addConsumer", "run"}
        /\ lpc' \notin {"addProducer", "addConsumer", "run"}
        /\ UNCHANGED <<mpc, counters, consumers>>
    BY <1>6 DEF Stop, Join, CheckRunning, Wait, WaitInVain, WaitFails, Serve, AllServed,
                ConsumeEvent, Drain, Drained, Route, Routed, Advance
  <2> QED
    BY <1>0, <2>1
<1>7. ASSUME SignalHandler \/ Ended \/ UNCHANGED vars PROVE Setup'
  <2>1. UNCHANGED <<mpc, lpc, next, counters, consumers>>
    BY <1>7 DEF SignalHandler, Ended, vars
  <2> QED
    BY <1>0, <1>1, <2>1
<1> QED
  BY <1>2, <1>3, <1>4, <1>5, <1>6, <1>7 DEF Next, ManagerThread, MainThread
(* No step loses a wake-up. *)
LEMMA WakeupStep == ASSUME IInv, [Next]_vars PROVE NoLostWakeup'
<1> USE DEF NoLostWakeup, BeingServed, P!Readable, pipeVars, threadVars, setupVars, routeVars
<1>0. NoLostWakeup /\ Callers /\ Shape /\ PP!IInv
  BY DEF IInv
<1>1. /\ fired \in [Managers -> BOOLEAN] /\ bytes \in [Managers -> Nat]
      /\ fpc \in [Managers -> {"idle", "store", "write"}]
      /\ cpc \in [Managers -> {"idle", "read", "reset"}]
      /\ \A m \in Managers : PP!Quiet(m) \/ PP!Signalled(m)
  BY <1>0, PipeFacts
<1>2. /\ mpc \in [Managers -> {"new", "top", "count", "fire", "drop", "exited"}]
      /\ queue \in [Managers -> Seq(Nat)]
      /\ cur \in Managers /\ ready \subseteq Managers /\ Order[next] \in Managers
  BY <1>0, OrderManagers DEF Shape
<1>3. ASSUME NEW m \in Managers, Fire(m) PROVE NoLostWakeup'
  <2>0. /\ mpc[m] = "fire" /\ UNCHANGED <<queue, lpc, cur, ready>>
        /\ mpc' = [mpc EXCEPT ![m] = IF fpc'[m] = "idle" THEN "top" ELSE "fire"]
    BY <1>3 DEF Fire
  <2>1. CASE P!FireCheck(m)
    <3>1. fpc[m] = "idle" /\ UNCHANGED bytes /\ (fpc'[m] = "idle" => fired[m])
      BY <1>1, <2>1 DEF P!FireCheck
    <3>2. fired[m] /\ fpc[m] = "idle" => bytes[m] > 0 \/ BeingServed(m)
      <4>1. CASE PP!Quiet(m)
        BY <4>1 DEF PP!Quiet
      <4>2. CASE PP!Signalled(m)
        BY <1>0, <4>2 DEF PP!Signalled, Callers
      <4> QED
        BY <1>1, <4>1, <4>2
    <3> QED
      BY <1>0, <1>2, <2>0, <3>1, <3>2
  <2>2. CASE P!FireStore(m)
    <3>1. fpc'[m] # "idle" /\ UNCHANGED bytes
      BY <1>1, <2>2 DEF P!FireStore
    <3> QED
      BY <1>0, <1>2, <2>0, <3>1
  <2>3. CASE P!FireWrite(m)
    <3>1. bytes'[m] > 0 /\ \A k \in Managers \ {m} : bytes'[k] = bytes[k]
      BY <1>1, <2>3 DEF P!FireWrite
    <3> QED
      BY <1>0, <1>2, <2>0, <3>1
  <2> QED
    BY <1>3, <2>1, <2>2, <2>3 DEF Fire
<1>4. ASSUME NEW m \in Managers, RunImpl(m) PROVE NoLostWakeup'
  <2>1. /\ UNCHANGED <<bytes, lpc, cur, ready>> /\ mpc[m] = "top"
        /\ \/ mpc' = [mpc EXCEPT ![m] = "count"] /\ \E q : queue' = [queue EXCEPT ![m] = q]
           \/ mpc' = [mpc EXCEPT ![m] = "drop"] /\ queue' = queue
    BY <1>4 DEF RunImpl
  <2> QED
    BY <1>0, <1>2, <2>1
<1>5. ASSUME NEW m \in Managers, ThreadExit(m) \/ CountTx(m) \/ CountDrop(m) PROVE NoLostWakeup'
  <2>1. /\ UNCHANGED <<bytes, queue, lpc, cur, ready>> /\ mpc[m] # "fire"
        /\ \/ mpc[m] # "count" /\ \E v : mpc' = [mpc EXCEPT ![m] = v]
           \/ mpc' = [mpc EXCEPT ![m] = "fire"]
    BY <1>5 DEF ThreadExit, CountTx, CountDrop
  <2> QED
    BY <1>0, <1>2, <2>1
<1>6. ASSUME Run PROVE NoLostWakeup'
  <2>1. /\ lpc = "run" /\ lpc' \notin {"consume", "drain"} /\ UNCHANGED <<bytes, queue, cur, ready>>
        /\ mpc' = [mpc EXCEPT ![Order[next]] = "top"]
    BY <1>6 DEF Run, Advance
  <2>2. mpc[Order[next]] = "new"
    BY <1>0, <1>2, <1>6, NotYetRegistered DEF IInv, Setup, Shape, Run
  <2> QED
    BY <1>0, <1>2, <2>1, <2>2
<1>7. ASSUME Wait PROVE NoLostWakeup'
  <2>1. lpc = "wait" /\ lpc' = "serve" /\ UNCHANGED <<bytes, queue, mpc>>
    BY <1>7 DEF Wait
  <2> QED
    BY <1>0, <2>1 DEF Callers
<1>8. ASSUME \/ AddProducer \/ AddConsumer \/ Stop \/ Join \/ CheckRunning \/ WaitInVain \/ WaitFails
             \/ AllServed \/ Route \/ Routed
      PROVE  NoLostWakeup'
  <2>1. lpc \notin {"consume", "drain"} /\ lpc' \notin {"consume", "drain"}
    BY <1>8 DEF AddProducer, AddConsumer, Stop, Join, CheckRunning, WaitInVain, WaitFails,
                AllServed, Route, Routed, Advance
  <2>2. UNCHANGED <<bytes, queue, mpc, ready>>
    BY <1>8 DEF AddProducer, AddConsumer, Stop, Join, CheckRunning, WaitInVain, WaitFails,
                AllServed, Route, Routed
  <2> QED
    BY <1>0, <2>1, <2>2
<1>9. ASSUME Serve PROVE NoLostWakeup'
  BY <1>0, <1>9 DEF Serve
<1>10. ASSUME ConsumeEvent PROVE NoLostWakeup'
  <2>1. /\ lpc = "consume" /\ lpc' \in {"consume", "drain"} /\ UNCHANGED <<queue, mpc, cur, ready>>
    BY <1>10 DEF ConsumeEvent
  <2>2. \A m \in Managers \ {cur} : bytes'[m] = bytes[m]
    BY <1>1, <1>2, <1>10 DEF ConsumeEvent, P!ConsumeCheck, P!ConsumeRead, P!ConsumeReset
  <2> QED
    BY <1>0, <1>2, <2>1, <2>2
<1>11. ASSUME Drain PROVE NoLostWakeup'
  <2>1. /\ lpc = "drain" /\ \E q : queue' = [queue EXCEPT ![cur] = q]
        /\ UNCHANGED <<lpc, bytes, mpc, cur, ready>>
    BY <1>11 DEF Drain
  <2> QED
    BY <1>0, <1>2, <2>1
<1>12. ASSUME Drained PROVE NoLostWakeup'
  BY <1>0, <1>2, <1>12 DEF Drained
<1>13. ASSUME SignalHandler \/ Ended \/ UNCHANGED vars PROVE NoLostWakeup'
  BY <1>0, <1>13 DEF SignalHandler, Ended, vars
<1> QED
  BY <1>3, <1>4, <1>5, <1>6, <1>7, <1>8, <1>9, <1>10, <1>11, <1>12, <1>13
     DEF Next, ManagerThread, MainThread

(* No step counts for a manager whose counters are not registered. *)
LEMMA CountersStep == ASSUME IInv, [Next]_vars PROVE CountersRegistered'
<1> USE DEF CountersRegistered, pipeVars, threadVars, setupVars, routeVars
<1>0. CountersRegistered /\ Setup /\ Shape
  BY DEF IInv
<1>1. ASSUME NEW m \in Managers, RunImpl(m) PROVE CountersRegistered'
  <2>1. m \in counters
    BY <1>0, <1>1 DEF RunImpl, Setup
  <2>2. /\ UNCHANGED <<counters, delivered>>
        /\ \E n : made' = [made EXCEPT ![m] = n]
    BY <1>1 DEF RunImpl
  <2> QED
    BY <1>0, <2>1, <2>2 DEF Shape
<1>2. ASSUME NEW m \in Managers, ThreadExit(m) \/ CountTx(m) \/ CountDrop(m) \/ Fire(m)
      PROVE  CountersRegistered'
  BY <1>0, <1>2 DEF ThreadExit, CountTx, CountDrop, Fire
<1>3. ASSUME Route PROVE CountersRegistered'
  <2>1. \A m \in Managers : m \in counters'
    BY <1>0, <1>3 DEF Route, Setup
  <2> QED
    BY <2>1
<1>4. ASSUME AddProducer \/ AddConsumer \/ Run \/ Stop \/ Join PROVE CountersRegistered'
  BY <1>0, <1>4 DEF AddProducer, AddConsumer, Run, Stop, Join
<1>5. ASSUME \/ CheckRunning \/ Wait \/ WaitInVain \/ WaitFails \/ SignalHandler \/ Ended
             \/ Serve \/ AllServed \/ ConsumeEvent \/ Drain \/ Drained \/ Routed \/ UNCHANGED vars
      PROVE  CountersRegistered'
  <2>1. UNCHANGED <<counters, made, delivered>>
    BY <1>5 DEF CheckRunning, Wait, WaitInVain, WaitFails, SignalHandler, Ended, Serve, AllServed,
                ConsumeEvent, Drain, Drained, Routed, vars
  <2> QED
    BY <1>0, <2>1
<1> QED
  BY <1>1, <1>2, <1>3, <1>4, <1>5 DEF Next, ManagerThread, MainThread
(* What the parts of the invariant say of the numbers of one manager's     *)
(* events.                                                                 *)
LEMMA NumberFacts == ASSUME IInv, NEW p \in Managers
                     PROVE  /\ made[p] \in Nat /\ queue[p] \in Seq(Nat) /\ batch \in Seq(Nat)
                            /\ dropped[p] \subseteq Nat
                            /\ Range(queue[p]) \subseteq Nat /\ Range(batch) \subseteq Nat
                            /\ \A c \in Managers : /\ delivered[c][p] \in Seq(Nat)
                                                   /\ Range(delivered[c][p]) \subseteq 1 .. made[p]
<1>1. /\ made[p] \in Nat /\ queue[p] \in Seq(Nat) /\ batch \in Seq(Nat) /\ dropped[p] \subseteq Nat
      /\ \A c \in Managers : delivered[c][p] \in Seq(Nat)
  BY DEF IInv, Shape
<1>2. Range(queue[p]) \subseteq Nat /\ Range(batch) \subseteq Nat
  BY <1>1, RangeOfSeq
<1>3. \A c \in Managers : Range(delivered[c][p]) \subseteq 1 .. made[p]
  BY DEF IInv, Routing, Wanted
<1> QED
  BY <1>1, <1>2, <1>3

(* The order of p's events only depends on a few variables. *)
LEMMA OrderUnchanged == ASSUME NEW p \in Managers, OrderOf(p),
                               UNCHANGED <<queue[p], made[p], dropped[p], Batch(p)>>,
                               \A c \in Managers : delivered'[c][p] = delivered[c][p],
                               mpc'[p] = "drop" => mpc[p] = "drop"
                        PROVE  OrderOf(p)'
  BY DEF OrderOf, Accepted

(* A new event, accepted by the queue or refused, keeps the order. *)
LEMMA RunImplOrder == ASSUME IInv, NEW m \in Managers, RunImpl(m) PROVE InOrder'
<1> DEFINE n == made[m] + 1
<1> USE DEF pipeVars, setupVars, routeVars
<1>0. InOrder /\ Shape
  BY DEF IInv
<1>1. /\ UNCHANGED <<batch, cur, dropped, delivered, lpc>>
      /\ made' = [made EXCEPT ![m] = n]
      /\ \/ queue' = [queue EXCEPT ![m] = Append(@, n)] /\ mpc' = [mpc EXCEPT ![m] = "count"]
         \/ queue' = queue /\ mpc' = [mpc EXCEPT ![m] = "drop"]
  BY DEF RunImpl
<1>2. /\ made'[m] = n
      /\ \/ queue'[m] = Append(queue[m], n) /\ mpc'[m] = "count"
         \/ queue'[m] = queue[m]
      /\ \A p \in Managers \ {m} : made'[p] = made[p] /\ queue'[p] = queue[p] /\ mpc'[p] = mpc[p]
      /\ \A p \in Managers : Batch(p)' = Batch(p)
  BY <1>0, <1>1 DEF Shape, Batch
<1>3. ASSUME NEW p \in Managers, p # m PROVE OrderOf(p)'
  BY <1>0, <1>1, <1>2, <1>3, OrderUnchanged DEF InOrder
<1>4. OrderOf(m)'
  <2>1. /\ made[m] \in Nat /\ queue[m] \in Seq(Nat)
        /\ \A c \in Managers : Range(delivered[c][m]) \subseteq 1 .. made[m]
    BY NumberFacts
  <2>2. OrderOf(m) /\ Batch(m) \subseteq Accepted(m) /\ Range(queue[m]) \subseteq Accepted(m)
    BY <1>0 DEF InOrder, Accepted
  <2>3. \A x \in 1 .. made[m] : x < n /\ x \in 1 .. n
    BY <2>1
  <2>4. n \in 1 .. n /\ n \in Nat /\ n > 0 /\ n \notin 1 .. made[m]
    BY <2>1
  <2>5. CASE queue'[m] = Append(queue[m], n) /\ mpc'[m] = "count"
    <3>1. Range(queue'[m]) = Range(queue[m]) \cup {n} /\ PP!Increasing(queue'[m])
      BY SameEvents, <2>1, <2>2, <2>3, <2>4, <2>5, PP!AppendRange, PP!AppendIncreasing DEF OrderOf
    <3>2. Accepted(m)' = Accepted(m) \cup {n}
      BY <1>2, <3>1 DEF Accepted
    <3>3. Accepted(m)' \subseteq 1 .. made'[m] /\ dropped'[m] \subseteq 1 .. made'[m]
      BY <1>1, <1>2, <2>2, <2>3, <2>4, <3>2 DEF OrderOf
    <3>4. Accepted(m)' \cap dropped'[m] = {}
      BY <1>1, <2>2, <2>4, <3>2 DEF OrderOf
    <3>5. \A b \in Batch(m)', k \in Range(queue'[m]) : b < k
      BY <1>2, <2>2, <2>3, <3>1 DEF OrderOf
    <3>6. \A c \in Managers : \A d \in Range(delivered'[c][m]), k \in Accepted(m)' : d < k
      BY <1>1, <2>1, <2>2, <2>3, <3>2 DEF OrderOf
    <3> QED
      BY <1>1, <2>2, <2>5, <3>1, <3>3, <3>4, <3>5, <3>6 DEF OrderOf
  <2>6. CASE queue'[m] = queue[m]
    <3>1. Accepted(m)' = Accepted(m)
      BY <1>2, <2>6 DEF Accepted
    <3> QED
      BY <1>1, <1>2, <2>2, <2>3, <2>4, <2>6, <3>1 DEF OrderOf
  <2> QED
    BY <1>2, <2>5, <2>6
<1> QED
  BY <1>0, <1>1, <1>3, <1>4 DEF InOrder

(* Moving an event from the queue to the batch keeps the order. *)
LEMMA DrainOrder == ASSUME IInv, Drain PROVE InOrder'
<1> DEFINE h == Head(queue[cur])
<1> USE DEF pipeVars, setupVars
<1>0. InOrder /\ Shape /\ cur \in Managers
  BY DEF IInv, Shape
<1>1. /\ lpc = "drain" /\ queue[cur] # << >> /\ batch' = Append(batch, h)
      /\ queue' = [queue EXCEPT ![cur] = Tail(@)]
      /\ UNCHANGED <<mpc, made, dropped, lpc, cur, delivered>>
  BY DEF Drain
<1>2. /\ queue'[cur] = Tail(queue[cur])
      /\ \A p \in Managers \ {cur} : queue'[p] = queue[p] /\ Batch(p)' = Batch(p)
  BY <1>0, <1>1 DEF Shape, Batch
<1>3. /\ queue[cur] \in Seq(Nat) /\ batch \in Seq(Nat) /\ Range(queue[cur]) \subseteq Nat
  BY <1>0, NumberFacts
<1>4. /\ h \in Range(queue[cur]) /\ Range(queue'[cur]) = Range(queue[cur]) \ {h}
      /\ \A x \in Range(queue'[cur]) : h < x
      /\ PP!Increasing(queue'[cur])
  BY SameEvents, <1>0, <1>1, <1>2, <1>3, PP!TailIncreasing DEF InOrder, OrderOf
<1>5. Range(batch') = Range(batch) \cup {h} /\ PP!Increasing(batch')
  BY SameEvents, <1>0, <1>1, <1>3, <1>4, PP!AppendRange, PP!AppendIncreasing DEF InOrder, OrderOf, Batch
<1>6. /\ Batch(cur)' = Batch(cur) \cup {h}
      /\ Accepted(cur)' = Accepted(cur)
  BY <1>1, <1>4, <1>5 DEF Batch, Accepted
<1>7. OrderOf(cur)'
  BY <1>0, <1>1, <1>4, <1>6 DEF InOrder, OrderOf
<1>8. ASSUME NEW p \in Managers, p # cur PROVE OrderOf(p)'
  BY <1>0, <1>1, <1>2, <1>8, OrderUnchanged DEF InOrder
<1> QED
  BY <1>0, <1>1, <1>5, <1>7, <1>8 DEF InOrder

(* Delivering the first event of the batch keeps the order. *)
LEMMA RouteOrder == ASSUME IInv, Route PROVE InOrder'
<1> DEFINE h == Head(batch)
<1> USE DEF pipeVars, threadVars, setupVars
<1>0. InOrder /\ Shape /\ cur \in Managers
  BY DEF IInv, Shape
<1>1. /\ lpc = "route" /\ batch # << >> /\ batch' = Tail(batch)
      /\ UNCHANGED <<queue, mpc, made, dropped, lpc, cur>>
      /\ \A c, p \in Managers : \/ delivered'[c][p] = delivered[c][p]
                                \/ p = cur /\ delivered'[c][p] = Append(delivered[c][p], h)
  BY <1>0 DEF Route, Shape
<1>2. /\ batch \in Seq(Nat) /\ Range(batch) \subseteq Nat
      /\ \A c \in Managers : delivered[c][cur] \in Seq(Nat)
  BY <1>0, NumberFacts
<1>3. /\ h \in Range(batch) /\ Range(batch') = Range(batch) \ {h}
      /\ \A x \in Range(batch') : h < x
      /\ PP!Increasing(batch')
  BY SameEvents, <1>0, <1>1, <1>2, PP!TailIncreasing DEF InOrder
<1>4. /\ Batch(cur) = Range(batch) /\ Batch(cur)' = Range(batch')
      /\ Accepted(cur)' \subseteq Accepted(cur) /\ h \in Accepted(cur)
      /\ \A x \in Accepted(cur)' : h < x
  BY <1>0, <1>1, <1>3 DEF Batch, Accepted, InOrder, OrderOf
<1>5. ASSUME NEW c \in Managers
      PROVE  /\ PP!Increasing(delivered'[c][cur])
             /\ \A d \in Range(delivered'[c][cur]), n \in Accepted(cur)' : d < n
  <2>1. CASE delivered'[c][cur] = delivered[c][cur]
    BY <1>0, <1>4, <2>1 DEF InOrder, OrderOf
  <2>2. CASE delivered'[c][cur] = Append(delivered[c][cur], h)
    <3>1. \A d \in Range(delivered[c][cur]) : d < h
      BY <1>0, <1>4 DEF InOrder, OrderOf
    <3>2. h \in Nat
      BY <1>2, <1>3
    <3>3. /\ Range(delivered'[c][cur]) = Range(delivered[c][cur]) \cup {h}
          /\ PP!Increasing(delivered'[c][cur])
      BY SameEvents, <1>0, <1>2, <2>2, <3>1, <3>2, PP!AppendRange, PP!AppendIncreasing DEF InOrder, OrderOf
    <3> QED
      BY <1>0, <1>4, <3>3 DEF InOrder, OrderOf
  <2> QED
    BY <1>0, <1>1, <2>1, <2>2
<1>6. OrderOf(cur)'
  BY <1>0, <1>1, <1>3, <1>4, <1>5 DEF InOrder, OrderOf
<1>7. ASSUME NEW p \in Managers, p # cur PROVE OrderOf(p)'
  <2>1. Batch(p)' = Batch(p)
    BY <1>1, <1>7 DEF Batch
  <2> QED
    BY <1>0, <1>1, <1>7, <2>1, OrderUnchanged DEF InOrder
<1> QED
  BY <1>0, <1>1, <1>3, <1>6, <1>7 DEF InOrder
(* Every step keeps the order of the events. *)
LEMMA InOrderStep == ASSUME IInv, [Next]_vars PROVE InOrder'
<1> USE DEF pipeVars, threadVars, setupVars, routeVars
<1>0. InOrder /\ Shape
  BY DEF IInv
<1>1. ASSUME NEW m \in Managers, CountDrop(m) PROVE InOrder'
  <2>1. /\ mpc[m] = "drop" /\ UNCHANGED <<queue, made, batch, cur, delivered, lpc>>
        /\ dropped' = [dropped EXCEPT ![m] = @ \cup {made[m]}]
        /\ mpc' = [mpc EXCEPT ![m] = "top"]
    BY <1>1 DEF CountDrop
  <2>2. \A p \in Managers : Batch(p)' = Batch(p) /\ Accepted(p)' = Accepted(p)
    BY <2>1 DEF Batch, Accepted
  <2>3. OrderOf(m)'
    <3>1. dropped'[m] = dropped[m] \cup {made[m]} /\ mpc'[m] # "drop" /\ made[m] \in Nat
      BY <1>0, <2>1 DEF Shape
    <3>2. made[m] \in 1 .. made[m] /\ made[m] \notin Accepted(m)
      BY <1>0, <2>1, <3>1 DEF InOrder, OrderOf
    <3> QED
      BY <1>0, <2>1, <2>2, <3>1, <3>2 DEF InOrder, OrderOf
  <2>4. ASSUME NEW p \in Managers, p # m PROVE OrderOf(p)'
    BY <1>0, <2>1, <2>2, <2>4, OrderUnchanged DEF InOrder, Shape
  <2> QED
    BY <1>0, <2>1, <2>3, <2>4 DEF InOrder
<1>2. ASSUME NEW m \in Managers, ThreadExit(m) \/ CountTx(m) \/ Fire(m) PROVE InOrder'
  <2>1. /\ UNCHANGED <<queue, made, dropped, batch, cur, delivered, lpc>>
        /\ \E v \in {"exited", "fire", "top"} : mpc' = [mpc EXCEPT ![m] = v]
    BY <1>2 DEF ThreadExit, CountTx, Fire
  <2>2. \A p \in Managers : /\ mpc'[p] = "drop" => mpc[p] = "drop"
                            /\ Batch(p)' = Batch(p)
    BY <1>0, <2>1 DEF Shape, Batch
  <2> QED
    BY <1>0, <2>1, <2>2, OrderUnchanged DEF InOrder
<1>3. ASSUME Run PROVE InOrder'
  <2>1. /\ UNCHANGED <<queue, made, dropped, batch, cur, delivered>>
        /\ lpc \notin {"drain", "route"} /\ lpc' \notin {"drain", "route"}
        /\ mpc' = [mpc EXCEPT ![Order[next]] = "top"]
    BY <1>3 DEF Run, Advance
  <2>2. \A p \in Managers : /\ mpc'[p] = "drop" => mpc[p] = "drop"
                            /\ Batch(p)' = Batch(p)
    BY <1>0, <2>1 DEF Shape, Batch
  <2> QED
    BY <1>0, <2>1, <2>2, OrderUnchanged DEF InOrder
<1>4. ASSUME Serve PROVE InOrder'
  <2>1. /\ UNCHANGED <<queue, made, dropped, mpc, batch, delivered>> /\ lpc = "serve" /\ lpc' = "consume"
    BY <1>4 DEF Serve
  <2>2. \A p \in Managers : Batch(p) = {} /\ Batch(p)' = {}
    BY SameEvents, <1>0, <2>1, PP!EmptyIncreasing DEF Batch, InOrder
  <2> QED
    BY <1>0, <2>1, <2>2, OrderUnchanged DEF InOrder
<1>5. ASSUME \/ AddProducer \/ AddConsumer \/ Stop \/ Join \/ CheckRunning \/ Wait \/ WaitInVain
             \/ WaitFails \/ SignalHandler \/ Ended \/ AllServed \/ ConsumeEvent \/ Drained \/ Routed
             \/ UNCHANGED vars
      PROVE  InOrder'
  <2>1. UNCHANGED <<queue, made, dropped, mpc, batch, cur, delivered>>
    BY <1>5 DEF AddProducer, AddConsumer, Stop, Join, CheckRunning, Wait, WaitInVain,
                WaitFails, SignalHandler, Ended, AllServed, ConsumeEvent, Drained, Routed, vars
  <2>2. lpc' \notin {"drain", "route"} => lpc \notin {"drain", "route"} \/ batch = << >>
    BY <1>5 DEF AddProducer, AddConsumer, Stop, Join, CheckRunning, Wait, WaitInVain, Advance,
                WaitFails, SignalHandler, Ended, AllServed, ConsumeEvent, Drained, Routed, vars
  <2>3. \A p \in Managers : Batch(p)' = Batch(p)
    BY <2>1 DEF Batch
  <2> QED
    BY <1>0, <2>1, <2>2, <2>3, OrderUnchanged DEF InOrder
<1> QED
  BY <1>1, <1>2, <1>3, <1>4, <1>5, RunImplOrder, DrainOrder, RouteOrder
     DEF Next, ManagerThread, MainThread

(***************************************************************************)
(* The events of p that are neither queued nor dropped nor in the batch.   *)
(***************************************************************************)
Left(p) == (1 .. made[p]) \ Pending(p)

(* While the same events have left and none is delivered, routing is right. *)
LEMMA RoutingUnchanged == ASSUME Routing, UNCHANGED delivered,
                                 \A p \in Managers : Left(p)' = Left(p)
                          PROVE  Routing'
<1>1. \A c, p \in Managers : Wanted(c, p)' = Wanted(c, p)
  BY DEF Wanted, Left
<1> QED
  BY <1>1 DEF Routing

(* Each event of a batch goes to the consumers of its type and leaves.     *)
LEMMA RouteRouting == ASSUME IInv, Route PROVE Routing'
<1> DEFINE h == Head(batch)
           t == EventType(cur, h)
<1> USE DEF pipeVars, threadVars, setupVars
<1>0. Routing /\ InOrder /\ Shape /\ cur \in Managers
  BY DEF IInv, Shape
<1>1. /\ lpc = "route" /\ batch # << >> /\ batch' = Tail(batch)
      /\ UNCHANGED <<queue, mpc, made, dropped, cur>>
      /\ \A c, p \in Managers : delivered'[c][p] = IF p = cur /\ c \in consumers[t] \ {cur}
                                                   THEN Append(delivered[c][p], h)
                                                   ELSE delivered[c][p]
  BY <1>0 DEF Route, Shape
<1>2. /\ batch \in Seq(Nat) /\ Range(batch) \subseteq Nat /\ made[cur] \in Nat
      /\ \A c \in Managers : delivered[c][cur] \in Seq(Nat)
  BY <1>0, NumberFacts
<1>3. h \in Range(batch) /\ Range(batch') = Range(batch) \ {h}
  BY SameEvents, <1>0, <1>1, <1>2, PP!TailIncreasing DEF InOrder
<1>4. h \in 1 .. made[cur] /\ h \notin Range(queue[cur]) /\ h \notin dropped[cur]
      /\ (mpc[cur] = "drop" => h # made[cur])
  <2>1. h \in Batch(cur) /\ h \in Accepted(cur)
    BY <1>3 DEF Batch, Accepted
  <2>2. h \notin Range(queue[cur])
    <3>1. h \in Nat /\ ~(h < h)
      BY <1>2, <1>3
    <3>2. \A n \in Range(queue[cur]) : h < n
      BY <1>0, <2>1 DEF InOrder, OrderOf
    <3> QED
      BY <3>1, <3>2
  <2> QED
    BY <1>0, <2>1, <2>2 DEF InOrder, OrderOf
<1>5. Left(cur)' = Left(cur) \cup {h} /\ \A p \in Managers \ {cur} : Left(p)' = Left(p)
  BY <1>1, <1>3, <1>4 DEF Left, Pending
<1>6. t \in Types
  <2>1. h \in 1 .. MaxEvents[cur]
    <3>1. made[cur] <= MaxEvents[cur] /\ MaxEvents[cur] \in Nat
      BY Bounds, <1>0 DEF Shape
    <3> QED
      BY <1>2, <1>4, <3>1
  <2> QED
    BY <1>0, <2>1, RouterAssumption
<1>7. \A c \in Managers : c \in consumers[t] <=> t \in WillConsume[c]
  BY <1>1, <1>6 DEF IInv, Setup
<1>8. ASSUME NEW c \in Managers PROVE Range(delivered'[c][cur]) = Wanted(c, cur)'
  <2>0. \A n : n \in Wanted(c, cur) <=> n \in Left(cur) /\ c # cur /\ EventType(cur, n) \in WillConsume[c]
    BY DEF Wanted, Left
  <2>1. \A n : n \in Wanted(c, cur)' <=> n \in Left(cur)' /\ c # cur /\ EventType(cur, n) \in WillConsume[c]
    BY <1>1 DEF Wanted, Left
  <2>2. CASE c \in consumers[t] \ {cur}
    <3>1. Range(delivered'[c][cur]) = Range(delivered[c][cur]) \cup {h}
      <4>1. h \in Nat
        BY <1>2, <1>3
      <4> QED
        BY SameEvents, <1>0, <1>1, <1>2, <2>2, <4>1, PP!AppendRange
    <3> QED
      BY <1>0, <1>5, <1>7, <2>0, <2>1, <2>2, <3>1 DEF Routing
  <2>3. CASE c \notin consumers[t] \ {cur}
    <3>1. delivered'[c][cur] = delivered[c][cur]
      BY <1>0, <1>1, <2>3
    <3> QED
      BY <1>0, <1>5, <1>7, <2>0, <2>1, <2>3, <3>1 DEF Routing
  <2> QED
    BY <2>2, <2>3
<1>9. ASSUME NEW c \in Managers, NEW p \in Managers, p # cur
      PROVE  Range(delivered'[c][p]) = Wanted(c, p)'
  <2>1. Wanted(c, p)' = Wanted(c, p)
    BY <1>5, <1>9 DEF Wanted, Left
  <2> QED
    BY <1>0, <1>1, <1>9, <2>1 DEF Routing
<1> QED
  BY <1>1, <1>8, <1>9 DEF Routing

(* Every step keeps the routing right. *)
LEMMA RoutingStep == ASSUME IInv, [Next]_vars PROVE Routing'
<1> USE DEF pipeVars, threadVars, setupVars, routeVars
<1>0. Routing /\ InOrder /\ Shape
  BY DEF IInv
<1>1. ASSUME NEW m \in Managers, RunImpl(m) PROVE Routing'
  <2>0. made[m] \in Nat /\ queue[m] \in Seq(Nat) /\ made[m] + 1 \in Nat
    BY NumberFacts
  <2>1. /\ UNCHANGED <<batch, cur, dropped, delivered>> /\ mpc[m] = "top"
        /\ made' = [made EXCEPT ![m] = made[m] + 1]
        /\ \/ queue' = [queue EXCEPT ![m] = Append(@, made[m] + 1)] /\ mpc' = [mpc EXCEPT ![m] = "count"]
           \/ queue' = queue /\ mpc' = [mpc EXCEPT ![m] = "drop"]
    BY <1>1 DEF RunImpl
  <2>2. /\ made'[m] = made[m] + 1
        /\ \/ queue'[m] = Append(queue[m], made[m] + 1) /\ mpc'[m] = "count"
           \/ queue'[m] = queue[m] /\ mpc'[m] = "drop"
        /\ \A p \in Managers \ {m} : made'[p] = made[p] /\ queue'[p] = queue[p] /\ mpc'[p] = mpc[p]
    BY <1>0, <2>1 DEF Shape
  <2>3. Pending(m)' = Pending(m) \cup {made[m] + 1}
    <3>1. CASE queue'[m] = Append(queue[m], made[m] + 1) /\ mpc'[m] = "count"
      <4>1. Range(queue'[m]) = Range(queue[m]) \cup {made[m] + 1}
        BY SameEvents, <2>0, <3>1, PP!AppendRange
      <4> QED
        BY <2>1, <3>1, <4>1 DEF Pending
    <3>2. CASE queue'[m] = queue[m] /\ mpc'[m] = "drop"
      BY <2>1, <2>2, <3>2 DEF Pending
    <3> QED
      BY <2>2, <3>1, <3>2
  <2>4. \A n : n \in 1 .. (made[m] + 1) <=> n \in 1 .. made[m] \/ n = made[m] + 1
    BY <2>0
  <2>5. Left(m)' = Left(m)
    <3>1. made[m] + 1 \notin 1 .. made[m]
      BY <2>0
    <3> QED
      BY <2>2, <2>3, <2>4, <3>1 DEF Left
  <2>6. \A p \in Managers \ {m} : Left(p)' = Left(p)
    BY <2>1, <2>2 DEF Left, Pending
  <2> QED
    BY <1>0, <2>1, <2>5, <2>6, RoutingUnchanged
<1>2. ASSUME NEW m \in Managers, CountDrop(m) PROVE Routing'
  <2>1. /\ UNCHANGED <<queue, made, batch, cur, delivered>> /\ mpc[m] = "drop"
        /\ dropped' = [dropped EXCEPT ![m] = @ \cup {made[m]}]
        /\ mpc' = [mpc EXCEPT ![m] = "top"]
    BY <1>2 DEF CountDrop
  <2>2. /\ dropped'[m] = dropped[m] \cup {made[m]} /\ mpc'[m] = "top"
        /\ \A p \in Managers \ {m} : dropped'[p] = dropped[p] /\ mpc'[p] = mpc[p]
    BY <1>0, <2>1 DEF Shape
  <2>3. \A p \in Managers : Left(p)' = Left(p)
    BY <2>1, <2>2 DEF Left, Pending
  <2> QED
    BY <1>0, <2>1, <2>3, RoutingUnchanged
<1>3. ASSUME NEW m \in Managers, ThreadExit(m) \/ CountTx(m) \/ Fire(m) PROVE Routing'
  <2>1. /\ UNCHANGED <<queue, made, dropped, batch, cur, delivered>> /\ mpc[m] # "drop"
        /\ \E v \in {"exited", "fire", "top"} : mpc' = [mpc EXCEPT ![m] = v]
    BY <1>3 DEF ThreadExit, CountTx, Fire
  <2>2. \A p \in Managers : mpc'[p] = "drop" <=> mpc[p] = "drop"
    BY <1>0, <2>1 DEF Shape
  <2>3. \A p \in Managers : Left(p)' = Left(p)
    BY <2>1, <2>2 DEF Left, Pending
  <2> QED
    BY <1>0, <2>1, <2>3, RoutingUnchanged
<1>4. ASSUME Run PROVE Routing'
  <2>1. /\ UNCHANGED <<queue, made, dropped, batch, cur, delivered>>
        /\ mpc' = [mpc EXCEPT ![Order[next]] = "top"]
    BY <1>4 DEF Run
  <2>2. mpc[Order[next]] = "new"
    BY <1>4, NotYetRegistered, OrderManagers DEF IInv, Setup, Shape, Run
  <2>3. \A p \in Managers : mpc'[p] = "drop" <=> mpc[p] = "drop"
    BY <1>0, <2>1, <2>2 DEF Shape
  <2>4. \A p \in Managers : Left(p)' = Left(p)
    BY <2>1, <2>3 DEF Left, Pending
  <2> QED
    BY <1>0, <2>1, <2>4, RoutingUnchanged
<1>5. ASSUME Serve PROVE Routing'
  <2>1. UNCHANGED <<queue, made, dropped, mpc, batch, delivered>> /\ lpc = "serve"
    BY <1>5 DEF Serve
  <2>2. Range(batch) = {}
    BY SameEvents, <1>0, <2>1, PP!EmptyIncreasing DEF InOrder
  <2>3. \A p \in Managers : Left(p)' = Left(p)
    BY <2>1, <2>2 DEF Left, Pending
  <2> QED
    BY <1>0, <2>1, <2>3, RoutingUnchanged
<1>6. ASSUME Drain PROVE Routing'
  <2>0. cur \in Managers /\ queue[cur] \in Seq(Nat) /\ batch \in Seq(Nat) /\ PP!Increasing(queue[cur])
    BY <1>0 DEF Shape, InOrder, OrderOf
  <2>1. /\ UNCHANGED <<mpc, made, dropped, cur, delivered>> /\ queue[cur] # << >>
        /\ batch' = Append(batch, Head(queue[cur]))
        /\ queue' = [queue EXCEPT ![cur] = Tail(@)]
    BY <1>6 DEF Drain
  <2>2. /\ queue'[cur] = Tail(queue[cur])
        /\ \A p \in Managers \ {cur} : queue'[p] = queue[p]
    BY <1>0, <2>1 DEF Shape
  <2>3. /\ Head(queue[cur]) \in Range(queue[cur]) /\ Head(queue[cur]) \in Nat
        /\ Range(queue'[cur]) = Range(queue[cur]) \ {Head(queue[cur])}
    BY SameEvents, <2>0, <2>1, <2>2, PP!TailIncreasing, HeadTailProperties
  <2>4. Range(batch') = Range(batch) \cup {Head(queue[cur])}
    BY SameEvents, <2>0, <2>1, <2>3, PP!AppendRange
  <2>5. \A p \in Managers : Left(p)' = Left(p)
    BY <2>1, <2>2, <2>3, <2>4 DEF Left, Pending
  <2> QED
    BY <1>0, <2>1, <2>5, RoutingUnchanged
<1>7. ASSUME \/ AddProducer \/ AddConsumer \/ Stop \/ Join \/ CheckRunning \/ Wait \/ WaitInVain
             \/ WaitFails \/ SignalHandler \/ Ended \/ AllServed \/ ConsumeEvent \/ Drained \/ Routed
             \/ UNCHANGED vars
      PROVE  Routing'
  <2>1. UNCHANGED <<queue, made, dropped, mpc, batch, cur, delivered>>
    BY <1>7 DEF AddProducer, AddConsumer, Stop, Join, CheckRunning, Wait, WaitInVain,
                WaitFails, SignalHandler, Ended, AllServed, ConsumeEvent, Drained, Routed, vars
  <2>2. \A p \in Managers : Left(p)' = Left(p)
    BY <2>1 DEF Left, Pending
  <2> QED
    BY <1>0, <2>1, <2>2, RoutingUnchanged
<1> QED
  BY <1>1, <1>2, <1>3, <1>4, <1>5, <1>6, <1>7, RouteRouting DEF Next, ManagerThread, MainThread
-----------------------------------------------------------------------------
(* Every step of main() and of the managers' threads preserves the         *)
(* inductive invariant.                                                    *)
LEMMA NextIInv == IInv /\ [Next]_vars => IInv'
  BY PipeIInv, ShapeStep, CallersStep, WakeupStep, SetupStep, CountersStep, InOrderStep, RoutingStep
     DEF IInv

(* The inductive invariant holds in every reachable state. *)
THEOREM InductiveInvariant == Spec => []IInv
  BY InitIInv, NextIInv, PTL DEF Spec

(***************************************************************************)
(* No manager's wake-up is lost: an event in its txQueue is seen by the    *)
(* main loop, whatever the threads are doing.                              *)
(***************************************************************************)
THEOREM WakeupNeverLost == Spec => []NoLostWakeup
<1>1. IInv => NoLostWakeup
  BY DEF IInv
<1> QED
  BY <1>1, InductiveInvariant, PTL

(* The inductive invariant implies the type invariant of the router. *)
LEMMA TypesRight == IInv => TypeOK
<1> SUFFICES ASSUME IInv PROVE TypeOK
  OBVIOUS
<1>0. Shape /\ InOrder
  BY DEF IInv
<1>1. P!TypeOK
  BY DEF IInv, PP!IInv, PP!TypeOK, P!TypeOK
<1>2. ASSUME NEW p \in Managers
      PROVE  /\ made[p] \in 0 .. MaxEvents[p] /\ dropped[p] \subseteq 1 .. MaxEvents[p]
             /\ queue[p] \in Seq(1 .. MaxEvents[p]) /\ (p = cur => batch \in Seq(1 .. MaxEvents[p]))
             /\ \A c \in Managers : delivered[c][p] \in Seq(1 .. MaxEvents[p])
  <2>1. made[p] \in Nat /\ made[p] <= MaxEvents[p] /\ MaxEvents[p] \in Nat
    BY Bounds, <1>0 DEF Shape
  <2>2. 1 .. made[p] \subseteq 1 .. MaxEvents[p]
    BY <2>1
  <2>3. /\ Range(queue[p]) \subseteq 1 .. made[p] /\ dropped[p] \subseteq 1 .. made[p]
        /\ p = cur => Range(batch) \subseteq 1 .. made[p]
        /\ \A c \in Managers : Range(delivered[c][p]) \subseteq 1 .. made[p]
    BY <1>0, NumberFacts DEF InOrder, OrderOf, Accepted, Batch
  <2>4. queue[p] \in Seq(1 .. MaxEvents[p]) /\ (p = cur => batch \in Seq(1 .. MaxEvents[p]))
    BY SameEvents, <2>2, <2>3, NumberFacts, PP!SeqOverRange
  <2>5. \A c \in Managers : delivered[c][p] \in Seq(1 .. MaxEvents[p])
    BY SameEvents, <2>2, <2>3, NumberFacts, PP!SeqOverRange
  <2> QED
    BY <2>1, <2>2, <2>3, <2>4, <2>5
<1> QED
  BY <1>0, <1>1, <1>2 DEF Shape, TypeOK

(***************************************************************************)
(* Every event of a manager goes to the other managers that consume its    *)
(* type, once and in order, and to no one else; what epoll_wait reported   *)
(* is still readable when it is served; no unregistered counter is used.   *)
(***************************************************************************)
THEOREM RoutingCorrect == Spec => []RoutedRight
<1>1. ASSUME IInv PROVE ReadyStaysReadable
  <2>1. \A m \in ready : m \in Managers /\ bytes[m] > 0
    BY <1>1 DEF IInv, Callers, Shape
  <2>2. \A m \in Managers : PP!Quiet(m) \/ PP!Signalled(m)
    BY <1>1, PipeFacts DEF IInv
  <2>3. ASSUME NEW m \in ready PROVE fired[m]
    <3>1. CASE PP!Quiet(m)
      BY <2>1, <3>1 DEF PP!Quiet
    <3>2. CASE PP!Signalled(m)
      BY <3>2 DEF PP!Signalled
    <3> QED
      BY <2>1, <2>2, <3>1, <3>2
  <2> QED
    BY <2>1, <2>3 DEF ReadyStaysReadable, P!Readable
<1>2. IInv => RoutedByType
  BY DEF IInv, Routing, InOrder, OrderOf, PP!Increasing, RoutedByType
<1>3. IInv => RoutedRight
  BY <1>1, <1>2, TypesRight DEF RoutedRight, IInv
<1> QED
  BY <1>3, InductiveInvariant, PTL
=============================================================================
