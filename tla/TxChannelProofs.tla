-------------------------- MODULE TxChannelProofs --------------------------
(***************************************************************************)
(* The safety of TxChannel, proved for every capacity of the queue and of  *)
(* the pipe, every number of events and every allowed staleness of the     *)
(* index loads.                                                            *)
(***************************************************************************)
EXTENDS TxChannel, Integers, Sequences, SequenceTheorems, TLAPS

QP == INSTANCE SPSCQueueProofs WITH Values <- 1 .. MaxEvents, None <- 0
PP == INSTANCE PipedEventProofs WITH Pipes <- {M}

(* A sequence holds the same elements here as in the lemmas about          *)
(* sequences of events that PipedEventProofs states.                       *)
LEMMA SameEvents == /\ PP!PipeAssumption
                    /\ \A s : PP!Range(s) = Range(s)
  BY ChannelAssumption DEF PP!PipeAssumption, PP!Range, Range

(***************************************************************************)
(* The inductive invariant, in parts.  First the types, as in TypeOK, but  *)
(* without the bound on the events in the lists.                           *)
(***************************************************************************)
Shape == /\ mpc \in {"new", "top", "emplace", "count", "fire", "drop", "exited"}
         /\ lpc \in {"start", "loop", "wait", "consume", "drain", "front", "pop", "dispatch",
                     "stop", "join", "destroy", "ended"}
         /\ mRunning \in BOOLEAN /\ running \in BOOLEAN
         /\ made \in Nat /\ made <= MaxEvents /\ dropped \in SUBSET Nat
         /\ batch \in Seq(Nat) /\ received \in Seq(Nat)
         /\ txCount \in Nat /\ rxCount \in Nat /\ dropCount \in Nat

(***************************************************************************)
(* Where the threads are, in their own code, in the queue's and in the     *)
(* pipe's.                                                                 *)
(***************************************************************************)
Writer == /\ wpc # "idle" <=> mpc = "emplace"
          /\ mpc = "emplace" => wop = "try_emplace" /\ wval = made
          /\ wpc = "publish" => slots[writeIdx] = wval

Reader == /\ lpc = "pop" => rpc \in {"holding", "store"}
          /\ lpc \notin {"pop", "destroy"} => rpc = "idle"

InPipe == /\ fpc[M] # "idle" => mpc = "fire"
          /\ cpc[M] # "idle" => lpc = "consume"

Stages == /\ lpc = "start" <=> mpc = "new"
          /\ lpc \in {"destroy", "ended"} => mpc = "exited"
          /\ phase # "alive" => lpc \in {"destroy", "ended"}
          /\ batch # << >> => lpc \in {"drain", "front", "pop", "dispatch"}

(***************************************************************************)
(* The counter's barrier: a publication that has been counted is visible.  *)
(* Hence front() finds the element that empty() saw, and the loop that     *)
(* empties the queue only ends with events in it if a Fire() is to come.   *)
(***************************************************************************)
Visible == /\ mpc # "count" => visW = writeIdx
           /\ lpc = "front" => visW # readIdx
           /\ /\ lpc \in {"start", "dispatch", "loop", "wait"}
              /\ mpc \notin {"count", "fire"}
              /\ writeIdx # readIdx
              => bytes[M] > 0

(***************************************************************************)
(* Where the events are.                                                   *)
(***************************************************************************)
Below(X, Y) == \A x \in X, y \in Y : x < y

InHand(n) == mpc \in {"emplace", "drop"} /\ n = made

Passed(n) == n \in Range(received) \/ n \in Range(batch) \/ n \in Range(QP!Elements)

Once == /\ PP!Increasing(received) /\ PP!Increasing(batch) /\ PP!Increasing(QP!Elements)
        /\ Below(Range(received), Range(batch)) /\ Below(Range(received), Range(QP!Elements))
        /\ Below(Range(batch), Range(QP!Elements))
        /\ dropped \subseteq 1 .. made
        /\ mpc \in {"emplace", "drop"} => made > 0 /\ made \notin dropped
        /\ \A n : Passed(n) => n \in 1 .. made /\ n \notin dropped /\ ~InHand(n)
        /\ phase = "alive" => \A n \in 1 .. made : Passed(n) \/ n \in dropped \/ InHand(n)

(***************************************************************************)
(* The counters.  The destructor removes elements that nobody receives.    *)
(***************************************************************************)
Size(s) == Len(s)

Uncounted == IF mpc = "count" THEN 1 ELSE 0
Undecided == IF mpc \in {"emplace", "drop", "count"} THEN 1 ELSE 0

Counts == /\ rxCount + Size(batch) + Size(QP!Elements) <= txCount + Uncounted
          /\ txCount + dropCount + Undecided = made

IInv == /\ QP!IInv /\ PP!IInv
        /\ Shape /\ Writer /\ Reader /\ InPipe /\ Stages /\ Visible /\ Once /\ Counts
-----------------------------------------------------------------------------
(* The assumptions of the queue and of the pipe hold here. *)
LEMMA QueueAssumed == QP!QueueAssumption
<1>1. 0 \notin 1 .. MaxEvents
  BY ChannelAssumption
<1> QED
  BY <1>1, ChannelAssumption DEF QP!QueueAssumption

(* The same of the pipe. *)
LEMMA PipeAssumed == PP!PipeAssumption
  BY ChannelAssumption DEF PP!PipeAssumption

(* The actions of the queue are those its invariant is proved for. *)
LEMMA SameQueue == /\ \A v : Q!Enter("try_emplace", v) => QP!Enter("try_emplace", v)
                   /\ Q!LoadReadIdx => QP!LoadReadIdx
                   /\ Q!Construct => QP!Construct
                   /\ Q!Publish => QP!Publish
                   /\ \A w : Q!Empty(w) => QP!Empty(w)
                   /\ Q!FrontCached => QP!FrontCached
                   /\ Q!FrontLoad => QP!FrontLoad
                   /\ Q!PopDestroy => QP!PopDestroy
                   /\ Q!PopStore => QP!PopStore
                   /\ Q!WriteIdxSettles => QP!WriteIdxSettles
                   /\ Q!ReadIdxSettles => QP!ReadIdxSettles
                   /\ Q!Destroy => QP!Destroy
                   /\ Q!Deallocate => QP!Deallocate
                   /\ Q!Idx = QP!Idx /\ Q!Elements = QP!Elements
<1> USE DEF Q!capacity_, QP!capacity_, Q!Idx, QP!Idx, Q!NextIdx, QP!NextIdx, Q!Dist, QP!Dist,
            Q!Between, QP!Between, Q!writerVars, QP!writerVars, Q!readerVars, QP!readerVars
<1>1. /\ \A v : Q!Enter("try_emplace", v) => QP!Enter("try_emplace", v)
      /\ Q!LoadReadIdx => QP!LoadReadIdx
  BY DEF Q!Enter, QP!Enter, Q!LoadReadIdx, QP!LoadReadIdx
<1>2. (Q!Construct => QP!Construct) /\ (Q!Publish => QP!Publish)
  BY DEF Q!Construct, QP!Construct, Q!Publish, QP!Publish
<1>3. (\A w : Q!Empty(w) => QP!Empty(w)) /\ (Q!FrontCached => QP!FrontCached) /\ (Q!FrontLoad => QP!FrontLoad)
  BY DEF Q!Empty, QP!Empty, Q!FrontCached, QP!FrontCached, Q!FrontLoad, QP!FrontLoad
<1>4. (Q!PopDestroy => QP!PopDestroy) /\ (Q!PopStore => QP!PopStore)
  BY DEF Q!PopDestroy, QP!PopDestroy, Q!PopStore, QP!PopStore
<1>5. (Q!WriteIdxSettles => QP!WriteIdxSettles) /\ (Q!ReadIdxSettles => QP!ReadIdxSettles)
  BY DEF Q!WriteIdxSettles, QP!WriteIdxSettles, Q!ReadIdxSettles, QP!ReadIdxSettles
<1>6. (Q!Destroy => QP!Destroy) /\ (Q!Deallocate => QP!Deallocate)
  BY DEF Q!Destroy, QP!Destroy, Q!Deallocate, QP!Deallocate
<1>7. Q!Idx = QP!Idx
  OBVIOUS
<1>8. Q!Elements = QP!Elements
  BY DEF Q!Elements, QP!Elements, Q!Vacated, QP!Vacated
<1> QED
  BY <1>1, <1>2, <1>3, <1>4, <1>5, <1>6, <1>7, <1>8
-----------------------------------------------------------------------------
(* Every step is one of SPSCQueue, or leaves the queue as it is. *)
LEMMA QueueStep == ASSUME Shape, [Next]_vars PROVE [QP!Next]_(QP!vars)
<1> USE DEF queueVars, QP!vars, QP!writerVars, QP!readerVars
<1>1. ASSUME RunImpl PROVE QP!Next
  <2>1. made + 1 \in 1 .. MaxEvents
    <3>1. made \in Nat /\ made < MaxEvents
      BY <1>1 DEF Shape, RunImpl
    <3> QED
      BY <3>1, ChannelAssumption
  <2>2. QP!Enter("try_emplace", made + 1)
    BY <1>1, SameQueue DEF RunImpl
  <2> QED
    BY <2>1, <2>2 DEF QP!Next, QP!Write
<1>2. ASSUME TryEmplace PROVE QP!Next
  BY <1>2, SameQueue DEF TryEmplace, QP!Next, QP!Write
<1>3. ASSUME CountTx PROVE QP!Next \/ UNCHANGED QP!vars
  BY <1>3 DEF CountTx, QP!Next, QP!WriteIdxSettles
<1>4. ASSUME Drain PROVE QP!Next
  BY <1>4, SameQueue DEF Drain, QP!Next, QP!Read
<1>5. ASSUME Front \/ Pop PROVE QP!Next
  BY <1>5, SameQueue DEF Front, Pop, QP!Next, QP!Read
<1>6. ASSUME Destroy PROVE QP!Next
  BY <1>6, SameQueue DEF Destroy, QP!Next, QP!Read
<1>7. ASSUME Settle PROVE QP!Next
  BY <1>7, SameQueue DEF Settle, QP!Next
<1>8. ASSUME ThreadExit \/ CountDrop \/ Fire \/ Run \/ SignalHandler \/ CheckRunning \/ Wait
      PROVE  UNCHANGED QP!vars
  BY <1>8 DEF ThreadExit, CountDrop, Fire, Run, SignalHandler, CheckRunning, Wait
<1>9. ASSUME ConsumeEvent \/ Dispatch \/ Dispatched \/ Stop \/ Join \/ Ended \/ UNCHANGED vars
      PROVE  UNCHANGED QP!vars
  BY <1>9 DEF ConsumeEvent, Dispatch, Dispatched, Stop, Join, Ended, vars
<1> QED
  BY <1>1, <1>2, <1>3, <1>4, <1>5, <1>6, <1>7, <1>8, <1>9 DEF Next, ManagerThread, MainThread

(* Every step is one of PipedEvent, or leaves the pipe as it is. *)
LEMMA PipeStep == ASSUME [Next]_vars PROVE [PP!Next]_(PP!vars)
<1> USE DEF pipeVars, PP!vars
<1>1. ASSUME Fire PROVE PP!Next
  BY <1>1 DEF Fire, PP!Next, P!FireCheck, P!FireStore, P!FireWrite, PP!FireCheck, PP!FireStore, PP!FireWrite
<1>2. ASSUME ConsumeEvent PROVE PP!Next
  BY <1>2 DEF ConsumeEvent, PP!Next, P!ConsumeCheck, P!ConsumeRead, P!ConsumeReset, P!Readable,
              PP!ConsumeCheck, PP!ConsumeRead, PP!ConsumeReset, PP!Readable
<1>3. ASSUME \/ ThreadExit \/ RunImpl \/ TryEmplace \/ CountTx \/ CountDrop \/ Run \/ SignalHandler
             \/ CheckRunning \/ Wait \/ Drain \/ Front
      PROVE  UNCHANGED PP!vars
  BY <1>3 DEF ThreadExit, RunImpl, TryEmplace, CountTx, CountDrop, Run, SignalHandler, CheckRunning,
              Wait, Drain, Front
<1>4. ASSUME Pop \/ Dispatch \/ Dispatched \/ Stop \/ Join \/ Destroy \/ Settle \/ Ended \/ UNCHANGED vars
      PROVE  UNCHANGED PP!vars
  BY <1>4 DEF Pop, Dispatch, Dispatched, Stop, Join, Destroy, Settle, Ended, vars
<1> QED
  BY <1>1, <1>2, <1>3, <1>4 DEF Next, ManagerThread, MainThread

(* The invariants of the queue and of the pipe are preserved. *)
LEMMA PartsStep == ASSUME IInv, [Next]_vars PROVE QP!IInv' /\ PP!IInv'
<1>1. QP!IInv'
  BY QueueStep, QueueAssumed, QP!NextIInv DEF IInv
<1>2. PP!IInv'
  BY PipeStep, PipeAssumed, PP!NextIInv DEF IInv
<1> QED
  BY <1>1, <1>2

(* What the two invariants say here. *)
LEMMA PartsFacts == ASSUME IInv
                    PROVE  /\ QP!Elements \in Seq(1 .. MaxEvents) /\ QP!Elements \in Seq(Nat)
                           /\ wpc \in {"idle", "load", "construct", "publish"}
                           /\ wop \in {"try_emplace", "emplace"}
                           /\ rpc \in {"idle", "holding", "store"}
                           /\ phase \in {"alive", "draining", "freed"}
                           /\ writeIdx \in QP!Idx /\ slots \in [QP!Idx -> (1 .. MaxEvents) \cup {0}]
                           /\ bytes[M] \in Nat /\ fpc[M] \in {"idle", "store", "write"}
                           /\ cpc[M] \in {"idle", "read", "reset"}
                           /\ PP!Quiet(M) \/ PP!Signalled(M)
                           /\ DOMAIN bytes = {M} /\ DOMAIN fpc = {M} /\ DOMAIN cpc = {M}
<1>1. QP!Elements \in Seq(1 .. MaxEvents)
  BY QueueAssumed, QP!ElementsSeq DEF IInv
<1>2. QP!Elements \in Seq(Nat)
  <2>1. 1 .. MaxEvents \subseteq Nat
    BY ChannelAssumption
  <2> QED
    BY <1>1, <2>1, SeqMonotonic
<1>3. /\ wpc \in {"idle", "load", "construct", "publish"} /\ wop \in {"try_emplace", "emplace"}
      /\ rpc \in {"idle", "holding", "store"} /\ phase \in {"alive", "draining", "freed"}
      /\ writeIdx \in QP!Idx /\ slots \in [QP!Idx -> (1 .. MaxEvents) \cup {0}]
  BY DEF IInv, QP!IInv, QP!TypeOK
<1>4. /\ bytes \in [{M} -> Nat] /\ fpc \in [{M} -> {"idle", "store", "write"}]
      /\ cpc \in [{M} -> {"idle", "read", "reset"}] /\ (PP!Quiet(M) \/ PP!Signalled(M))
  BY ChannelAssumption DEF IInv, PP!IInv, PP!TypeOK
<1> QED
  BY <1>1, <1>2, <1>3, <1>4

(***************************************************************************)
(* What a step can do to the events, the counters and the elements of the  *)
(* queue.                                                                  *)
(***************************************************************************)
Created == /\ mpc = "top" /\ made < MaxEvents /\ made' = made + 1 /\ mpc' = "emplace"
           /\ UNCHANGED <<QP!Elements, batch, received, dropped, counterVars, phase>>
Trying == /\ mpc = "emplace" /\ mpc' \in {"emplace", "drop"}
          /\ UNCHANGED <<QP!Elements, histVars, counterVars, phase>>
Published == /\ mpc = "emplace" /\ mpc' = "count" /\ QP!Elements' = Append(QP!Elements, made)
             /\ UNCHANGED <<histVars, counterVars, phase>>
CountedTx == /\ mpc = "count" /\ mpc' = "fire" /\ txCount' = txCount + 1
             /\ UNCHANGED <<QP!Elements, histVars, rxCount, dropCount, phase>>
CountedDrop == /\ mpc = "drop" /\ mpc' = "top" /\ dropped' = dropped \cup {made} /\ dropCount' = dropCount + 1
               /\ UNCHANGED <<QP!Elements, made, batch, received, txCount, rxCount, phase>>
Taken == QP!Elements # << >> /\ QP!Elements' = Tail(QP!Elements) /\ UNCHANGED <<mpc, phase>>
Popped == /\ Taken /\ batch' = Append(batch, Head(QP!Elements))
          /\ UNCHANGED <<made, received, dropped, counterVars>>
Drained == Taken /\ phase # "alive" /\ UNCHANGED <<histVars, counterVars>>
Received == /\ batch # << >> /\ received' = Append(received, Head(batch)) /\ batch' = Tail(batch)
            /\ rxCount' = rxCount + 1
            /\ UNCHANGED <<QP!Elements, mpc, made, dropped, txCount, dropCount, phase>>
Aside == /\ UNCHANGED <<QP!Elements, histVars, counterVars>>
         /\ mpc' = mpc \/ (mpc \in {"new", "top", "fire"} /\ mpc' \in {"top", "fire", "exited"})
         /\ phase' = "alive" => phase = "alive"

(* Every step does one of these. *)
LEMMA EventSteps == ASSUME IInv, [Next]_vars
                    PROVE  \/ Created \/ Trying \/ Published \/ CountedTx \/ CountedDrop
                           \/ Popped \/ Drained \/ Received \/ Aside
<1> USE DEF queueVars, pipeVars, histVars, counterVars, flagVars, QP!writerVars, QP!readerVars
<1>0. /\ QP!QueueAssumption /\ QP!IInv /\ QP!IInv' /\ [QP!Next]_(QP!vars)
      /\ Writer /\ Stages
  BY QueueAssumed, PartsStep, QueueStep DEF IInv
<1>1. ASSUME ~QP!Publish, ~QP!PopDestroy PROVE UNCHANGED QP!Elements
  BY <1>0, <1>1, QP!ElementsKept
<1>2. ASSUME RunImpl PROVE Created
  <2>1. /\ mpc = "top" /\ made < MaxEvents /\ made' = made + 1 /\ mpc' = "emplace" /\ wpc = "idle"
        /\ UNCHANGED <<batch, received, dropped, counterVars, phase, rpc>>
    BY <1>2, SameQueue DEF RunImpl, QP!Enter
  <2>2. UNCHANGED QP!Elements
    BY <1>1, <2>1 DEF QP!Publish, QP!PopDestroy
  <2> QED
    BY <2>1, <2>2 DEF Created
<1>3. ASSUME TryEmplace PROVE Trying \/ Published
  <2>1. mpc = "emplace" /\ UNCHANGED <<histVars, counterVars>>
    BY <1>3 DEF TryEmplace
  <2>2. CASE Q!LoadReadIdx \/ Q!Construct
    <3>1. wpc # "publish" /\ UNCHANGED <<rpc, phase>>
      BY <2>2, SameQueue DEF QP!LoadReadIdx, QP!Construct
    <3>2. UNCHANGED QP!Elements
      BY <1>1, <3>1 DEF QP!Publish, QP!PopDestroy
    <3>3. mpc' \in {"emplace", "drop"}
      BY <1>3, <3>1 DEF TryEmplace
    <3> QED
      BY <2>1, <3>1, <3>2, <3>3 DEF Trying
  <2>3. CASE Q!Publish
    <3>1. QP!Publish
      BY <2>3, SameQueue
    <3>2. QP!Elements' = Append(QP!Elements, slots[writeIdx])
      BY <1>0, <3>1, QP!PublishAppends
    <3>3. wpc = "publish" /\ UNCHANGED phase
      BY <3>1 DEF QP!Publish
    <3>4. slots[writeIdx] = made
      BY <1>0, <2>1, <3>3 DEF Writer
    <3>5. mpc' = "count"
      BY <1>3, <3>3 DEF TryEmplace
    <3> QED
      BY <2>1, <3>2, <3>3, <3>4, <3>5 DEF Published
  <2> QED
    BY <1>3, <2>2, <2>3 DEF TryEmplace
<1>4. ASSUME UNCHANGED <<wpc, rpc>> PROVE UNCHANGED QP!Elements
  BY <1>1, <1>4 DEF QP!Publish, QP!PopDestroy
<1>5. ASSUME CountTx PROVE CountedTx
  <2>1. UNCHANGED QP!Elements
    BY <1>4, <1>5 DEF CountTx
  <2> QED
    BY <1>5, <2>1 DEF CountTx, CountedTx
<1>6. ASSUME CountDrop PROVE CountedDrop
  <2>1. UNCHANGED QP!Elements
    BY <1>4, <1>6 DEF CountDrop
  <2> QED
    BY <1>6, <2>1 DEF CountDrop, CountedDrop
<1>7. ASSUME Fire \/ ThreadExit \/ Run \/ SignalHandler \/ CheckRunning \/ Wait \/ ConsumeEvent PROVE Aside
  <2>1. UNCHANGED <<wpc, rpc, phase, histVars, counterVars>>
    BY <1>7 DEF Fire, ThreadExit, Run, SignalHandler, CheckRunning, Wait, ConsumeEvent
  <2>2. mpc' = mpc \/ (mpc \in {"new", "top", "fire"} /\ mpc' \in {"top", "fire", "exited"})
    <3>1. CASE Run
      BY <1>0, <3>1 DEF Run, Stages
    <3>2. CASE ~Run
      BY <1>7, <3>2 DEF Fire, ThreadExit, SignalHandler, CheckRunning, Wait, ConsumeEvent
    <3> QED
      BY <3>1, <3>2
  <2> QED
    BY <1>4, <2>1, <2>2 DEF Aside
<1>8. ASSUME Dispatched \/ Stop \/ Join \/ Ended \/ UNCHANGED vars PROVE Aside
  <2>1. UNCHANGED <<mpc, wpc, rpc, phase, histVars, counterVars>>
    BY <1>8 DEF Dispatched, Stop, Join, Ended, vars
  <2> QED
    BY <1>4, <2>1 DEF Aside
<1>9. ASSUME Drain \/ Settle PROVE Aside
  <2>1. UNCHANGED <<mpc, histVars, counterVars>>
    BY <1>9 DEF Drain, Settle
  <2>2. UNCHANGED <<wpc, rpc, phase>>
    BY <1>9, SameQueue DEF Drain, Settle, QP!Empty, QP!WriteIdxSettles, QP!ReadIdxSettles
  <2> QED
    BY <1>4, <2>1, <2>2 DEF Aside
<1>10. ASSUME QP!FrontCached \/ QP!FrontLoad \/ QP!PopStore PROVE UNCHANGED <<QP!Elements, phase>>
  <2>1. UNCHANGED <<wpc, phase>> /\ rpc # "holding"
    BY <1>10 DEF QP!FrontCached, QP!FrontLoad, QP!PopStore
  <2> QED
    BY <1>1, <2>1 DEF QP!Publish, QP!PopDestroy
<1>11. ASSUME Front PROVE Aside
  <2>1. UNCHANGED <<mpc, histVars, counterVars>>
    BY <1>11 DEF Front
  <2>2. QP!FrontCached \/ QP!FrontLoad
    BY <1>11, SameQueue DEF Front
  <2> QED
    BY <1>10, <2>1, <2>2 DEF Aside
<1>12. ASSUME QP!PopDestroy PROVE /\ QP!Elements # << >> /\ QP!Elements' = Tail(QP!Elements)
                                 /\ slots[readIdx] = Head(QP!Elements) /\ UNCHANGED phase
  <2>1. UNCHANGED phase
    BY <1>12 DEF QP!PopDestroy
  <2> QED
    BY <1>0, <1>12, <2>1, QP!PopTakes
<1>13. ASSUME Pop PROVE Popped \/ Aside
  <2>1. UNCHANGED <<mpc, made, received, dropped, counterVars>>
    BY <1>13 DEF Pop
  <2>2. CASE QP!PopDestroy /\ batch' = Append(batch, slots[readIdx])
    BY <1>12, <2>1, <2>2 DEF Popped, Taken
  <2>3. CASE QP!PopStore /\ batch' = batch
    BY <1>10, <2>1, <2>3 DEF Aside
  <2> QED
    BY <1>13, <2>2, <2>3, SameQueue DEF Pop
<1>14. ASSUME Dispatch PROVE Received
  <2>1. UNCHANGED QP!Elements
    BY <1>4, <1>14 DEF Dispatch
  <2> QED
    BY <1>14, <2>1 DEF Dispatch, Received
<1>15. ASSUME Destroy PROVE Drained \/ Aside
  <2>1. UNCHANGED <<mpc, histVars, counterVars>>
    BY <1>15 DEF Destroy
  <2>2. CASE Q!Destroy \/ Q!Deallocate
    <3>1. UNCHANGED wpc /\ rpc' = "idle" /\ phase' # "alive"
      BY <2>2, SameQueue DEF QP!Destroy, QP!Deallocate
    <3>2. UNCHANGED QP!Elements
      <4>1. ~QP!Publish /\ ~QP!PopDestroy
        BY <3>1 DEF QP!Publish, QP!PopDestroy
      <4> QED
        BY <1>1, <4>1
    <3> QED
      BY <2>1, <3>1, <3>2 DEF Aside
  <2>3. CASE phase = "draining" /\ (Q!FrontCached \/ Q!FrontLoad \/ Q!PopStore)
    <3>1. UNCHANGED <<QP!Elements, phase>>
      BY <1>10, <2>3, SameQueue
    <3> QED
      BY <2>1, <2>3, <3>1 DEF Aside
  <2>4. CASE phase = "draining" /\ Q!PopDestroy
    <3>1. QP!PopDestroy
      BY <2>4, SameQueue
    <3> QED
      BY <1>12, <2>1, <2>4, <3>1 DEF Drained, Taken
  <2> QED
    BY <1>15, <2>2, <2>3, <2>4 DEF Destroy
<1> QED
  BY <1>2, <1>3, <1>5, <1>6, <1>7, <1>8, <1>9, <1>11, <1>13, <1>14, <1>15
     DEF Next, ManagerThread, MainThread

(* Every event is in one place, and none overtakes another. *)
LEMMA OnceStep == ASSUME IInv, [Next]_vars PROVE Once'
<1> USE DEF histVars, counterVars
<1> DEFINE el == QP!Elements
           Held == {"emplace", "drop"}
<1>0. Once
  BY DEF IInv
<1>1. /\ batch \in Seq(Nat) /\ received \in Seq(Nat) /\ el \in Seq(Nat) /\ made \in Nat
  BY PartsFacts DEF IInv, Shape
<1>2. ASSUME \A n : Passed(n)' <=> Passed(n), \A n : InHand(n)' <=> InHand(n), UNCHANGED <<made, dropped>>,
             mpc' \in Held => mpc \in Held, phase' = "alive" => phase = "alive"
      PROVE  /\ (dropped \subseteq 1 .. made)'
             /\ mpc' \in Held => made' > 0 /\ made' \notin dropped'
             /\ \A n : Passed(n)' => n \in 1 .. made' /\ n \notin dropped' /\ ~InHand(n)'
             /\ phase' = "alive" => \A n \in 1 .. made' : Passed(n)' \/ n \in dropped' \/ InHand(n)'
  BY <1>0, <1>2 DEF Once
<1> HIDE DEF el
<1>3. ASSUME UNCHANGED <<el, batch, received>>
      PROVE  /\ \A n : Passed(n)' <=> Passed(n)
             /\ PP!Increasing(received)' /\ PP!Increasing(batch)' /\ PP!Increasing(el)'
             /\ Below(Range(received), Range(batch))' /\ Below(Range(received), Range(el))'
             /\ Below(Range(batch), Range(el))'
  BY <1>0, <1>3 DEF Once, Passed, el
<1>4. ASSUME Created PROVE Once'
  <2>1. /\ mpc = "top" /\ made' = made + 1 /\ mpc' = "emplace" /\ UNCHANGED <<el, batch, received, dropped, phase>>
    BY <1>4 DEF Created, el
  <2>2. dropped \subseteq 1 .. made
    BY <1>0 DEF Once
  <2>3. /\ dropped \subseteq 1 .. (made + 1) /\ made + 1 > 0 /\ made + 1 \notin dropped
        /\ \A n : n \in 1 .. (made + 1) <=> n \in 1 .. made \/ n = made + 1
        /\ made + 1 \notin 1 .. made
    BY <1>1, <2>2
  <2>4. (\A n : ~InHand(n)) /\ \A n : InHand(n)' <=> n = made + 1
    BY <2>1 DEF InHand
  <2>5. /\ \A n : Passed(n) => n \in 1 .. made /\ n \notin dropped
        /\ phase = "alive" => \A n \in 1 .. made : Passed(n) \/ n \in dropped
    BY <1>0, <2>4 DEF Once
  <2>6. \A n : Passed(n)' => n \in 1 .. made' /\ n \notin dropped' /\ ~InHand(n)'
    BY <1>3, <2>1, <2>3, <2>4, <2>5
  <2>7. phase' = "alive" => \A n \in 1 .. made' : Passed(n)' \/ n \in dropped' \/ InHand(n)'
    BY <1>3, <2>1, <2>3, <2>4, <2>5
  <2> QED
    BY <1>3, <2>1, <2>3, <2>6, <2>7 DEF Once, el
<1>5. ASSUME Trying \/ CountedTx \/ Aside PROVE Once'
  <2>1. /\ UNCHANGED <<el, batch, received, made, dropped>> /\ (mpc' \in Held <=> mpc \in Held)
        /\ phase' = "alive" => phase = "alive"
    BY <1>5 DEF Trying, CountedTx, Aside, el
  <2>2. \A n : InHand(n)' <=> InHand(n)
    BY <2>1 DEF InHand
  <2> QED
    BY <1>2, <1>3, <2>1, <2>2 DEF Once, el
<1>6. ASSUME Published PROVE Once'
  <2>1. /\ mpc = "emplace" /\ mpc' = "count" /\ el' = Append(el, made)
        /\ UNCHANGED <<batch, received, made, dropped, phase>>
    BY <1>6 DEF Published, el
  <2>2. /\ \A n : Passed(n) => n \in 1 .. made /\ n \notin dropped /\ n # made
        /\ made > 0 /\ made \notin dropped /\ dropped \subseteq 1 .. made
        /\ phase = "alive" => \A n \in 1 .. made : Passed(n) \/ n \in dropped \/ n = made
    BY <1>0, <2>1 DEF Once, InHand
  <2>3. \A n : Passed(n) => n < made
    BY <1>1, <2>2
  <2>4. /\ \A x \in Range(received) : x < made
        /\ \A x \in Range(batch) : x < made
        /\ \A x \in Range(el) : x < made
    BY <2>3 DEF Passed, el
  <2>5. Range(el') = Range(el) \cup {made} /\ PP!Increasing(el')
    <3>1. el \in Seq(Nat) /\ made \in Nat /\ PP!Increasing(el)
      BY <1>0, <1>1 DEF Once, el
    <3>2. PP!Range(Append(el, made)) = PP!Range(el) \cup {made}
      BY SameEvents, <3>1, PP!AppendRange
    <3>3. \A x \in PP!Range(el) : x < made
      BY SameEvents, <2>4
    <3>4. PP!Increasing(Append(el, made))
      BY SameEvents, <3>1, <3>3, PP!AppendIncreasing
    <3> QED
      BY SameEvents, <2>1, <3>2, <3>4
  <2>6. /\ PP!Increasing(received') /\ PP!Increasing(batch') /\ Below(Range(received'), Range(batch'))
        /\ Below(Range(received'), Range(el')) /\ Below(Range(batch'), Range(el'))
    <3>1. /\ PP!Increasing(received) /\ PP!Increasing(batch) /\ Below(Range(received), Range(batch))
          /\ Below(Range(received), Range(el)) /\ Below(Range(batch), Range(el))
      BY <1>0 DEF Once, el
    <3> QED
      BY <2>1, <2>4, <2>5, <3>1 DEF Below
  <2>7. \A n : Passed(n)' <=> Passed(n) \/ n = made
    BY <2>1, <2>5 DEF Passed, el
  <2>8. \A n : ~InHand(n)'
    BY <2>1 DEF InHand
  <2>9. made \in 1 .. made
    BY <1>1, <2>2
  <2> QED
    BY <2>1, <2>2, <2>5, <2>6, <2>7, <2>8, <2>9 DEF Once, el
<1>7. ASSUME CountedDrop PROVE Once'
  <2>1. /\ mpc = "drop" /\ mpc' = "top" /\ dropped' = dropped \cup {made}
        /\ UNCHANGED <<el, batch, received, made, phase>>
    BY <1>7 DEF CountedDrop, el
  <2>2. /\ \A n : Passed(n) => n \in 1 .. made /\ n \notin dropped /\ n # made
        /\ made > 0 /\ dropped \subseteq 1 .. made
        /\ phase = "alive" => \A n \in 1 .. made : Passed(n) \/ n \in dropped \/ n = made
    BY <1>0, <2>1 DEF Once, InHand
  <2>3. dropped' \subseteq 1 .. made
    BY <1>1, <2>1, <2>2
  <2>4. \A n : ~InHand(n)'
    BY <2>1 DEF InHand
  <2> QED
    BY <1>3, <2>1, <2>2, <2>3, <2>4 DEF Once, el
<1>8. ASSUME Taken
      PROVE  /\ Head(el) \in Range(el) /\ Head(el) \in Nat /\ Range(el') = Range(el) \ {Head(el)}
             /\ \A x \in Range(el') : Head(el) < x
             /\ PP!Increasing(el') /\ UNCHANGED <<mpc, phase>>
  <2>1. el # << >> /\ el' = Tail(el) /\ UNCHANGED <<mpc, phase>>
    BY <1>8 DEF Taken, el
  <2>2. PP!Increasing(el)
    BY <1>0 DEF Once, el
  <2>3. Head(el) \in Nat
    BY <1>1, <2>1, HeadTailProperties
  <2> QED
    BY SameEvents, <1>1, <2>1, <2>2, <2>3, PP!TailIncreasing
<1>9. ASSUME Popped PROVE Once'
  <2>1. /\ Taken /\ batch' = Append(batch, Head(el)) /\ UNCHANGED <<made, received, dropped>>
    BY <1>9 DEF Popped, el
  <2>2. /\ PP!Increasing(received) /\ PP!Increasing(batch) /\ Below(Range(received), Range(batch))
        /\ Below(Range(received), Range(el)) /\ Below(Range(batch), Range(el))
    BY <1>0 DEF Once, el
  <2>3. \A x \in Range(batch) : x < Head(el)
    BY <1>8, <2>1, <2>2 DEF Below
  <2>4. PP!Increasing(batch') /\ Range(batch') = Range(batch) \cup {Head(el)}
    <3>1. batch \in Seq(Nat) /\ Head(el) \in Nat /\ PP!Increasing(batch) /\ batch' = Append(batch, Head(el))
      BY <1>1, <1>8, <2>1, <2>2
    <3>2. /\ PP!Increasing(Append(batch, Head(el)))
          /\ Range(Append(batch, Head(el))) = Range(batch) \cup {Head(el)}
      BY SameEvents, <2>3, <3>1, PP!AppendRange, PP!AppendIncreasing
    <3> QED
      BY <3>1, <3>2
  <2>5. /\ Below(Range(received'), Range(batch')) /\ Below(Range(received'), Range(el'))
        /\ Below(Range(batch'), Range(el'))
    BY <1>8, <2>1, <2>2, <2>4 DEF Below
  <2>6. \A n : Passed(n)' <=> Passed(n)
    BY <1>8, <2>1, <2>4 DEF Passed, el
  <2>7. (\A n : InHand(n)' <=> InHand(n)) /\ UNCHANGED <<mpc, phase>>
    BY <1>8, <2>1 DEF InHand
  <2> QED
    BY <1>2, <1>8, <2>1, <2>2, <2>4, <2>5, <2>6, <2>7 DEF Once, el
<1>10. ASSUME Drained PROVE Once'
  <2>1. Taken /\ phase # "alive" /\ UNCHANGED <<made, received, batch, dropped>>
    BY <1>10 DEF Drained
  <2>2. \A n : Passed(n)' => Passed(n)
    BY <1>8, <2>1 DEF Passed, el
  <2>3. (\A n : InHand(n)' <=> InHand(n)) /\ UNCHANGED <<mpc, phase>>
    BY <1>8, <2>1 DEF InHand
  <2>4. Below(Range(received'), Range(el')) /\ Below(Range(batch'), Range(el'))
    <3>1. Below(Range(received), Range(el)) /\ Below(Range(batch), Range(el))
      BY <1>0 DEF Once, el
    <3> QED
      BY <1>8, <2>1, <3>1 DEF Below
  <2> QED
    BY <1>0, <1>8, <2>1, <2>2, <2>3, <2>4 DEF Once, el
<1>11. ASSUME Received PROVE Once'
  <2>1. /\ batch # << >> /\ received' = Append(received, Head(batch)) /\ batch' = Tail(batch)
        /\ UNCHANGED <<el, mpc, made, dropped, phase>>
    BY <1>11 DEF Received, el
  <2>2. /\ PP!Increasing(received) /\ PP!Increasing(batch) /\ Below(Range(received), Range(batch))
        /\ Below(Range(received), Range(el)) /\ Below(Range(batch), Range(el)) /\ PP!Increasing(el)
    BY <1>0 DEF Once, el
  <2>3. /\ Head(batch) \in Range(batch) /\ Head(batch) \in Nat /\ Range(batch') = Range(batch) \ {Head(batch)}
        /\ \A x \in Range(batch') : Head(batch) < x
        /\ PP!Increasing(batch')
    <3>1. Head(batch) \in Nat
      BY <1>1, <2>1, HeadTailProperties
    <3> QED
      BY SameEvents, <1>1, <2>1, <2>2, <3>1, PP!TailIncreasing
  <2>4. \A x \in Range(received) : x < Head(batch)
    BY <2>2, <2>3 DEF Below
  <2>5. PP!Increasing(received') /\ Range(received') = Range(received) \cup {Head(batch)}
    BY SameEvents, <1>1, <2>1, <2>2, <2>3, <2>4, PP!AppendRange, PP!AppendIncreasing
  <2>6. /\ Below(Range(received'), Range(batch')) /\ Below(Range(received'), Range(el'))
        /\ Below(Range(batch'), Range(el'))
    BY <2>1, <2>2, <2>3, <2>5 DEF Below
  <2>7. \A n : Passed(n)' <=> Passed(n)
    BY <2>1, <2>3, <2>5 DEF Passed, el
  <2>8. \A n : InHand(n)' <=> InHand(n)
    BY <2>1 DEF InHand
  <2> QED
    BY <1>2, <2>1, <2>2, <2>3, <2>5, <2>6, <2>7, <2>8 DEF Once, el
<1> QED
  BY <1>4, <1>5, <1>6, <1>7, <1>9, <1>10, <1>11, EventSteps

(* Counters, lists and queue change together. *)
LEMMA CountsStep == ASSUME IInv, [Next]_vars PROVE Counts'
<1> USE DEF histVars, counterVars
<1> DEFINE el == QP!Elements
<1>0. Counts
  BY DEF IInv
<1>1. batch \in Seq(Nat) /\ el \in Seq(Nat)
  BY PartsFacts DEF IInv, Shape
<1> HIDE DEF el
<1>2. /\ Size(batch) \in Nat /\ Size(el) \in Nat /\ made \in Nat
      /\ rxCount \in Nat /\ txCount \in Nat /\ dropCount \in Nat /\ Uncounted \in Nat /\ Undecided \in Nat
  BY <1>1, LenProperties DEF IInv, Shape, Size, Uncounted, Undecided
<1>3. /\ rxCount + Size(batch) + Size(el) <= txCount + Uncounted
      /\ txCount + dropCount + Undecided = made
  BY <1>0 DEF Counts, el
<1>4. ASSUME rxCount' + Size(batch') + Size(el') <= txCount' + Uncounted',
             txCount' + dropCount' + Undecided' = made'
      PROVE  Counts'
  BY <1>4 DEF Counts, el
<1>5. CASE Created
  <2>1. /\ Uncounted' = 0 /\ Uncounted = 0 /\ Undecided' = 1 /\ Undecided = 0 /\ made' = made + 1
        /\ UNCHANGED <<el, batch, rxCount, txCount, dropCount>>
    BY <1>5 DEF Created, Uncounted, Undecided, el
  <2> QED
    BY <1>2, <1>3, <1>4, <2>1
<1>6. CASE Trying \/ Aside
  <2>1. UNCHANGED <<Uncounted, Undecided, made, el, batch, rxCount, txCount, dropCount>>
    BY <1>6 DEF Trying, Aside, Uncounted, Undecided, el
  <2> QED
    BY <1>3, <1>4, <2>1
<1>7. CASE Published
  <2>1. /\ Uncounted' = 1 /\ Uncounted = 0 /\ Undecided' = 1 /\ Undecided = 1 /\ el' = Append(el, made)
        /\ UNCHANGED <<made, batch, rxCount, txCount, dropCount>>
    BY <1>7 DEF Published, Uncounted, Undecided, el
  <2>2. Size(el') = Size(el) + 1
    BY SameEvents, <1>1, <1>2, <2>1, PP!AppendRange DEF Size
  <2> QED
    BY <1>2, <1>3, <1>4, <2>1, <2>2
<1>8. CASE CountedTx
  <2>1. /\ Uncounted' = 0 /\ Uncounted = 1 /\ Undecided' = 0 /\ Undecided = 1 /\ txCount' = txCount + 1
        /\ UNCHANGED <<made, el, batch, rxCount, dropCount>>
    BY <1>8 DEF CountedTx, Uncounted, Undecided, el
  <2> QED
    BY <1>2, <1>3, <1>4, <2>1
<1>9. CASE CountedDrop
  <2>1. /\ Uncounted' = 0 /\ Uncounted = 0 /\ Undecided' = 0 /\ Undecided = 1 /\ dropCount' = dropCount + 1
        /\ UNCHANGED <<made, el, batch, rxCount, txCount>>
    BY <1>9 DEF CountedDrop, Uncounted, Undecided, el
  <2> QED
    BY <1>2, <1>3, <1>4, <2>1
<1>10. ASSUME Taken PROVE /\ Head(el) \in Nat /\ Size(el') = Size(el) - 1
                          /\ UNCHANGED <<Uncounted, Undecided>>
  <2>1. el # << >> /\ el' = Tail(el) /\ UNCHANGED mpc
    BY <1>10 DEF Taken, el
  <2>2. Head(el) \in Nat /\ Size(el') = Size(el) - 1
    BY <1>1, <2>1, HeadTailProperties DEF Size
  <2> QED
    BY <2>1, <2>2 DEF Uncounted, Undecided
<1>11. CASE Popped
  <2>1. Taken /\ batch' = Append(batch, Head(el)) /\ UNCHANGED <<made, rxCount, txCount, dropCount>>
    BY <1>11 DEF Popped, el
  <2>2. Size(batch') = Size(batch) + 1
    BY SameEvents, <1>1, <1>10, <2>1, PP!AppendRange DEF Size
  <2>3. Size(el') = Size(el) - 1 /\ UNCHANGED <<Uncounted, Undecided>>
    BY <1>10, <2>1
  <2> QED
    BY <1>2, <1>3, <1>4, <2>1, <2>2, <2>3
<1>12. CASE Drained
  <2>1. Taken /\ UNCHANGED <<made, batch, rxCount, txCount, dropCount>>
    BY <1>12 DEF Drained
  <2>2. Size(el') = Size(el) - 1 /\ UNCHANGED <<Uncounted, Undecided>>
    BY <1>10, <2>1
  <2> QED
    BY <1>2, <1>3, <1>4, <2>1, <2>2
<1>13. CASE Received
  <2>1. /\ batch # << >> /\ batch' = Tail(batch) /\ rxCount' = rxCount + 1
        /\ UNCHANGED <<el, mpc, made, txCount, dropCount>>
    BY <1>13 DEF Received, el
  <2>2. Size(batch') = Size(batch) - 1
    BY <1>1, <2>1, HeadTailProperties DEF Size
  <2>3. UNCHANGED <<Uncounted, Undecided>>
    BY <2>1 DEF Uncounted, Undecided
  <2> QED
    BY <1>2, <1>3, <1>4, <2>1, <2>2, <2>3
<1> QED
  BY <1>5, <1>6, <1>7, <1>8, <1>9, <1>11, <1>12, <1>13, EventSteps
-----------------------------------------------------------------------------
(* front() finds the element that empty() saw. *)
LEMMA FrontFinds == ASSUME IInv, Front PROVE rpc' = "holding" /\ lpc' = "pop"
<1>1. /\ QP!QueueAssumption /\ QP!IInv /\ lpc = "front" /\ visW # readIdx
  BY QueueAssumed DEF IInv, Visible, Front
<1>2. readIdx \notin QP!Between(visW, writeIdx)
  BY <1>1, QP!SeenStaysSeen
<1>3. QP!FrontCached \/ QP!FrontLoad
  BY SameQueue DEF Front
<1>4. rpc' = "holding"
  BY <1>2, <1>3 DEF QP!FrontCached, QP!FrontLoad
<1> QED
  BY <1>4 DEF Front

(* Every step preserves the types; the main loop does not crash. *)
LEMMA ShapeStep == ASSUME IInv, [Next]_vars PROVE Shape'
<1> USE DEF histVars, counterVars, flagVars
<1>0. Shape
  BY DEF IInv
<1>1. /\ made' \in Nat /\ made' <= MaxEvents /\ dropped' \in SUBSET Nat
      /\ txCount' \in Nat /\ rxCount' \in Nat /\ dropCount' \in Nat
  <2>1. CASE Created
    BY <1>0, <2>1, ChannelAssumption DEF Shape, Created
  <2>2. CASE Trying \/ Published \/ Popped \/ Drained \/ Aside
    BY <1>0, <2>2 DEF Shape, Trying, Published, Popped, Drained, Aside
  <2>3. CASE CountedTx
    BY <1>0, <2>3 DEF Shape, CountedTx
  <2>4. CASE CountedDrop
    BY <1>0, <2>4 DEF Shape, CountedDrop
  <2>5. CASE Received
    BY <1>0, <2>5 DEF Shape, Received
  <2> QED
    BY <2>1, <2>2, <2>3, <2>4, <2>5, EventSteps
<1>2. batch' \in Seq(Nat) /\ received' \in Seq(Nat)
  <2>0. batch \in Seq(Nat) /\ received \in Seq(Nat) /\ QP!Elements \in Seq(Nat)
    BY <1>0, PartsFacts DEF Shape
  <2>1. CASE Popped
    <3>1. Head(QP!Elements) \in Nat
      BY <2>0, <2>1, HeadTailProperties DEF Popped, Taken
    <3> QED
      BY <2>0, <2>1, <3>1, AppendProperties DEF Popped
  <2>2. CASE Received
    <3>1. Head(batch) \in Nat /\ Tail(batch) \in Seq(Nat)
      BY <2>0, <2>2, HeadTailProperties DEF Received
    <3> QED
      BY <2>0, <2>2, <3>1, AppendProperties DEF Received
  <2>3. CASE Created \/ Trying \/ Published \/ Drained \/ Aside \/ CountedTx \/ CountedDrop
    BY <2>0, <2>3 DEF Created, Trying, Published, Drained, Aside, CountedTx, CountedDrop
  <2> QED
    BY <2>1, <2>2, <2>3, EventSteps
<1>3. mpc' \in {"new", "top", "emplace", "count", "fire", "drop", "exited"}
  <2>1. CASE Created \/ Trying \/ Published \/ CountedTx \/ CountedDrop
    BY <2>1 DEF Created, Trying, Published, CountedTx, CountedDrop
  <2>2. CASE Popped \/ Drained \/ Received \/ Aside
    BY <1>0, <2>2 DEF Shape, Popped, Drained, Taken, Received, Aside
  <2> QED
    BY <2>1, <2>2, EventSteps
<1>4. /\ mRunning' \in BOOLEAN /\ running' \in BOOLEAN
      /\ lpc' \in {"start", "loop", "wait", "consume", "drain", "front", "pop", "dispatch",
                    "stop", "join", "destroy", "ended"}
  <2>1. CASE Front
    BY <1>0, <2>1, FrontFinds DEF Shape, Front
  <2>2. CASE \/ RunImpl \/ TryEmplace \/ CountTx \/ CountDrop \/ Fire \/ ThreadExit \/ Run
             \/ CheckRunning \/ Wait \/ ConsumeEvent
    BY <1>0, <2>2 DEF Shape, RunImpl, TryEmplace, CountTx, CountDrop, Fire, ThreadExit, Run,
                      CheckRunning, Wait, ConsumeEvent
  <2>3. CASE Drain \/ Pop \/ Dispatch \/ Dispatched \/ Stop \/ Join
    BY <1>0, <2>3 DEF Shape, Drain, Pop, Dispatch, Dispatched, Stop, Join
  <2>4. CASE Destroy \/ Settle \/ SignalHandler \/ Ended \/ UNCHANGED vars
    BY <1>0, <2>4 DEF Shape, Destroy, Settle, SignalHandler, Ended, vars
  <2> QED
    BY <2>1, <2>2, <2>3, <2>4 DEF Next, ManagerThread, MainThread
<1> QED
  BY <1>1, <1>2, <1>3, <1>4 DEF Shape

(* Every step keeps the stages of the program in order. *)
LEMMA StagesStep == ASSUME IInv, [Next]_vars PROVE Stages'
<1> USE DEF queueVars, histVars, counterVars, flagVars
<1>0. Stages
  BY DEF IInv
<1>1. CASE RunImpl \/ TryEmplace \/ CountTx \/ CountDrop \/ Fire \/ ThreadExit
  <2>1. /\ mpc \in {"top", "emplace", "count", "drop", "fire"} /\ mpc' # "new" /\ UNCHANGED <<lpc, batch>>
    BY <1>1 DEF RunImpl, TryEmplace, CountTx, CountDrop, Fire, ThreadExit
  <2>2. UNCHANGED phase
    <3>1. CASE RunImpl \/ TryEmplace
      BY <3>1, SameQueue DEF RunImpl, TryEmplace, QP!Enter, QP!LoadReadIdx, QP!Construct, QP!Publish
    <3>2. CASE CountTx \/ CountDrop \/ Fire \/ ThreadExit
      BY <3>2 DEF CountTx, CountDrop, Fire, ThreadExit
    <3> QED
      BY <1>1, <3>1, <3>2
  <2> QED
    BY <1>0, <2>1, <2>2 DEF Stages
<1>2. CASE Run
  BY <1>0, <1>2 DEF Stages, Run
<1>3. CASE CheckRunning \/ Wait \/ ConsumeEvent \/ Dispatch \/ Dispatched \/ Stop \/ SignalHandler
  <2>1. UNCHANGED <<mpc, phase>>
    BY <1>3 DEF CheckRunning, Wait, ConsumeEvent, Dispatch, Dispatched, Stop, SignalHandler
  <2>2. lpc' = lpc \/ (lpc \notin {"start", "destroy", "ended"} /\ lpc' \notin {"start", "destroy", "ended"})
    BY <1>3 DEF CheckRunning, Wait, ConsumeEvent, Dispatch, Dispatched, Stop, SignalHandler
  <2>3. batch' # << >> => lpc' \in {"drain", "front", "pop", "dispatch"}
    BY <1>0, <1>3 DEF Stages, CheckRunning, Wait, ConsumeEvent, Dispatch, Dispatched, Stop, SignalHandler
  <2> QED
    BY <1>0, <2>1, <2>2, <2>3 DEF Stages
<1>4. CASE Drain \/ Front \/ Pop
  <2>1. /\ lpc \in {"drain", "front", "pop"} /\ UNCHANGED mpc
        /\ lpc' \in {"drain", "front", "pop", "dispatch"}
    BY <1>4, FrontFinds DEF Drain, Front, Pop
  <2>2. UNCHANGED phase
    BY <1>4, SameQueue DEF Drain, Front, Pop, QP!Empty, QP!FrontCached, QP!FrontLoad, QP!PopDestroy, QP!PopStore
  <2> QED
    BY <1>0, <2>1, <2>2 DEF Stages
<1>5. CASE Join
  BY <1>0, <1>5 DEF Stages, Join
<1>6. CASE Destroy
  BY <1>0, <1>6 DEF Stages, Destroy
<1>7. CASE Settle
  <2>1. UNCHANGED <<lpc, mpc, batch, phase>>
    BY <1>7, SameQueue DEF Settle, QP!WriteIdxSettles, QP!ReadIdxSettles
  <2> QED
    BY <1>0, <2>1 DEF Stages
<1>8. CASE Ended \/ UNCHANGED vars
  BY <1>0, <1>8 DEF Stages, Ended, vars
<1> QED
  BY <1>1, <1>2, <1>3, <1>4, <1>5, <1>6, <1>7, <1>8 DEF Next, ManagerThread, MainThread

(***************************************************************************)
(* The steps of the main thread, of the memory and of the signal handler   *)
(* change nothing the writer has, but for the slot being vacated.          *)
(***************************************************************************)
LEMMA WriterLeftAlone ==
  ASSUME IInv, MainThread \/ Settle \/ SignalHandler \/ Ended \/ UNCHANGED vars
  PROVE  /\ UNCHANGED <<wpc, wop, wval, writeIdx, made>>
         /\ mpc' = "emplace" <=> mpc = "emplace"
         /\ slots' = slots \/ (readIdx # writeIdx /\ slots' = [slots EXCEPT ![readIdx] = 0])
<1> USE DEF queueVars, histVars, QP!writerVars
<1>0. QP!QueueAssumption /\ QP!IInv /\ Stages
  BY QueueAssumed DEF IInv
<1>1. ASSUME QP!PopDestroy
      PROVE  /\ UNCHANGED <<wpc, wop, wval, writeIdx>> /\ readIdx # writeIdx
             /\ slots' = [slots EXCEPT ![readIdx] = 0]
  <2>1. readIdx # writeIdx
    BY <1>0, <1>1, QP!PointerMeansElement DEF QP!PopDestroy
  <2> QED
    BY <1>1, <2>1 DEF QP!PopDestroy
<1>2. ASSUME \/ QP!FrontCached \/ QP!FrontLoad \/ QP!PopStore \/ QP!Destroy \/ QP!Deallocate
             \/ QP!WriteIdxSettles \/ QP!ReadIdxSettles \/ \E w : QP!Empty(w)
      PROVE  UNCHANGED <<wpc, wop, wval, writeIdx, slots>>
  BY <1>2 DEF QP!FrontCached, QP!FrontLoad, QP!PopStore, QP!Destroy, QP!Deallocate, QP!WriteIdxSettles,
              QP!ReadIdxSettles, QP!Empty
<1>3. CASE Drain
  <2>1. (\E w : QP!Empty(w)) /\ UNCHANGED <<mpc, made>>
    BY <1>3, SameQueue DEF Drain
  <2> QED
    BY <1>2, <2>1
<1>4. CASE Front \/ Settle
  <2>1. /\ QP!FrontCached \/ QP!FrontLoad \/ QP!WriteIdxSettles \/ QP!ReadIdxSettles
        /\ UNCHANGED <<mpc, made>>
    BY <1>4, SameQueue DEF Front, Settle
  <2> QED
    BY <1>2, <2>1
<1>5. CASE Pop
  <2>1. (QP!PopDestroy \/ QP!PopStore) /\ UNCHANGED <<mpc, made>>
    BY <1>5, SameQueue DEF Pop
  <2> QED
    BY <1>1, <1>2, <2>1
<1>6. CASE Destroy
  <2>1. /\ QP!Destroy \/ QP!Deallocate \/ QP!FrontCached \/ QP!FrontLoad \/ QP!PopDestroy \/ QP!PopStore
        /\ UNCHANGED <<mpc, made>>
    BY <1>6, SameQueue DEF Destroy
  <2> QED
    BY <1>1, <1>2, <2>1
<1>7. CASE Run
  BY <1>0, <1>7 DEF Run, Stages
<1>8. CASE CheckRunning \/ Wait \/ ConsumeEvent \/ Dispatch \/ Dispatched \/ Stop \/ Join
  BY <1>8 DEF CheckRunning, Wait, ConsumeEvent, Dispatch, Dispatched, Stop, Join
<1>9. CASE SignalHandler \/ Ended \/ UNCHANGED vars
  BY <1>9 DEF SignalHandler, Ended, vars
<1> QED
  BY <1>3, <1>4, <1>5, <1>6, <1>7, <1>8, <1>9 DEF MainThread

(* The manager's thread is inside try_emplace() exactly when it says so. *)
LEMMA WriterStep == ASSUME IInv, [Next]_vars PROVE Writer'
<1> USE DEF queueVars, histVars
<1>0. Writer
  BY DEF IInv
<1>1. /\ wpc \in {"idle", "load", "construct", "publish"} /\ writeIdx \in QP!Idx
      /\ slots \in [QP!Idx -> (1 .. MaxEvents) \cup {0}]
  BY PartsFacts
<1>2. CASE RunImpl
  <2>1. /\ wpc' \in {"load", "construct"} /\ wop' = "try_emplace" /\ wval' = made + 1
        /\ made' = made + 1 /\ mpc' = "emplace"
    BY <1>2, SameQueue DEF RunImpl, QP!Enter
  <2> QED
    BY <2>1 DEF Writer
<1>3. CASE TryEmplace
  <2>1. mpc = "emplace" /\ wop = "try_emplace" /\ wval = made /\ made' = made
    BY <1>0, <1>3 DEF TryEmplace, Writer
  <2>2. CASE QP!LoadReadIdx
    <3>1. wpc = "load" /\ wpc' \in {"construct", "idle"} /\ UNCHANGED <<wop, wval>>
      BY <2>1, <2>2 DEF QP!LoadReadIdx
    <3>2. mpc' = IF wpc' = "idle" THEN "drop" ELSE "emplace"
      BY <1>3, <3>1 DEF TryEmplace
    <3> QED
      BY <2>1, <3>1, <3>2 DEF Writer
  <2>3. CASE QP!Construct
    <3>1. /\ wpc = "construct" /\ wpc' = "publish" /\ UNCHANGED <<wop, wval, writeIdx>>
          /\ slots' = [slots EXCEPT ![writeIdx] = wval]
      BY <2>3 DEF QP!Construct
    <3>2. mpc' = "emplace"
      BY <1>3, <3>1 DEF TryEmplace
    <3>3. slots'[writeIdx'] = wval'
      BY <1>1, <3>1
    <3> QED
      BY <2>1, <3>1, <3>2, <3>3 DEF Writer
  <2>4. CASE QP!Publish
    <3>1. wpc = "publish" /\ wpc' = "idle"
      BY <2>4 DEF QP!Publish
    <3>2. mpc' = "count"
      BY <1>3, <3>1 DEF TryEmplace
    <3> QED
      BY <3>1, <3>2 DEF Writer
  <2> QED
    BY <1>3, <2>2, <2>3, <2>4, SameQueue DEF TryEmplace
<1>4. CASE CountTx \/ CountDrop \/ Fire \/ ThreadExit
  <2>1. UNCHANGED wpc /\ mpc # "emplace" /\ mpc' # "emplace"
    BY <1>4 DEF CountTx, CountDrop, Fire, ThreadExit
  <2> QED
    BY <1>0, <2>1 DEF Writer
<1>5. CASE MainThread \/ Settle \/ SignalHandler \/ Ended \/ UNCHANGED vars
  <2>1. /\ UNCHANGED <<wpc, wop, wval, writeIdx, made>> /\ (mpc' = "emplace" <=> mpc = "emplace")
        /\ slots' = slots \/ (readIdx # writeIdx /\ slots' = [slots EXCEPT ![readIdx] = 0])
    BY <1>5, WriterLeftAlone
  <2>2. slots'[writeIdx] = slots[writeIdx]
    BY <1>1, <2>1
  <2> QED
    BY <1>0, <2>1, <2>2 DEF Writer
<1> QED
  BY <1>2, <1>3, <1>4, <1>5 DEF Next, ManagerThread

(* The main thread holds a pointer from front() only inside its pop(). *)
LEMMA ReaderStep == ASSUME IInv, [Next]_vars PROVE Reader'
<1> USE DEF queueVars
<1>0. Reader
  BY DEF IInv
<1>1. CASE RunImpl \/ TryEmplace \/ Settle
  <2>1. UNCHANGED <<lpc, rpc>>
    BY <1>1, SameQueue DEF RunImpl, TryEmplace, Settle, QP!Enter, QP!LoadReadIdx, QP!Construct, QP!Publish,
                           QP!WriteIdxSettles, QP!ReadIdxSettles, QP!readerVars
  <2> QED
    BY <1>0, <2>1 DEF Reader
<1>2. CASE \/ CountTx \/ CountDrop \/ Fire \/ ThreadExit \/ Run \/ CheckRunning \/ Wait \/ ConsumeEvent
           \/ Dispatch \/ Dispatched \/ Stop \/ SignalHandler
  <2>1. UNCHANGED rpc /\ (lpc' = lpc \/ (lpc \notin {"pop", "destroy"} /\ lpc' \notin {"pop", "destroy"}))
    BY <1>2 DEF CountTx, CountDrop, Fire, ThreadExit, Run, CheckRunning, Wait, ConsumeEvent, Dispatch,
                Dispatched, Stop, SignalHandler
  <2> QED
    BY <1>0, <2>1 DEF Reader
<1>3. CASE Drain
  <2>1. UNCHANGED rpc /\ lpc = "drain" /\ lpc' \in {"dispatch", "front"}
    BY <1>3, SameQueue DEF Drain, QP!Empty, QP!readerVars
  <2> QED
    BY <1>0, <2>1 DEF Reader
<1>4. CASE Front
  BY <1>4, FrontFinds DEF Reader
<1>5. CASE Pop
  <2>1. \/ rpc' = "store" /\ lpc' = "pop"
        \/ rpc' = "idle" /\ lpc' = "drain"
    BY <1>5, SameQueue DEF Pop, QP!PopDestroy, QP!PopStore
  <2> QED
    BY <2>1 DEF Reader
<1>6. CASE Join
  BY <1>0, <1>6 DEF Reader, Join
<1>7. CASE Destroy
  <2>1. CASE lpc' = "destroy"
    BY <2>1 DEF Reader
  <2>2. CASE lpc' # "destroy"
    <3>1. phase' = "freed" /\ lpc' = "ended"
      BY <1>7, <2>2 DEF Destroy
    <3>2. QP!Deallocate
      BY <1>7, <3>1, SameQueue DEF Destroy, QP!Destroy, QP!FrontCached, QP!FrontLoad, QP!PopDestroy, QP!PopStore
    <3>3. rpc' = "idle"
      BY <3>2 DEF QP!Deallocate, QP!readerVars
    <3> QED
      BY <3>1, <3>3 DEF Reader
  <2> QED
    BY <2>1, <2>2
<1>8. CASE Ended \/ UNCHANGED vars
  BY <1>0, <1>8 DEF Reader, Ended, vars
<1> QED
  BY <1>1, <1>2, <1>3, <1>4, <1>5, <1>6, <1>7, <1>8 DEF Next, ManagerThread, MainThread

(* The threads are inside Fire() and Consume() only where they say so. *)
LEMMA InPipeStep == ASSUME IInv, [Next]_vars PROVE InPipe'
<1> USE DEF pipeVars
<1>0. InPipe /\ (lpc = "start" => mpc = "new")
  BY DEF IInv, Stages
<1>2. CASE Fire
  <2>1. UNCHANGED <<lpc, cpc>> /\ (fpc'[M] # "idle" => mpc' = "fire")
    BY <1>2 DEF Fire, P!FireCheck, P!FireStore, P!FireWrite
  <2> QED
    BY <1>0, <2>1 DEF InPipe
<1>3. CASE ConsumeEvent
  <2>1. UNCHANGED <<mpc, fpc>> /\ (cpc'[M] # "idle" => lpc' = "consume")
    BY <1>3 DEF ConsumeEvent, P!ConsumeCheck, P!ConsumeRead, P!ConsumeReset
  <2> QED
    BY <1>0, <2>1 DEF InPipe
<1>4. CASE \/ ThreadExit \/ RunImpl \/ TryEmplace \/ CountTx \/ CountDrop \/ Run \/ SignalHandler
           \/ CheckRunning \/ Wait \/ Drain \/ Front
  <2>1. /\ UNCHANGED <<fpc, cpc>> /\ (mpc' = mpc \/ mpc # "fire") /\ (lpc' = lpc \/ lpc # "consume")
    BY <1>0, <1>4 DEF ThreadExit, RunImpl, TryEmplace, CountTx, CountDrop, Run, SignalHandler, CheckRunning,
                      Wait, Drain, Front
  <2> QED
    BY <1>0, <2>1 DEF InPipe
<1>5. CASE Pop \/ Dispatch \/ Dispatched \/ Stop \/ Join \/ Destroy \/ Settle \/ Ended \/ UNCHANGED vars
  <2>1. /\ UNCHANGED <<fpc, cpc, mpc>> /\ (lpc' = lpc \/ lpc # "consume")
    BY <1>5 DEF Pop, Dispatch, Dispatched, Stop, Join, Destroy, Settle, Ended, vars
  <2> QED
    BY <1>0, <2>1 DEF InPipe
<1> QED
  BY <1>2, <1>3, <1>4, <1>5 DEF Next, ManagerThread, MainThread

(***************************************************************************)
(* What the loads of the main thread, a store reaching memory and the      *)
(* destructor can do to the visible index.                                 *)
(***************************************************************************)
LEMMA VisibleMoves ==
  ASSUME IInv, MainThread \/ Settle \/ SignalHandler \/ Ended \/ UNCHANGED vars
  PROVE  /\ visW' = visW \/ visW' = writeIdx \/ visW' \in QP!Between(visW, writeIdx)
         /\ mpc' = mpc \/ (mpc = "new" /\ mpc' = "top")
<1> USE DEF queueVars
<1>0. Stages
  BY DEF IInv
<1>1. ASSUME \/ QP!FrontCached \/ QP!FrontLoad \/ QP!PopDestroy \/ QP!PopStore \/ QP!Destroy
             \/ QP!Deallocate \/ QP!WriteIdxSettles \/ QP!ReadIdxSettles \/ \E w : QP!Empty(w)
      PROVE  visW' = visW \/ visW' = writeIdx \/ visW' \in QP!Between(visW, writeIdx)
  BY <1>1 DEF QP!FrontCached, QP!FrontLoad, QP!PopDestroy, QP!PopStore, QP!Destroy, QP!Deallocate,
              QP!WriteIdxSettles, QP!ReadIdxSettles, QP!Empty
<1>2. CASE Drain \/ Front \/ Pop \/ Destroy \/ Settle
  <2>1. /\ \/ QP!FrontCached \/ QP!FrontLoad \/ QP!PopDestroy \/ QP!PopStore \/ QP!Destroy
           \/ QP!Deallocate \/ QP!WriteIdxSettles \/ QP!ReadIdxSettles \/ \E w : QP!Empty(w)
        /\ mpc' = mpc
    BY <1>2, SameQueue DEF Drain, Front, Pop, Destroy, Settle
  <2> QED
    BY <1>1, <2>1
<1>3. CASE Run
  BY <1>0, <1>3 DEF Run, Stages
<1>4. CASE CheckRunning \/ Wait \/ ConsumeEvent \/ Dispatch \/ Dispatched \/ Stop \/ Join
  BY <1>4 DEF CheckRunning, Wait, ConsumeEvent, Dispatch, Dispatched, Stop, Join
<1>5. CASE SignalHandler \/ Ended \/ UNCHANGED vars
  BY <1>5 DEF SignalHandler, Ended, vars
<1> QED
  BY <1>2, <1>3, <1>4, <1>5 DEF MainThread

(* What the manager's thread can do to the indices. *)
LEMMA ManagerMoves ==
  ASSUME ManagerThread
  PROVE  /\ UNCHANGED <<readIdx, lpc>>
         /\ \/ UNCHANGED <<writeIdx, visW>> /\ mpc # "count"
            \/ mpc' = "count" /\ visW' = visW
            \/ mpc = "count" /\ mpc' = "fire" /\ visW' = writeIdx /\ writeIdx' = writeIdx
<1> USE DEF queueVars
<1>1. CASE RunImpl
  BY <1>1, SameQueue DEF RunImpl, QP!Enter, QP!readerVars
<1>2. CASE TryEmplace
  <2>1. CASE QP!LoadReadIdx \/ QP!Construct
    BY <1>2, <2>1 DEF TryEmplace, QP!LoadReadIdx, QP!Construct, QP!readerVars
  <2>2. CASE QP!Publish
    BY <1>2, <2>2 DEF TryEmplace, QP!Publish, QP!readerVars
  <2> QED
    BY <1>2, <2>1, <2>2, SameQueue DEF TryEmplace
<1>3. CASE CountTx
  BY <1>3 DEF CountTx
<1>4. CASE CountDrop \/ Fire \/ ThreadExit
  BY <1>4 DEF CountDrop, Fire, ThreadExit
<1> QED
  BY <1>1, <1>2, <1>3, <1>4 DEF ManagerThread

(* Whatever has been counted is visible. *)
LEMMA BarrierStep == ASSUME IInv, [Next]_vars PROVE mpc' # "count" => visW' = writeIdx'
<1>0. QP!QueueAssumption /\ QP!IInv /\ (mpc # "count" => visW = writeIdx)
  BY QueueAssumed DEF IInv, Visible
<1>1. CASE ManagerThread
  BY <1>0, <1>1, ManagerMoves
<1>2. CASE MainThread \/ Settle \/ SignalHandler \/ Ended \/ UNCHANGED vars
  <2>1. SUFFICES ASSUME mpc' # "count" PROVE visW' = writeIdx'
    OBVIOUS
  <2>2. /\ visW' = visW \/ visW' = writeIdx \/ visW' \in QP!Between(visW, writeIdx)
        /\ mpc # "count" /\ writeIdx' = writeIdx
    BY <1>2, <2>1, VisibleMoves, WriterLeftAlone
  <2>3. visW = writeIdx
    BY <1>0, <2>2
  <2>4. \A w \in QP!Between(visW, writeIdx) : w = writeIdx
    BY <1>0, <2>3, QP!LoadsLast
  <2> QED
    BY <2>2, <2>3, <2>4
<1> QED
  BY <1>1, <1>2 DEF Next

(* An element that empty() has seen stays in sight until front(). *)
LEMMA SeenStep == ASSUME IInv, [Next]_vars PROVE lpc' = "front" => visW' # readIdx'
<1> USE DEF queueVars
<1> SUFFICES ASSUME lpc' = "front" PROVE visW' # readIdx'
  OBVIOUS
<1>0. QP!QueueAssumption /\ QP!IInv /\ (lpc = "front" => visW # readIdx)
  BY QueueAssumed DEF IInv, Visible
<1>1. ASSUME lpc = "front" PROVE visW # readIdx /\ writeIdx # readIdx
  BY <1>0, <1>1, QP!SeenStaysSeen
<1>2. CASE ManagerThread
  <2>1. lpc = "front" /\ readIdx' = readIdx
    BY <1>2, ManagerMoves
  <2>2. visW' = visW \/ visW' = writeIdx
    BY <1>2, ManagerMoves
  <2> QED
    BY <1>1, <2>1, <2>2
<1>3. CASE Drain
  <2>1. PICK w : QP!Empty(w) /\ lpc' = IF w = readIdx THEN "dispatch" ELSE "front"
    BY <1>3, SameQueue DEF Drain
  <2>2. visW' = w /\ readIdx' = readIdx
    BY <2>1 DEF QP!Empty, QP!readerVars
  <2> QED
    BY <2>1, <2>2
<1>4. CASE Settle \/ SignalHandler \/ Ended \/ UNCHANGED vars
  <2>1. UNCHANGED <<lpc, readIdx>> /\ (visW' = visW \/ visW' = writeIdx)
    BY <1>4, SameQueue DEF Settle, SignalHandler, Ended, vars, QP!WriteIdxSettles, QP!ReadIdxSettles,
                           QP!readerVars
  <2> QED
    BY <1>1, <2>1
<1>5. CASE MainThread /\ ~Drain
  BY <1>5, FrontFinds DEF MainThread, Run, CheckRunning, Wait, ConsumeEvent, Front, Pop, Dispatch, Dispatched,
                          Stop, Join, Destroy
<1> QED
  BY <1>2, <1>3, <1>4, <1>5 DEF Next

(* The end of Fire() leaves a byte in the pipe, unless Consume() runs. *)
LEMMA FireLeavesByte == ASSUME IInv, Fire, mpc' # "fire", lpc # "consume" PROVE bytes'[M] > 0
<1>0. /\ bytes[M] \in Nat /\ DOMAIN bytes = {M} /\ DOMAIN fpc = {M} /\ cpc[M] = "idle"
      /\ PP!Quiet(M) \/ PP!Signalled(M)
  BY PartsFacts DEF IInv, InPipe
<1>1. fpc'[M] = "idle"
  BY DEF Fire
<1>2. CASE P!FireCheck(M)
  <2>1. fired[M] /\ fpc[M] = "idle" /\ bytes' = bytes
    BY <1>0, <1>1, <1>2 DEF P!FireCheck
  <2>2. bytes[M] = 1
    BY <1>0, <2>1 DEF PP!Quiet, PP!Signalled
  <2> QED
    BY <2>1, <2>2
<1>3. CASE P!FireStore(M)
  BY <1>0, <1>1, <1>3 DEF P!FireStore
<1>4. CASE P!FireWrite(M)
  <2>1. bytes'[M] = bytes[M] + 1
    BY <1>0, <1>4 DEF P!FireWrite
  <2> QED
    BY <1>0, <2>1
<1> QED
  BY <1>2, <1>3, <1>4 DEF Fire

(***************************************************************************)
(* When the main loop has emptied the queue, or has yet to begin, whatever *)
(* comes into the queue is announced by a byte in the pipe.                *)
(***************************************************************************)
LEMMA AnnouncedStep ==
  ASSUME IInv, [Next]_vars, lpc' \in {"start", "dispatch", "loop", "wait"},
         mpc' \notin {"count", "fire"}, writeIdx' # readIdx'
  PROVE  bytes'[M] > 0
<1> USE DEF queueVars, pipeVars
<1>0. Visible /\ Stages
  BY DEF IInv
<1>1. ASSUME lpc \in {"start", "dispatch", "loop", "wait"}, mpc \notin {"count", "fire"},
             UNCHANGED <<writeIdx, readIdx, bytes>>
      PROVE  bytes'[M] > 0
  BY <1>0, <1>1 DEF Visible
<1>2. CASE ManagerThread
  <2>1. CASE Fire
    <3>1. lpc # "consume"
      BY <2>1 DEF Fire
    <3> QED
      BY <2>1, <3>1, FireLeavesByte
  <2>2. CASE RunImpl \/ TryEmplace \/ CountDrop \/ ThreadExit
    <3>1. mpc \notin {"count", "fire"} /\ bytes' = bytes
      BY <2>2 DEF RunImpl, TryEmplace, CountDrop, ThreadExit
    <3>2. UNCHANGED <<writeIdx, readIdx, lpc>>
      BY <1>2, <3>1, ManagerMoves
    <3> QED
      BY <1>1, <3>1, <3>2
  <2>3. CASE CountTx
    BY <2>3 DEF CountTx
  <2> QED
    BY <1>2, <2>1, <2>2, <2>3 DEF ManagerThread
<1>3. CASE Drain
  <2>1. PICK w : QP!Empty(w) /\ lpc' = IF w = readIdx THEN "dispatch" ELSE "front"
    BY <1>3, SameQueue DEF Drain
  <2>2. w \in QP!Between(visW, writeIdx) /\ w = readIdx /\ readIdx' = readIdx /\ writeIdx' = writeIdx
    BY <2>1 DEF QP!Empty, QP!readerVars, QP!writerVars
  <2>3. mpc # "count"
    BY <1>3 DEF Drain
  <2>4. QP!QueueAssumption /\ QP!IInv /\ visW = writeIdx
    BY <1>0, <2>3, QueueAssumed DEF Visible, IInv
  <2>5. w = writeIdx
    BY <2>2, <2>4, QP!LoadsLast
  <2> QED
    BY <2>2, <2>5
<1>4. CASE Run \/ CheckRunning \/ Wait \/ Dispatch \/ Dispatched \/ SignalHandler \/ Ended \/ UNCHANGED vars
  <2>1. /\ lpc \in {"start", "dispatch", "loop", "wait"} /\ mpc \notin {"count", "fire"}
        /\ UNCHANGED <<writeIdx, readIdx, bytes>>
    BY <1>0, <1>4 DEF Stages, Run, CheckRunning, Wait, Dispatch, Dispatched, SignalHandler, Ended, vars
  <2> QED
    BY <1>1, <2>1
<1>5. CASE Settle
  <2>1. UNCHANGED <<lpc, mpc, writeIdx, readIdx, bytes>>
    BY <1>5, SameQueue DEF Settle, QP!WriteIdxSettles, QP!ReadIdxSettles, QP!readerVars, QP!writerVars
  <2> QED
    BY <1>1, <2>1
<1>6. CASE ConsumeEvent \/ Front \/ Pop \/ Stop \/ Join \/ Destroy
  BY <1>6, FrontFinds DEF ConsumeEvent, Front, Pop, Stop, Join, Destroy
<1> QED
  BY <1>2, <1>3, <1>4, <1>5, <1>6 DEF Next, MainThread

(* The three together. *)
LEMMA VisibleStep == ASSUME IInv, [Next]_vars PROVE Visible'
  BY BarrierStep, SeenStep, AnnouncedStep DEF Visible
-----------------------------------------------------------------------------
(* The program starts in a state that satisfies the inductive invariant. *)
LEMMA InitIInv == ASSUME Init PROVE IInv
<1>1. QP!Init /\ PP!Init
  BY DEF Init, Q!Init, QP!Init, P!Init, PP!Init, Q!Idx, QP!Idx, Q!capacity_, QP!capacity_
<1>2. QP!IInv
  BY <1>1, QueueAssumed, QP!InitIInv
<1>3. PP!IInv
  BY <1>1, PipeAssumed, PP!InitIInv
<1>4. QP!Elements = << >>
  <2>1. QP!Dist(readIdx, writeIdx) - QP!Vacated = 0
    BY <1>1 DEF QP!Init, QP!Dist, QP!Vacated
  <2> QED
    BY <2>1 DEF QP!Elements
<1>5. Shape
  BY ChannelAssumption DEF Init, Shape
<1>6. Writer /\ Reader /\ Stages
  BY <1>1 DEF Init, QP!Init, Writer, Reader, Stages
<1>7. InPipe
  BY <1>1 DEF PP!Init, InPipe
<1>8. Visible
  BY <1>1 DEF Init, QP!Init, Visible
<1>9. Once
  <2>1. /\ received = << >> /\ batch = << >> /\ dropped = {} /\ made = 0 /\ mpc = "new"
    BY DEF Init
  <2>2. ~\E n : Passed(n)
    BY SameEvents, <1>4, <2>1, PP!EmptyIncreasing DEF Passed
  <2>3. /\ PP!Increasing(received) /\ PP!Increasing(batch) /\ PP!Increasing(QP!Elements)
        /\ Below(Range(received), Range(batch)) /\ Below(Range(received), Range(QP!Elements))
        /\ Below(Range(batch), Range(QP!Elements))
    BY SameEvents, <1>4, <2>1, PP!EmptyIncreasing DEF Below
  <2> QED
    BY <2>1, <2>2, <2>3 DEF Once
<1>10. Counts
  <2>1. Size(batch) = 0 /\ Size(QP!Elements) = 0
    BY <1>4 DEF Init, Size
  <2> QED
    BY <2>1 DEF Init, Counts, Uncounted, Undecided
<1> QED
  BY <1>2, <1>3, <1>5, <1>6, <1>7, <1>8, <1>9, <1>10 DEF IInv

(* Every step preserves the inductive invariant. *)
LEMMA NextIInv == ASSUME IInv, [Next]_vars PROVE IInv'
  BY PartsStep, ShapeStep, WriterStep, ReaderStep, InPipeStep, StagesStep, VisibleStep, OnceStep, CountsStep
     DEF IInv

(***************************************************************************)
(* The inductive invariant holds in every reachable state, whatever the    *)
(* capacities, the number of events and the staleness of the loads.        *)
(***************************************************************************)
THEOREM InductiveInvariant == Spec => []IInv
  BY InitIInv, NextIInv, PTL DEF Spec
-----------------------------------------------------------------------------
(***************************************************************************)
(* The main loop never goes to sleep over an event: if the queue holds one *)
(* and the manager's thread is past its Fire(), epoll_wait() returns.      *)
(***************************************************************************)
THEOREM WakeupNeverLost == Spec => []NoLostWakeup
<1>1. IInv => NoLostWakeup
  BY DEF IInv, Visible, NoLostWakeup, P!Readable
<1> QED
  BY <1>1, InductiveInvariant, PTL

(* In a state that satisfies the invariant every variable has its type. *)
LEMMA TypesOfIInv == ASSUME IInv PROVE TypeOK
<1>1. Shape /\ Once /\ QP!TypeOK /\ PP!TypeOK
  BY DEF IInv, QP!IInv, PP!IInv
<1>2. Q!TypeOK /\ P!TypeOK
  BY <1>1 DEF Q!TypeOK, QP!TypeOK, P!TypeOK, PP!TypeOK, Q!Idx, QP!Idx, Q!capacity_, QP!capacity_
<1>3. 1 .. made \subseteq 1 .. MaxEvents
  BY <1>1, ChannelAssumption DEF Shape
<1>4. Range(received) \subseteq 1 .. MaxEvents /\ Range(batch) \subseteq 1 .. MaxEvents
  BY <1>1, <1>3 DEF Once, Passed
<1>5. received \in Seq(1 .. MaxEvents) /\ batch \in Seq(1 .. MaxEvents)
  BY SameEvents, <1>1, <1>4, PP!SeqOverRange DEF Shape
<1>6. dropped \in SUBSET (1 .. MaxEvents) /\ made \in 0 .. MaxEvents
  BY <1>1, <1>3, ChannelAssumption DEF Shape, Once
<1> QED
  BY <1>1, <1>2, <1>5, <1>6 DEF TypeOK, Threads, Shape

(* In such a state every event is in one place and the order is kept. *)
LEMMA PlacesOfIInv == ASSUME IInv PROVE EachEventOnce
<1>1. Shape /\ Once
  BY DEF IInv
<1>2. QP!Elements \in Seq(Nat) /\ Q!Elements = QP!Elements
  BY PartsFacts, SameQueue
<1>3. /\ received \o batch \in Seq(Nat)
      /\ Range(received \o batch) = Range(received) \cup Range(batch)
      /\ PP!Increasing(received \o batch)
  <2>1. /\ received \in Seq(Nat) /\ batch \in Seq(Nat) /\ PP!Increasing(received) /\ PP!Increasing(batch)
        /\ \A x \in Range(received), y \in Range(batch) : x < y
    BY <1>1 DEF Shape, Once, Below
  <2> QED
    BY SameEvents, <2>1, PP!ConcatIncreasing
<1>4. /\ Pipeline \in Seq(Nat)
      /\ Range(Pipeline) = Range(received) \cup Range(batch) \cup Range(QP!Elements)
      /\ PP!Increasing(Pipeline)
  <2>1. Pipeline = (received \o batch) \o QP!Elements
    BY <1>2 DEF Pipeline
  <2>2. /\ received \o batch \in Seq(Nat) /\ QP!Elements \in Seq(Nat)
        /\ PP!Increasing(received \o batch) /\ PP!Increasing(QP!Elements)
        /\ \A x \in Range(received \o batch), y \in Range(QP!Elements) : x < y
    BY <1>1, <1>2, <1>3 DEF Once, Below
  <2>3. /\ (received \o batch) \o QP!Elements \in Seq(Nat)
        /\ Range((received \o batch) \o QP!Elements) = Range(received \o batch) \cup Range(QP!Elements)
        /\ PP!Increasing((received \o batch) \o QP!Elements)
    <3>1. PICK s : s = received \o batch
      OBVIOUS
    <3>2. PICK t : t = QP!Elements
      OBVIOUS
    <3>3. /\ s \in Seq(Nat) /\ t \in Seq(Nat) /\ PP!Increasing(s) /\ PP!Increasing(t)
          /\ \A x \in Range(s), y \in Range(t) : x < y
      BY <2>2, <3>1, <3>2
    <3>4. s \o t \in Seq(Nat) /\ Range(s \o t) = Range(s) \cup Range(t) /\ PP!Increasing(s \o t)
      BY SameEvents, <3>3, PP!ConcatIncreasing
    <3> QED
      BY <3>1, <3>2, <3>4
  <2> QED
    BY <1>3, <2>1, <2>3
<1>5. DOMAIN Pipeline = 1 .. Len(Pipeline)
  BY <1>4, LenProperties
<1>6. \A i, j \in 1 .. Len(Pipeline) : i < j => Pipeline[i] < Pipeline[j]
  BY <1>4, <1>5 DEF PP!Increasing
<1> DEFINE passed == {Pipeline[i] : i \in 1 .. Len(Pipeline)}
           inHand == IF mpc \in {"emplace", "drop"} THEN {made} ELSE {}
<1>7. \A n : n \in passed <=> Passed(n)
  BY <1>4, <1>5 DEF Range, Passed
<1>8. \A n : n \in inHand <=> InHand(n)
  BY DEF InHand
<1>9. passed \subseteq 1 .. made /\ dropped \subseteq 1 .. made /\ inHand \subseteq 1 .. made
  BY <1>1, <1>7 DEF Once, Shape
<1>10. dropped \cap passed = {} /\ inHand \cap (passed \cup dropped) = {}
  BY <1>1, <1>7, <1>8 DEF Once, InHand
<1>11. phase = "alive" => 1 .. made = passed \cup dropped \cup inHand
  <2> HIDE DEF passed, inHand
  <2> QED
    BY <1>1, <1>7, <1>8, <1>9 DEF Once
<1> QED
  BY <1>6, <1>10, <1>11 DEF EachEventOnce

(* In such a state the counters agree with the events. *)
LEMMA CountersOfIInv == ASSUME IInv PROVE CountersAgree
<1>1. Shape /\ Counts /\ QP!Elements \in Seq(Nat)
  BY PartsFacts DEF IInv
<1>2. Size(batch) \in Nat /\ Size(QP!Elements) \in Nat
  BY <1>1, LenProperties DEF Shape, Size
<1> QED
  BY <1>1, <1>2 DEF Shape, Counts, CountersAgree, Uncounted, Undecided

(* In such a state the queue has been used as it asks. *)
LEMMA ContractOfIInv == ASSUME IInv PROVE QueueContract
<1>1. QP!NoSlotRace /\ QP!PopAssert /\ QP!NothingLeaks
  BY QueueAssumed, QP!SafetyOfIInv DEF IInv
<1>2. Q!NoSlotRace /\ Q!PopAssert /\ Q!NothingLeaks
  BY <1>1 DEF Q!NoSlotRace, QP!NoSlotRace, Q!PopAssert, QP!PopAssert, Q!NothingLeaks, QP!NothingLeaks,
              Q!Between, QP!Between, Q!Dist, QP!Dist, Q!Idx, QP!Idx, Q!capacity_, QP!capacity_
<1> QED
  BY <1>2 DEF QueueContract, IInv, Stages

(***************************************************************************)
(* No event is lost, duplicated or overtaken between the manager's thread  *)
(* and Consume(), the counters say what happened, and the queue is never   *)
(* misused, neither while the loop runs nor while the program ends.        *)
(***************************************************************************)
THEOREM AllEventsAccounted == Spec => []EventsAccounted
<1>1. IInv => EventsAccounted
  BY TypesOfIInv, PlacesOfIInv, CountersOfIInv, ContractOfIInv DEF EventsAccounted
<1> QED
  BY <1>1, InductiveInvariant, PTL

(***************************************************************************)
(* The threads use queue and pipe as the two modules describe their use,   *)
(* so all that is proved of them holds in app11.                           *)
(***************************************************************************)
THEOREM UsesItsParts == Spec => QP!Spec /\ PP!Spec
<1>1. Init => QP!Init /\ PP!Init
  BY DEF Init, Q!Init, QP!Init, P!Init, PP!Init, Q!Idx, QP!Idx, Q!capacity_, QP!capacity_
<1>2. IInv /\ [Next]_vars => [QP!Next]_(QP!vars) /\ [PP!Next]_(PP!vars)
  BY QueueStep, PipeStep DEF IInv
<1> QED
  BY <1>1, <1>2, InductiveInvariant, PTL DEF Spec, QP!Spec, PP!Spec

(* In particular txQueue is a bounded FIFO between the two threads. *)
THEOREM ChannelIsFifo == Spec => QP!ImplementsFifo
  BY UsesItsParts, QueueAssumed, QP!QueueIsFifo, PTL

=============================================================================
