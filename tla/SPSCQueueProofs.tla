-------------------------- MODULE SPSCQueueProofs --------------------------
(***************************************************************************)
(* The safety of SPSCQueue, proved for every capacity, every set of        *)
(* elements and every allowed staleness of the index loads.                *)
(***************************************************************************)
EXTENDS SPSCQueue, Sequences, SequenceTheorems, TLAPS

(***************************************************************************)
(* The inductive invariant.  Going round the ring from the writer's copy   *)
(* of readIdx_, one meets the six indices in the order in which the        *)
(* threads may know them, and never gets all the way round.                *)
(***************************************************************************)
RingOrder == /\ Dist(readIdxCache, visR) + Dist(visR, readIdx) + Dist(readIdx, writeIdxCache)
                  + Dist(writeIdxCache, visW) + Dist(visW, writeIdx) <= capacity_ - 1

(***************************************************************************)
(* A writer past its check has a free slot; a reader with a pointer has an *)
(* element that its own copy of writeIdx_ vouches for.                     *)
(***************************************************************************)
Permits == /\ wpc \in {"construct", "publish"} => NextIdx(writeIdx) # readIdxCache
           /\ rpc \in {"holding", "store"} => readIdx # writeIdxCache
           /\ wpc # "idle" => wval \in Values

(***************************************************************************)
(* The slots that hold an object are those from readIdx_ up to writeIdx_,  *)
(* but for the one being vacated, and the one filled but not published.    *)
(***************************************************************************)
Live(i) == \/ Dist(readIdx, i) < Dist(readIdx, writeIdx) /\ ~(rpc = "store" /\ i = readIdx)
           \/ wpc = "publish" /\ i = writeIdx

SlotsLive == \A i \in Idx : IF Live(i) THEN slots[i] \in Values ELSE slots[i] = None

Lifetime == /\ phase # "alive" => wpc = "idle" /\ visW = writeIdx
            /\ phase = "freed" => rpc = "idle" /\ readIdx = writeIdx

IInv == TypeOK /\ RingOrder /\ Permits /\ SlotsLive /\ Lifetime
-----------------------------------------------------------------------------
(***************************************************************************)
(* The constructor leaves room for at least one element and the slack one. *)
(***************************************************************************)
LEMMA CapacityBound == capacity_ \in Nat /\ capacity_ >= 2
  BY QueueAssumption DEF capacity_

(***************************************************************************)
(* Arithmetic on the ring: the distance of two indices is itself less than *)
(* capacity_.                                                              *)
(***************************************************************************)
LEMMA DistType == \A a, b \in Idx : Dist(a, b) \in Idx
  BY CapacityBound DEF Dist, Idx

(* The next index is an index. *)
LEMMA NextIdxType == \A a \in Idx : NextIdx(a) \in Idx
  BY CapacityBound DEF NextIdx, Idx

(* No steps lead from an index to itself, and only to itself. *)
LEMMA DistZero == \A a, b \in Idx : (Dist(a, b) = 0) <=> (a = b)
  BY CapacityBound DEF Dist, Idx

(***************************************************************************)
(* A value between a and b splits the way from a to b in two.              *)
(***************************************************************************)
LEMMA DistSplit == \A a, b \in Idx : \A m \in Between(a, b) :
                      m \in Idx /\ Dist(a, m) + Dist(m, b) = Dist(a, b)
  BY CapacityBound DEF Dist, Between, Idx

-----------------------------------------------------------------------------
(* The empty queue of the constructor satisfies the inductive invariant. *)
LEMMA InitIInv == Init => IInv
  BY CapacityBound DEF Init, IInv, TypeOK, RingOrder, Permits, SlotsLive, Live, Lifetime, Dist, Idx

(***************************************************************************)
(* The writer's steps.  Entering emplace() or try_emplace(), with the check *)
(* against readIdxCache_, preserves the invariant.                         *)
(***************************************************************************)
LEMMA EnterIInv == ASSUME IInv, NEW op \in {"try_emplace", "emplace"}, NEW v \in Values, Enter(op, v)
                   PROVE  IInv'
<1> USE DEF IInv, Enter, readerVars
<1>1. TypeOK'
  BY DEF TypeOK
<1>2. RingOrder'
  BY DEF RingOrder, Dist
<1>3. Permits'
  BY DEF Permits, NextIdx
<1>4. SlotsLive'
  BY DEF SlotsLive, Live, Dist
<1>5. Lifetime'
  BY DEF Lifetime
<1> QED  BY <1>1, <1>2, <1>3, <1>4, <1>5

(* Refreshing readIdxCache_ with any value the load may return preserves it. *)
LEMMA LoadReadIdxIInv == ASSUME IInv, LoadReadIdx
                         PROVE  IInv'
<1> USE DEF IInv
<1>1. PICK r \in Between(visR, readIdx) : /\ visR' = r /\ readIdxCache' = r
                                          /\ wpc' \in {"construct", "load", "idle"}
                                          /\ wpc' = "construct" => NextIdx(writeIdx) # r
  BY DEF LoadReadIdx, TypeOK
<1>2. UNCHANGED <<writeIdx, wop, wval, readIdx, writeIdxCache, rpc, taken, visW, slots, phase>> /\ wpc = "load"
  BY DEF LoadReadIdx, readerVars
<1>3. r \in Idx /\ Dist(visR, r) + Dist(r, readIdx) = Dist(visR, readIdx)
  BY DistSplit DEF TypeOK
<1>4. TypeOK'
  BY <1>1, <1>2, <1>3 DEF TypeOK
<1>5. RingOrder'
  <2>1. Dist(r, r) = 0
    BY <1>3, DistZero
  <2>2. /\ Dist(visR, r) >= 0 /\ Dist(readIdxCache, visR) >= 0
        /\ Dist(visR, r) \in Int /\ Dist(readIdxCache, visR) \in Int
        /\ Dist(r, readIdx) \in Int
    BY <1>3, DistType DEF TypeOK, Idx
  <2>3. /\ Dist(readIdx, writeIdxCache) \in Int /\ Dist(writeIdxCache, visW) \in Int
        /\ Dist(visW, writeIdx) \in Int
    BY DistType DEF TypeOK, Idx
  <2>4. /\ Dist(readIdxCache, visR)' = Dist(r, r) /\ Dist(visR, readIdx)' = Dist(r, readIdx)
        /\ Dist(readIdx, writeIdxCache)' = Dist(readIdx, writeIdxCache)
        /\ Dist(writeIdxCache, visW)' = Dist(writeIdxCache, visW)
        /\ Dist(visW, writeIdx)' = Dist(visW, writeIdx)
    BY <1>1, <1>2 DEF Dist
  <2> QED  BY <1>3, <2>1, <2>2, <2>3, <2>4, CapacityBound DEF RingOrder
<1>6. Permits'
  BY <1>1, <1>2 DEF Permits, NextIdx
<1>7. SlotsLive'
  BY <1>1, <1>2 DEF SlotsLive, Live, Dist
<1>8. Lifetime'
  BY <1>1, <1>2 DEF Lifetime
<1> QED  BY <1>4, <1>5, <1>6, <1>7, <1>8

(* Constructing the element in its slot preserves it. *)
LEMMA ConstructIInv == ASSUME IInv, Construct
                       PROVE  IInv'
<1> USE DEF IInv, Construct, readerVars
<1>1. TypeOK'
  BY DEF TypeOK, Permits
<1>2. RingOrder'
  BY DEF RingOrder, Dist
<1>3. Permits'
  BY DEF Permits, NextIdx
<1>4. SlotsLive'
  BY DEF SlotsLive, Live, Dist, Permits, TypeOK
<1>5. Lifetime'
  BY DEF Lifetime
<1> QED  BY <1>1, <1>2, <1>3, <1>4, <1>5

(* The release store of writeIdx_ preserves it. *)
LEMMA PublishIInv == ASSUME IInv, Publish
                     PROVE  IInv'
<1> USE DEF IInv, Publish, readerVars
<1>1. TypeOK'
  BY NextIdxType DEF TypeOK
<1>2. RingOrder'
  BY CapacityBound DEF RingOrder, Dist, Permits, TypeOK, NextIdx, Idx
<1>3. Permits'
  BY DEF Permits
<1>4. SlotsLive'
  BY CapacityBound DEF SlotsLive, Live, Dist, Permits, TypeOK, NextIdx, Idx, RingOrder
<1>5. Lifetime'
  BY DEF Lifetime, TypeOK
<1> QED  BY <1>1, <1>2, <1>3, <1>4, <1>5

(***************************************************************************)
(* The reader's steps.  empty() preserves the invariant whichever value it *)
(* loads from writeIdx_.                                                   *)
(***************************************************************************)
LEMMA EmptyIInv == ASSUME IInv, NEW w \in Idx, Empty(w)
                   PROVE  IInv'
<1> USE DEF IInv, Empty, writerVars, readerVars
<1>1. Dist(visW, w) + Dist(w, writeIdx) = Dist(visW, writeIdx)
  BY DistSplit DEF TypeOK
<1>2. TypeOK'
  BY DEF TypeOK
<1>3. RingOrder'
  BY <1>1, CapacityBound DEF RingOrder, Dist, TypeOK, Idx
<1>4. Permits'
  BY DEF Permits, NextIdx
<1>5. SlotsLive'
  BY DEF SlotsLive, Live, Dist
<1>6. Lifetime'
  BY <1>1, CapacityBound DEF Lifetime, TypeOK, Dist, Idx
<1> QED  BY <1>2, <1>3, <1>4, <1>5, <1>6

(* front() with a cached writeIdx_ preserves it. *)
LEMMA FrontCachedIInv == ASSUME IInv, FrontCached
                         PROVE  IInv'
<1> USE DEF IInv, FrontCached, writerVars
<1>1. TypeOK'
  BY DEF TypeOK
<1>2. RingOrder'
  BY DEF RingOrder, Dist
<1>3. Permits'
  BY DEF Permits, NextIdx
<1>4. SlotsLive'
  BY DEF SlotsLive, Live, Dist
<1>5. Lifetime'
  BY DEF Lifetime
<1> QED  BY <1>1, <1>2, <1>3, <1>4, <1>5

(* front() with a fresh load of writeIdx_, however old, preserves it. *)
LEMMA FrontLoadIInv == ASSUME IInv, FrontLoad
                       PROVE  IInv'
<1> USE DEF IInv
<1>1. PICK w \in Between(visW, writeIdx) : /\ visW' = w /\ writeIdxCache' = w
                                           /\ rpc' = IF w = readIdx THEN "idle" ELSE "holding"
  BY DEF FrontLoad
<1>2. /\ phase # "freed" /\ rpc = "idle" /\ readIdx = writeIdxCache
      /\ UNCHANGED <<writeIdx, readIdxCache, wpc, wop, wval, readIdx, taken, visR, slots, phase>>
  BY DEF FrontLoad, writerVars
<1>3. w \in Idx /\ Dist(visW, w) + Dist(w, writeIdx) = Dist(visW, writeIdx)
  BY DistSplit DEF TypeOK
<1>4. TypeOK'
  BY <1>1, <1>2, <1>3 DEF TypeOK
<1>5. RingOrder'
  BY <1>1, <1>2, <1>3, CapacityBound DEF RingOrder, Dist, TypeOK, Idx
<1>6. Permits'
  BY <1>1, <1>2 DEF Permits, NextIdx
<1>7. SlotsLive'
  BY <1>1, <1>2 DEF SlotsLive, Live, Dist
<1>8. Lifetime'
  BY <1>1, <1>2, <1>3, CapacityBound DEF Lifetime, TypeOK, Dist, Idx
<1> QED  BY <1>4, <1>5, <1>6, <1>7, <1>8

(* Destroying the object in pop() preserves it. *)
LEMMA PopDestroyIInv == ASSUME IInv, PopDestroy
                        PROVE  IInv'
<1> USE DEF IInv, PopDestroy, writerVars
<1>1. TypeOK'
  BY DEF TypeOK
<1>2. RingOrder'
  BY DEF RingOrder, Dist
<1>3. Permits'
  BY DEF Permits, NextIdx
<1>4. SlotsLive'
  BY CapacityBound DEF SlotsLive, Live, Dist, Permits, TypeOK, RingOrder, NextIdx, Idx
<1>5. Lifetime'
  BY DEF Lifetime
<1> QED  BY <1>1, <1>2, <1>3, <1>4, <1>5

(* The release store of readIdx_ in pop() preserves it. *)
LEMMA PopStoreIInv == ASSUME IInv, PopStore
                      PROVE  IInv'
<1> USE DEF IInv, PopStore, writerVars
<1>1. TypeOK'
  BY NextIdxType DEF TypeOK
<1>2. RingOrder'
  BY CapacityBound DEF RingOrder, Dist, Permits, TypeOK, NextIdx, Idx
<1>3. Permits'
  BY DEF Permits, NextIdx
<1>4. SlotsLive'
  BY CapacityBound DEF SlotsLive, Live, Dist, Permits, TypeOK, RingOrder, NextIdx, Idx
<1>5. Lifetime'
  BY DEF Lifetime
<1> QED  BY <1>1, <1>2, <1>3, <1>4, <1>5

(***************************************************************************)
(* Stores becoming visible, and the destructor.  That later loads return   *)
(* newer values preserves the invariant.                                   *)
(***************************************************************************)
LEMMA SettleIInv == ASSUME IInv, WriteIdxSettles \/ ReadIdxSettles
                    PROVE  IInv'
<1> USE DEF IInv, WriteIdxSettles, ReadIdxSettles, writerVars, readerVars
<1>1. TypeOK'
  BY DEF TypeOK
<1>2. RingOrder'
  <2>1. CASE WriteIdxSettles
    BY <2>1, CapacityBound DEF RingOrder, Dist, TypeOK, Idx
  <2>2. CASE ReadIdxSettles
    BY <2>2, CapacityBound DEF RingOrder, Dist, TypeOK, Idx
  <2> QED  BY <2>1, <2>2
<1>3. Permits'
  BY DEF Permits, NextIdx
<1>4. SlotsLive'
  BY DEF SlotsLive, Live, Dist
<1>5. Lifetime'
  BY DEF Lifetime
<1> QED  BY <1>1, <1>2, <1>3, <1>4, <1>5

(* Entering the destructor preserves it. *)
LEMMA DestroyIInv == ASSUME IInv, Destroy
                     PROVE  IInv'
<1> USE DEF IInv, Destroy, writerVars
<1>1. TypeOK'
  BY DEF TypeOK
<1>2. RingOrder'
  BY CapacityBound DEF RingOrder, Dist, TypeOK, Idx
<1>3. Permits'
  BY DEF Permits, NextIdx
<1>4. SlotsLive'
  BY DEF SlotsLive, Live, Dist
<1>5. Lifetime'
  BY DEF Lifetime
<1> QED  BY <1>1, <1>2, <1>3, <1>4, <1>5

(* Deallocating the slots preserves it. *)
LEMMA DeallocateIInv == ASSUME IInv, Deallocate
                        PROVE  IInv'
<1> USE DEF IInv, Deallocate, writerVars, readerVars
<1>1. TypeOK'
  BY DEF TypeOK
<1>2. RingOrder'
  BY DEF RingOrder, Dist
<1>3. Permits'
  BY DEF Permits, NextIdx
<1>4. SlotsLive'
  BY DEF SlotsLive, Live, Dist
<1>5. Lifetime'
  BY DEF Lifetime
<1> QED  BY <1>1, <1>2, <1>3, <1>4, <1>5

(* A stuttering step preserves it. *)
LEMMA StutterIInv == ASSUME IInv, UNCHANGED vars
                     PROVE  IInv'
  BY DEF IInv, TypeOK, RingOrder, Permits, SlotsLive, Live, Lifetime, Dist, NextIdx,
         vars, writerVars, readerVars

(* Every step of the writer, the reader, the memory and the destructor. *)
LEMMA NextIInv == ASSUME IInv, [Next]_vars
                  PROVE  IInv'
<1>1. ASSUME NEW v \in Values, Enter("try_emplace", v) \/ Enter("emplace", v)
      PROVE  IInv'
  BY <1>1, EnterIInv
<1>2. CASE LoadReadIdx
  BY <1>2, LoadReadIdxIInv
<1>3. CASE Construct
  BY <1>3, ConstructIInv
<1>4. CASE Publish
  BY <1>4, PublishIInv
<1>5. ASSUME NEW w \in Idx, Empty(w)
      PROVE  IInv'
  BY <1>5, EmptyIInv
<1>6. CASE FrontCached
  BY <1>6, FrontCachedIInv
<1>7. CASE FrontLoad
  BY <1>7, FrontLoadIInv
<1>8. CASE PopDestroy
  BY <1>8, PopDestroyIInv
<1>9. CASE PopStore
  BY <1>9, PopStoreIInv
<1>10. CASE WriteIdxSettles \/ ReadIdxSettles
  BY <1>10, SettleIInv
<1>11. CASE Destroy
  BY <1>11, DestroyIInv
<1>12. CASE Deallocate
  BY <1>12, DeallocateIInv
<1>13. CASE UNCHANGED vars
  BY <1>13, StutterIInv
<1> QED  BY <1>1, <1>2, <1>3, <1>4, <1>5, <1>6, <1>7, <1>8, <1>9, <1>10, <1>11, <1>12, <1>13
         DEF Next, Write, Read

(***************************************************************************)
(* The invariant that explains the queue: it holds in every behaviour of   *)
(* the writer, the reader, the memory and the destructor.                  *)
(***************************************************************************)
THEOREM InductiveInvariant == Spec => []IInv
  BY InitIInv, NextIInv, PTL DEF Spec
-----------------------------------------------------------------------------
(* What the inductive invariant says of a single state. *)
LEMMA SafetyOfIInv == IInv => NoSlotRace /\ PopAssert /\ NothingLeaks
<1>1. IInv => NoSlotRace
  BY CapacityBound DEF IInv, NoSlotRace, SlotsLive, Live, RingOrder, Permits, TypeOK, Dist, Idx
<1>2. IInv => PopAssert
  BY CapacityBound DEF IInv, PopAssert, SlotsLive, Live, RingOrder, Permits, TypeOK, Dist, Idx, Between
<1>3. IInv => NothingLeaks
  BY CapacityBound DEF IInv, NothingLeaks, SlotsLive, Live, Lifetime, TypeOK, Dist, Idx
<1> QED
  BY <1>1, <1>2, <1>3

(***************************************************************************)
(* The properties of the runs.  First, every variable keeps its type; in   *)
(* particular no index leaves the ring.                                    *)
(***************************************************************************)
THEOREM TypeCorrect == Spec => []TypeOK
  BY InductiveInvariant, PTL DEF IInv

(***************************************************************************)
(* Writer and reader never meet in a slot, and the writer constructs only  *)
(* where no object is.                                                     *)
(***************************************************************************)
THEOREM SlotsNotShared == Spec => []NoSlotRace
  BY InductiveInvariant, SafetyOfIInv, PTL

(***************************************************************************)
(* pop()'s assert holds, however stale the value it loads, and the pointer *)
(* front() returned is to an object.                                       *)
(***************************************************************************)
THEOREM PopAssertHolds == Spec => []PopAssert
  BY InductiveInvariant, SafetyOfIInv, PTL

(***************************************************************************)
(* The destructor destroys every object before it deallocates.             *)
(***************************************************************************)
THEOREM NoLeak == Spec => []NothingLeaks
  BY InductiveInvariant, SafetyOfIInv, PTL
-----------------------------------------------------------------------------
(***************************************************************************)
(* Refinement.  A function on an initial segment of Nat is a sequence of   *)
(* that length.                                                            *)
(***************************************************************************)
LEMMA FunctionIsSeq == ASSUME NEW S, NEW n \in Nat, NEW f \in [1 .. n -> S]
                       PROVE  f \in Seq(S) /\ Len(f) = n
<1>1. f \in Seq(S)
  BY SeqDef
<1>2. Len(f) \in Nat /\ DOMAIN f = 1 .. Len(f)
  BY <1>1, LenProperties
<1>3. 1 .. n = 1 .. Len(f)
  BY <1>2
<1> QED  BY <1>1, <1>2, <1>3

(* Sequences of the same length with the same elements are equal. *)
LEMMA SameSeq == ASSUME NEW S, NEW n \in Nat, NEW s \in [1 .. n -> S], NEW t \in [1 .. n -> S],
                        \A i \in 1 .. n : t[i] = s[i]
                 PROVE  t = s
<1>1. s \in Seq(S) /\ Len(s) = n /\ t \in Seq(S) /\ Len(t) = n
  BY FunctionIsSeq
<1> QED  BY <1>1, SeqEqual

(* A sequence one longer that agrees with s up to its end is s with an element appended. *)
LEMMA IsAppend == ASSUME NEW S, NEW n \in Nat, NEW s \in [1 .. n -> S], NEW t \in [1 .. n + 1 -> S],
                         \A i \in 1 .. n : t[i] = s[i]
                  PROVE  t = Append(s, t[n + 1])
<1>1. s \in Seq(S) /\ Len(s) = n /\ t \in Seq(S) /\ Len(t) = n + 1 /\ t[n + 1] \in S
  BY FunctionIsSeq
<1> QED  BY <1>1

(* A sequence one shorter that is s shifted by one is the tail of s. *)
LEMMA IsTail == ASSUME NEW S, NEW n \in Nat \ {0}, NEW s \in [1 .. n -> S], NEW t \in [1 .. n - 1 -> S],
                       \A i \in 1 .. n - 1 : t[i] = s[i + 1]
                PROVE  s # << >> /\ Head(s) = s[1] /\ t = Tail(s)
<1>1. s \in Seq(S) /\ Len(s) = n /\ t \in Seq(S) /\ Len(t) = n - 1
  BY FunctionIsSeq
<1>2. s # << >>
  BY <1>1, EmptySeq
<1>3. Tail(s) \in Seq(S) /\ Len(Tail(s)) = n - 1 /\ \A i \in 1 .. n - 1 : Tail(s)[i] = s[i + 1]
  BY <1>1, <1>2, HeadTailProperties
<1>4. t = Tail(s)
  BY <1>1, <1>3, SeqEqual
<1> QED  BY <1>1, <1>2, <1>4

(***************************************************************************)
(* A reader that holds a pointer does not find the queue empty.            *)
(***************************************************************************)
LEMMA PointerMeansElement == IInv /\ rpc = "holding" => readIdx # writeIdx
  BY CapacityBound DEF IInv, TypeOK, RingOrder, Permits, Dist, Idx

(***************************************************************************)
(* The abstract queue: how many elements, and where each of them is.       *)
(***************************************************************************)
Count == Dist(readIdx, writeIdx) - Vacated

Place(k) == LET i == readIdx + Vacated + k - 1 IN IF i < capacity_ THEN i ELSE i - capacity_

ElementsInSlots == /\ Count \in Nat /\ Count <= capacity_ - 1
                   /\ Elements \in [1 .. Count -> Values]
                   /\ \A k \in 1 .. Count : Place(k) \in Idx /\ Elements[k] = slots[Place(k)]

(* In a state that satisfies the invariant, Elements is a sequence of the live slots. *)
LEMMA ElementsType == IInv => ElementsInSlots
<1> SUFFICES ASSUME IInv
             PROVE  ElementsInSlots
  OBVIOUS
<1>1. Count \in Nat /\ Count <= capacity_ - 1
  BY CapacityBound DEF IInv, Count, Vacated, TypeOK, RingOrder, Permits, Dist, Idx
<1>2. \A k \in 1 .. Count : Place(k) \in Idx /\ slots[Place(k)] \in Values
  <2> SUFFICES ASSUME NEW k \in 1 .. Count
               PROVE  Place(k) \in Idx /\ Live(Place(k))
    BY DEF IInv, SlotsLive
  <2> QED  BY <1>1, CapacityBound DEF IInv, TypeOK, Place, Count, Live, Vacated, Dist, Idx
<1>3. Elements = [k \in 1 .. Count |-> slots[Place(k)]]
  BY DEF Elements, Count, Place
<1> QED  BY <1>1, <1>2, <1>3 DEF ElementsInSlots

(* The same of the next state. *)
LEMMA ElementsTypeNext == IInv' => ElementsInSlots'
  BY ElementsType, PTL

(***************************************************************************)
(* A step that moves neither end of the queue and touches no element is a  *)
(* stuttering step of the FIFO.                                            *)
(***************************************************************************)
LEMMA SameElements == ASSUME IInv, IInv', Count' = Count, UNCHANGED taken,
                             \A k \in 1 .. Count : slots'[Place(k)'] = slots[Place(k)]
                      PROVE  UNCHANGED Fifo!vars
<1>1. /\ Count \in Nat /\ Elements \in [1 .. Count -> Values]
      /\ \A k \in 1 .. Count : Elements[k] = slots[Place(k)]
  BY ElementsType DEF ElementsInSlots
<1>2. /\ Elements' \in [1 .. Count' -> Values]
      /\ \A k \in 1 .. Count' : Elements'[k] = slots'[Place(k)']
  BY ElementsTypeNext DEF ElementsInSlots
<1>3. Elements' \in [1 .. Count -> Values]
  BY <1>2
<1>4. \A k \in 1 .. Count : Elements'[k] = Elements[k]
  BY <1>1, <1>2
<1>5. Elements' = Elements
  BY <1>1, <1>3, <1>4, SameSeq
<1> QED  BY <1>5 DEF Fifo!vars

(***************************************************************************)
(* Storing writeIdx_ appends the element in the slot filled last.          *)
(***************************************************************************)
LEMMA PublishAppends == ASSUME IInv, IInv', Publish
                        PROVE  /\ Elements' = Append(Elements, slots[writeIdx])
                               /\ slots[writeIdx] \in Values
                               /\ Len(Elements) < capacity_ - 1
<1>1. /\ Count \in Nat /\ Elements \in [1 .. Count -> Values]
      /\ \A k \in 1 .. Count : Elements[k] = slots[Place(k)]
  BY ElementsType DEF ElementsInSlots
<1>2. /\ Count' \in Nat /\ Count' <= capacity_ - 1 /\ Elements' \in [1 .. Count' -> Values]
      /\ \A k \in 1 .. Count' : Elements'[k] = slots'[Place(k)']
  BY ElementsTypeNext DEF ElementsInSlots, capacity_
<1>3. Count' = Count + 1
  BY CapacityBound DEF Publish, readerVars, Count, Vacated, IInv, TypeOK, RingOrder, Permits, Dist, NextIdx, Idx
<1>4. \A k \in 1 .. Count + 1 : Place(k)' = Place(k) /\ slots' = slots
  BY DEF Publish, readerVars, Place, Vacated
<1>5. \A k \in 1 .. Count : Elements'[k] = Elements[k]
  BY <1>1, <1>2, <1>3, <1>4
<1>6. Elements' = Append(Elements, Elements'[Count + 1])
  BY <1>1, <1>2, <1>3, <1>5, IsAppend
<1>7. Elements'[Count + 1] \in Values /\ Len(Elements) < capacity_ - 1
  BY <1>1, <1>2, <1>3, CapacityBound, FunctionIsSeq
<1>8. Place(Count + 1) = writeIdx
  BY <1>1, CapacityBound DEF Place, Count, Vacated, IInv, TypeOK, Dist, Idx
<1>9. Elements'[Count + 1] = slots[writeIdx]
  BY <1>1, <1>2, <1>3, <1>4, <1>8
<1> QED
  BY <1>6, <1>7, <1>9

(* In the abstract queue this is an Enqueue. *)
LEMMA PublishEnqueues == ASSUME IInv, IInv', Publish
                         PROVE  Fifo!Enqueue
<1>1. taken' = taken
  BY DEF Publish, readerVars
<1> QED  BY <1>1, PublishAppends DEF Fifo!Enqueue

(***************************************************************************)
(* Vacating a slot removes the first element, and that is the one taken.   *)
(***************************************************************************)
LEMMA PopTakes == ASSUME IInv, IInv', PopDestroy
                  PROVE  /\ Elements # << >> /\ Elements' = Tail(Elements)
                         /\ slots[readIdx] = Head(Elements)
<1>1. /\ Count \in Nat /\ Elements \in [1 .. Count -> Values]
      /\ \A k \in 1 .. Count : Place(k) \in Idx /\ Elements[k] = slots[Place(k)]
  BY ElementsType DEF ElementsInSlots
<1>2. /\ Elements' \in [1 .. Count' -> Values]
      /\ \A k \in 1 .. Count' : Elements'[k] = slots'[Place(k)']
  BY ElementsTypeNext DEF ElementsInSlots
<1>3. /\ readIdx' = readIdx /\ writeIdx' = writeIdx /\ readIdx \in Idx /\ writeIdx \in Idx
      /\ Vacated = 0 /\ Vacated' = 1
  BY DEF PopDestroy, writerVars, Vacated, IInv, TypeOK
<1>4. readIdx # writeIdx
  BY PointerMeansElement DEF PopDestroy
<1>5. Count # 0 /\ Count' = Count - 1
  BY <1>3, <1>4, CapacityBound DEF Count, Dist, Idx
<1>6. \A k \in 1 .. Count - 1 : Place(k)' = Place(k + 1) /\ Place(k + 1) # readIdx
  BY <1>1, <1>3, CapacityBound DEF Place, Count, Dist, Idx
<1>7. \A k \in 1 .. Count - 1 : slots'[Place(k + 1)] = slots[Place(k + 1)]
  BY <1>1, <1>6 DEF PopDestroy, IInv, TypeOK
<1>8. \A k \in 1 .. Count - 1 : Elements'[k] = Elements[k + 1]
  BY <1>1, <1>2, <1>5, <1>6, <1>7
<1>9. Elements # << >> /\ Head(Elements) = Elements[1] /\ Elements' = Tail(Elements)
  BY <1>1, <1>2, <1>5, <1>8, IsTail
<1>10. slots[readIdx] = Elements[1]
  <2>1. Place(1) = readIdx
    BY <1>3, CapacityBound DEF Place, Idx
  <2> QED  BY <1>1, <1>5, <2>1
<1> QED  BY <1>9, <1>10

(* In the abstract queue this is a Dequeue. *)
LEMMA PopDequeues == ASSUME IInv, IInv', PopDestroy
                     PROVE  Fifo!Dequeue
  BY PopTakes DEF PopDestroy, Fifo!Dequeue

(***************************************************************************)
(* Giving the slot back moves the start of the ring, not the queue.        *)
(***************************************************************************)
LEMMA PopStoreStutters == ASSUME IInv, IInv', PopStore
                          PROVE  UNCHANGED Fifo!vars
<1>1. /\ readIdx \in Idx /\ writeIdx \in Idx /\ readIdx' = NextIdx(readIdx) /\ writeIdx' = writeIdx
      /\ Vacated = 1 /\ Vacated' = 0 /\ slots' = slots /\ taken' = taken
  BY DEF PopStore, writerVars, Vacated, IInv, TypeOK
<1>2. Count \in Nat
  BY ElementsType DEF ElementsInSlots
<1>3. readIdx # writeIdx
  BY <1>1, <1>2, CapacityBound DEF Count, Dist, Idx
<1>4. Count' = Count
  BY <1>1, <1>3, CapacityBound DEF Count, Dist, NextIdx, Idx
<1>5. \A k \in 1 .. Count : Place(k)' = Place(k)
  BY <1>1, <1>2, CapacityBound DEF Place, Count, Dist, NextIdx, Idx
<1> QED  BY <1>1, <1>4, <1>5, SameElements

(***************************************************************************)
(* Constructing in the free slot touches no element.                       *)
(***************************************************************************)
LEMMA ConstructStutters == ASSUME IInv, IInv', Construct
                           PROVE  UNCHANGED Fifo!vars
<1>1. /\ readIdx \in Idx /\ writeIdx \in Idx /\ readIdx' = readIdx /\ writeIdx' = writeIdx
      /\ Vacated' = Vacated /\ Vacated \in {0, 1} /\ slots \in [Idx -> Values \cup {None}] /\ taken' = taken
      /\ slots' = [slots EXCEPT ![writeIdx] = wval]
  BY DEF Construct, readerVars, Vacated, IInv, TypeOK
<1>2. /\ Count \in Nat
      /\ \A k \in 1 .. Count : Place(k) \in Idx
  BY ElementsType DEF ElementsInSlots
<1>3. Count' = Count /\ \A k \in 1 .. Count : Place(k)' = Place(k)
  BY <1>1 DEF Count, Dist, Place
<1>4. \A k \in 1 .. Count : Place(k) # writeIdx
  BY <1>1, <1>2, CapacityBound DEF Place, Count, Dist, Idx
<1>5. \A k \in 1 .. Count : slots'[Place(k)'] = slots[Place(k)]
  BY <1>1, <1>2, <1>3, <1>4
<1> QED  BY <1>1, <1>3, <1>5, SameElements

(***************************************************************************)
(* Every other step leaves both ends of the queue and the slots alone.     *)
(***************************************************************************)
LEMMA OtherStutters == ASSUME IInv, IInv', UNCHANGED <<readIdx, writeIdx, slots, taken>>,
                              rpc' = "store" <=> rpc = "store"
                       PROVE  UNCHANGED Fifo!vars
<1>1. Vacated' = Vacated
  BY DEF Vacated
<1>2. Count' = Count /\ \A k \in 1 .. Count : Place(k)' = Place(k)
  BY <1>1 DEF Count, Dist, Place
<1> QED  BY <1>2, SameElements

(* A step that is neither leaves the abstract queue as it is. *)
LEMMA OtherSteps == ASSUME IInv, IInv', [Next]_vars, ~Publish, ~PopDestroy
                    PROVE  UNCHANGED Fifo!vars
<1>1. CASE PopStore
  BY <1>1, PopStoreStutters
<1>2. CASE Construct
  BY <1>2, ConstructStutters
<1>3. CASE FrontCached \/ FrontLoad \/ Destroy
  <2>1. UNCHANGED <<readIdx, writeIdx, slots, taken>> /\ rpc # "store" /\ rpc' # "store"
    BY <1>3 DEF FrontCached, FrontLoad, Destroy, writerVars
  <2> QED  BY <2>1, OtherStutters
<1>4. CASE \/ \E v \in Values : Enter("try_emplace", v) \/ Enter("emplace", v)
           \/ LoadReadIdx \/ (\E w \in Idx : Empty(w))
           \/ WriteIdxSettles \/ ReadIdxSettles \/ Deallocate \/ UNCHANGED vars
  <2>1. UNCHANGED <<readIdx, writeIdx, slots, taken, rpc>>
    BY <1>4 DEF Enter, LoadReadIdx, Empty, WriteIdxSettles, ReadIdxSettles, Deallocate,
                vars, writerVars, readerVars
  <2> QED  BY <2>1, OtherStutters
<1> QED  BY <1>1, <1>2, <1>3, <1>4 DEF Next, Write, Read

(* In particular its elements. *)
LEMMA ElementsKept == ASSUME IInv, IInv', [Next]_vars, ~Publish, ~PopDestroy
                      PROVE  UNCHANGED Elements
  BY OtherSteps DEF Fifo!vars

(***************************************************************************)
(* The ring buffer implements the bounded FIFO, whatever the staleness of  *)
(* the index loads and of the threads' cached indices.                     *)
(***************************************************************************)
THEOREM QueueIsFifo == Spec => ImplementsFifo
<1>1. Init => Fifo!Init
  <2>1. ASSUME Init PROVE Elements = << >>
    <3>1. Dist(readIdx, writeIdx) - Vacated = 0
      BY <2>1 DEF Init, Dist, Vacated
    <3> QED  BY <3>1 DEF Elements
  <2> QED  BY <2>1 DEF Init, Fifo!Init
<1>2. IInv /\ IInv' /\ [Next]_vars => [Fifo!Next]_(Fifo!vars)
  <2> SUFFICES ASSUME IInv, IInv', [Next]_vars
               PROVE  Fifo!Next \/ UNCHANGED Fifo!vars
    OBVIOUS
  <2>1. CASE Publish
    BY <2>1, PublishEnqueues DEF Fifo!Next
  <2>2. CASE PopDestroy
    BY <2>2, PopDequeues DEF Fifo!Next
  <2>3. CASE ~Publish /\ ~PopDestroy
    BY <2>3, OtherSteps
  <2> QED  BY <2>1, <2>2, <2>3
<1> QED  BY InductiveInvariant, <1>1, <1>2, PTL DEF Spec, ImplementsFifo, Fifo!Spec
-----------------------------------------------------------------------------
(***************************************************************************)
(* For the users of the queue.  Its elements are a sequence of values.     *)
(***************************************************************************)
LEMMA ElementsSeq == IInv => Elements \in Seq(Values)
  BY ElementsType, FunctionIsSeq DEF ElementsInSlots

(***************************************************************************)
(* Once a load has shown the reader an element, no later load hides it.    *)
(***************************************************************************)
LEMMA SeenStaysSeen == ASSUME IInv, visW # readIdx
                       PROVE  readIdx \notin Between(visW, writeIdx) /\ readIdx # writeIdx
  BY CapacityBound DEF IInv, TypeOK, RingOrder, Between, Dist, Idx

(* When the last store is visible, a load can only return it. *)
LEMMA LoadsLast == ASSUME IInv, visW = writeIdx
                   PROVE  \A w \in Between(visW, writeIdx) : w = writeIdx
  BY CapacityBound DEF IInv, TypeOK, Between, Dist, Idx
=============================================================================
