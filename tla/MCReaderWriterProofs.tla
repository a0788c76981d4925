------------------------ MODULE MCReaderWriterProofs ------------------------
(***************************************************************************)
(* The safety of the semaphores of readerwriterqueue/, of the two blocking *)
(* queues that are built on them and of ReaderWriterQueue itself, proved   *)
(* for every capacity of the ring, every size of the list of blocks, every *)
(* number of blocks and every number of elements.                          *)
(***************************************************************************)
EXTENDS MCReaderWriter, Integers, Sequences, FiniteSets, FiniteSetTheorems, SequenceTheorems,
        WellFoundedInduction, TLAPS

(***************************************************************************)
(* One semaphore: its count c, the kernel's value k, the places sp and wp  *)
(* of its two threads, the units given and granted so far.  A waiter that  *)
(* has decremented the count and is not settled owes a unit; the kernel    *)
(* has one, or gets it, exactly when that unit has been signalled.         *)
(***************************************************************************)
WaiterPlaces == {"idle", "grab", "spin", "sleep", "restore", "undo", "trywait", "got", "failed"}
Debtor == {"sleep", "restore", "trywait"}
Debt(wp) == IF wp \in Debtor THEN 1 ELSE 0
Due(c, wp) == IF (wp \in Debtor /\ c >= 0) \/ wp = "undo" THEN 1 ELSE 0
Posting(sp) == IF sp = "post" THEN 1 ELSE 0

SemaRight(c, k, sp, wp, gv, gr) ==
    /\ c \in Int /\ k \in 0 .. 1 /\ sp \in {"idle", "post"} /\ gv \in Nat /\ gr \in Nat
    /\ wp \in WaiterPlaces
    /\ c = gv - gr - Debt(wp)
    /\ k + Posting(sp) = Due(c, wp)
    /\ c >= -1 /\ (wp \notin Debtor => c >= 0) /\ (wp \in {"grab", "undo"} => c >= 1) /\ (wp = "trywait" => c >= 0)

(***************************************************************************)
(* A step of the waiting thread, from c, k, wp, gr to d, l, w, h.          *)
(***************************************************************************)
WaiterStep(c, k, wp, gr, d, l, w, h) ==
    \/ wp \in {"got", "failed"} /\ w = "idle" /\ d = c /\ l = k /\ h = gr
    \/ wp = "grab" /\ w = "got" /\ d = c - 1 /\ l = k /\ h = gr + 1
    \/ wp = "spin" /\ c > 0 /\ w = "grab" /\ d = c /\ l = k /\ h = gr
    \/ wp = "spin" /\ c > 0 /\ w = "got" /\ d = c - 1 /\ l = k /\ h = gr + 1
    \/ wp = "spin" /\ ~(c > 0) /\ w \in {"restore", "sleep"} /\ d = c - 1 /\ l = k /\ h = gr
    \/ wp = "sleep" /\ k > 0 /\ w = "got" /\ d = c /\ l = k - 1 /\ h = gr + 1
    \/ wp = "sleep" /\ w = "restore" /\ d = c /\ l = k /\ h = gr
    \/ wp = "restore" /\ w = (IF c < 0 THEN "failed" ELSE "undo") /\ d = c + 1 /\ l = k /\ h = gr
    \/ wp = "undo" /\ w = (IF c > 0 THEN "trywait" ELSE "restore") /\ d = c - 1 /\ l = k /\ h = gr
    \/ wp = "trywait" /\ k > 0 /\ w = "got" /\ d = c /\ l = k - 1 /\ h = gr + 1
    \/ wp = "trywait" /\ w = "restore" /\ d = c /\ l = k /\ h = gr

(* No step of the waiter takes a unit twice or leaves one behind, and it   *)
(* fails only when none is there.                                          *)
LEMMA WaiterKeeps ==
  ASSUME NEW c, NEW k, NEW sp, NEW wp, NEW gv, NEW gr, SemaRight(c, k, sp, wp, gv, gr),
         NEW d, NEW l, NEW w, NEW h, WaiterStep(c, k, wp, gr, d, l, w, h)
  PROVE  /\ SemaRight(d, l, sp, w, gv, h)
         /\ wp \in {"got", "failed"} <=> w = "idle"
         /\ wp \in {"got", "failed"} => h = gr
         /\ wp \notin {"got", "failed"} => h = gr + (IF w = "got" THEN 1 ELSE 0)
         /\ w = "failed" => gv = gr
  BY DEF SemaRight, WaiterStep, WaiterPlaces, Debtor, Debt, Due, Posting

(* signal() posts when the waiter is behind, and only then. *)
LEMMA SignalKeeps ==
  ASSUME NEW c, NEW k, NEW sp, NEW wp, NEW gv, NEW gr, SemaRight(c, k, sp, wp, gv, gr)
  PROVE  /\ sp = "idle" => SemaRight(c + 1, k, IF c < 0 THEN "post" ELSE "idle", wp, gv + 1, gr)
         /\ sp = "post" => SemaRight(c, k + 1, "idle", wp, gv, gr)
  BY DEF SemaRight, WaiterPlaces, Debtor, Debt, Due, Posting

(* A wait begins with a look at the count. *)
LEMMA TryWaitKeeps ==
  ASSUME NEW c, NEW k, NEW sp, NEW wp, NEW gv, NEW gr, SemaRight(c, k, sp, wp, gv, gr), wp = "idle",
         NEW w, c > 0 => w = "grab", ~(c > 0) => w \in {"failed", "spin"}
  PROVE  SemaRight(c, k, sp, w, gv, gr) /\ (w = "failed" => gv = gr)
  BY DEF SemaRight, WaiterPlaces, Debtor, Debt, Due, Posting
-----------------------------------------------------------------------------
(***************************************************************************)
(* The two semaphores of the ring.                                         *)
(***************************************************************************)
Two == {"slots", "items"}

RingSema(s) == SemaRight(ringCount[s], ringKernel[s], ringSpc[s], ringWpc[s], ringGiven[s], ringGranted[s])

RingSemas == /\ ringCount \in [Two -> Int] /\ ringKernel \in [Two -> Int] /\ ringSpc \in [Two -> {"idle", "post"}]
             /\ ringWpc \in [Two -> WaiterPlaces] /\ ringTimeout \in [Two -> {"try", "none", "zero", "some"}]
             /\ ringGiven \in [Two -> Nat] /\ ringGranted \in [Two -> Nat]
             /\ \A s \in Two : RingSema(s)

(***************************************************************************)
(* Where the ring's threads are, what they hold, and what they still have  *)
(* to signal: the units of the semaphores are the indices of the ring.     *)
(***************************************************************************)
RingPlaces == /\ ringPpc \in {"idle", "acquire", "construct", "signal", "post", "freed"}
              /\ ringCpc \in {"idle", "acquire", "remove", "signal", "post", "freed"}
              /\ ringPpc = "acquire" <=> ringWpc["slots"] # "idle"
              /\ ringCpc = "acquire" <=> ringWpc["items"] # "idle"
              /\ ringPpc = "post" <=> ringSpc["items"] = "post"
              /\ ringCpc = "post" <=> ringSpc["slots"] = "post"
              /\ ringPpc = "freed" <=> ringCpc = "freed"

SlotInHand == IF ringPpc = "construct" \/ ringWpc["slots"] = "got" THEN 1 ELSE 0
ItemInHand == IF ringCpc = "remove" \/ ringWpc["items"] = "got" THEN 1 ELSE 0
ItemToSignal == IF ringPpc = "signal" THEN 1 ELSE 0
SlotToSignal == IF ringCpc = "signal" THEN 1 ELSE 0

RingUnits == /\ nextSlot \in Nat /\ nextItem \in Nat /\ nextSlot <= RingItems
             /\ ringPpc \in {"acquire", "construct"} => nextSlot < RingItems
             /\ ringGranted["slots"] = nextSlot + SlotInHand
             /\ ringGiven["items"] = nextSlot - ItemToSignal
             /\ ringGranted["items"] = nextItem + ItemInHand
             /\ ringGiven["slots"] = maxcap + nextItem - SlotToSignal

(***************************************************************************)
(* The elements from nextItem to nextSlot are in their slots, and nothing  *)
(* is anywhere else.                                                       *)
(***************************************************************************)
RingData == /\ data \in [0 .. Ring!RingSize - 1 -> 0 .. RingItems]
            /\ ringPpc # "freed" =>
                 /\ \A k \in nextItem .. nextSlot - 1 : data[Ring!Slot(k)] = k + 1
                 /\ \A i \in 0 .. Ring!RingSize - 1 :
                      data[i] # 0 => \E k \in nextItem .. nextSlot - 1 : i = Ring!Slot(k)
            /\ ringPpc = "freed" => \A i \in 0 .. Ring!RingSize - 1 : data[i] = 0
            /\ ringPeeked # 0 => ringPeeked = nextItem + 1

RingInv == RingSemas /\ RingPlaces /\ RingUnits /\ RingData

(***************************************************************************)
(* A step in which a wait fails: there is no unit.                         *)
(***************************************************************************)
RingFailsEmpty == \A s \in Two : ringWpc'[s] = "failed" /\ ringWpc[s] # "failed" => ringGiven[s] = ringGranted[s]

(***************************************************************************)
(* The blocking queue, with one semaphore.                                 *)
(***************************************************************************)
One == {"items"}
BlkSema == SemaRight(blkCount["items"], blkKernel["items"], blkSpc["items"], blkWpc["items"], blkGiven["items"],
                     blkGranted["items"])
BlkSemas == /\ blkCount \in [One -> Int] /\ blkKernel \in [One -> Int] /\ blkSpc \in [One -> {"idle", "post"}]
            /\ blkWpc \in [One -> WaiterPlaces] /\ blkTimeout \in [One -> {"try", "none", "zero", "some"}]
            /\ blkGiven \in [One -> Nat] /\ blkGranted \in [One -> Nat]
            /\ BlkSema

BlkPlaces == /\ blkPpc \in {"idle", "signal", "post"} /\ blkCpc \in {"idle", "wait", "take"}
             /\ blkCpc = "wait" <=> blkWpc["items"] # "idle"
             /\ blkPpc = "post" <=> blkSpc["items"] = "post"

(***************************************************************************)
(* The elements are numbered, a + 1 up to a + n for n of them behind the   *)
(* a-th: those inside follow the one taken last.                           *)
(***************************************************************************)
Numbered(a, n) == [i \in 1 .. n |-> a + i]

BlkUnits == /\ enqueued \in Nat /\ blkLast \in Nat /\ blkLast <= enqueued
            /\ inner = Numbered(blkLast, enqueued - blkLast)
            /\ blkGiven["items"] = enqueued - (IF blkPpc = "signal" THEN 1 ELSE 0)
            /\ blkGranted["items"] = blkLast + (IF blkCpc = "take" \/ blkWpc["items"] = "got" THEN 1 ELSE 0)

BlkInv == BlkSemas /\ BlkPlaces /\ BlkUnits

-----------------------------------------------------------------------------
(* A step of a waiter of the ring, semaphore by semaphore. *)
LEMMA RingWaiterStep ==
  ASSUME RingSemas, NEW s \in Two, Ring!S!Waiter(s)
  PROVE  /\ ringCount' \in [Two -> Int] /\ ringKernel' \in [Two -> Int] /\ ringGranted' \in [Two -> Nat]
         /\ ringWpc' \in [Two -> WaiterPlaces] /\ UNCHANGED <<ringSpc, ringTimeout, ringGiven>>
         /\ WaiterStep(ringCount[s], ringKernel[s], ringWpc[s], ringGranted[s],
                       ringCount'[s], ringKernel'[s], ringWpc'[s], ringGranted'[s])
         /\ \A u \in Two \ {s} : /\ ringCount'[u] = ringCount[u] /\ ringKernel'[u] = ringKernel[u]
                                 /\ ringWpc'[u] = ringWpc[u] /\ ringGranted'[u] = ringGranted[u]
<1> DEFINE Conclusion ==
      /\ ringCount' \in [Two -> Int] /\ ringKernel' \in [Two -> Int] /\ ringGranted' \in [Two -> Nat]
      /\ ringWpc' \in [Two -> WaiterPlaces] /\ UNCHANGED <<ringSpc, ringTimeout, ringGiven>>
      /\ WaiterStep(ringCount[s], ringKernel[s], ringWpc[s], ringGranted[s],
                    ringCount'[s], ringKernel'[s], ringWpc'[s], ringGranted'[s])
      /\ \A u \in Two \ {s} : /\ ringCount'[u] = ringCount[u] /\ ringKernel'[u] = ringKernel[u]
                              /\ ringWpc'[u] = ringWpc[u] /\ ringGranted'[u] = ringGranted[u]
<1> USE DEF Ring!S!Grant, Ring!S!Add, Ring!S!At, WaiterPlaces
<1>0. /\ ringCount \in [Two -> Int] /\ ringKernel \in [Two -> Int] /\ ringGranted \in [Two -> Nat]
      /\ ringWpc \in [Two -> WaiterPlaces]
  BY DEF RingSemas
<1>1. CASE Ring!S!Grab(s)
  BY <1>0, <1>1 DEF Ring!S!Grab, WaiterStep
<1>2. CASE Ring!S!Spin(s)
  BY <1>0, <1>2 DEF Ring!S!Spin, WaiterStep
<1>3. CASE Ring!S!Decrement(s)
  BY <1>0, <1>3 DEF Ring!S!Decrement, WaiterStep
<1>4. CASE Ring!S!Wake(s)
  BY <1>0, <1>4 DEF Ring!S!Wake, WaiterStep
<1>5. CASE Ring!S!TimeOut(s)
  BY <1>0, <1>5 DEF Ring!S!TimeOut, WaiterStep
<1>6. CASE Ring!S!Restore(s)
  BY <1>0, <1>6 DEF Ring!S!Restore, WaiterStep
<1>7. CASE Ring!S!Undo(s)
  BY <1>0, <1>7 DEF Ring!S!Undo, WaiterStep
<1>8. CASE Ring!S!KernelTryWait(s)
  BY <1>0, <1>8 DEF Ring!S!KernelTryWait, WaiterStep
<1>9. CASE Ring!S!Return(s)
  BY <1>0, <1>9 DEF Ring!S!Return, WaiterStep
<1>10. Conclusion
  BY <1>1, <1>2, <1>3, <1>4, <1>5, <1>6, <1>7, <1>8, <1>9 DEF Ring!S!Waiter
<1> QED
  BY <1>10

(* Hence the semaphores stay right, and a wait that ends in "got" has taken *)
(* one unit.                                                                *)
LEMMA RingWaiter ==
  ASSUME RingSemas, NEW s \in Two, Ring!S!Waiter(s)
  PROVE  /\ RingSemas' /\ UNCHANGED <<ringSpc, ringGiven>>
         /\ ringWpc[s] \in {"got", "failed"} <=> ringWpc'[s] = "idle"
         /\ ringWpc[s] \in {"got", "failed"} => ringGranted'[s] = ringGranted[s]
         /\ ringWpc[s] \notin {"got", "failed"} =>
              ringGranted'[s] = ringGranted[s] + (IF ringWpc'[s] = "got" THEN 1 ELSE 0)
         /\ ringWpc'[s] = "failed" => ringGiven[s] = ringGranted[s]
         /\ \A u \in Two \ {s} : ringWpc'[u] = ringWpc[u] /\ ringGranted'[u] = ringGranted[u]
<1>1. RingSema(s)
  BY DEF RingSemas
<1>2. /\ SemaRight(ringCount'[s], ringKernel'[s], ringSpc[s], ringWpc'[s], ringGiven[s], ringGranted'[s])
      /\ ringWpc[s] \in {"got", "failed"} <=> ringWpc'[s] = "idle"
      /\ ringWpc[s] \in {"got", "failed"} => ringGranted'[s] = ringGranted[s]
      /\ ringWpc[s] \notin {"got", "failed"} =>
           ringGranted'[s] = ringGranted[s] + (IF ringWpc'[s] = "got" THEN 1 ELSE 0)
      /\ ringWpc'[s] = "failed" => ringGiven[s] = ringGranted[s]
  BY <1>1, RingWaiterStep, WaiterKeeps DEF RingSema
<1>3. ASSUME NEW u \in Two PROVE RingSema(u)'
  <2>1. CASE u = s
    BY <1>2, <2>1, RingWaiterStep DEF RingSema
  <2>2. CASE u # s
    BY <2>2, RingWaiterStep DEF RingSema, RingSemas
  <2> QED
    BY <2>1, <2>2
<1>4. RingSemas'
  BY <1>3, RingWaiterStep DEF RingSemas
<1> QED
  BY <1>2, <1>4, RingWaiterStep

(* A signal of the ring: one unit more, or the post that is due for it. *)
LEMMA RingSignal ==
  ASSUME RingSemas, NEW s \in Two, Ring!S!Signal(s) \/ Ring!S!Post(s)
  PROVE  /\ RingSemas' /\ UNCHANGED <<ringWpc, ringGranted>>
         /\ Ring!S!Signal(s) => ringGiven'[s] = ringGiven[s] + 1 /\ ringSpc[s] = "idle"
         /\ Ring!S!Post(s) => UNCHANGED ringGiven /\ ringSpc[s] = "post" /\ ringSpc'[s] = "idle"
         /\ \A u \in Two \ {s} : ringSpc'[u] = ringSpc[u] /\ ringGiven'[u] = ringGiven[u]
<1> USE DEF Ring!S!Add, Ring!S!At
<1>0. /\ ringCount \in [Two -> Int] /\ ringKernel \in [Two -> Int] /\ ringSpc \in [Two -> {"idle", "post"}]
      /\ ringGiven \in [Two -> Nat] /\ RingSema(s)
  BY DEF RingSemas
<1>1. CASE Ring!S!Signal(s)
  <2>1. /\ ringSpc[s] = "idle" /\ UNCHANGED <<ringKernel, ringWpc, ringTimeout, ringGranted>>
        /\ ringCount' \in [Two -> Int] /\ ringGiven' \in [Two -> Nat] /\ ringSpc' \in [Two -> {"idle", "post"}]
        /\ ringCount'[s] = ringCount[s] + 1 /\ ringGiven'[s] = ringGiven[s] + 1
        /\ ringSpc'[s] = IF ringCount[s] < 0 THEN "post" ELSE "idle"
        /\ \A u \in Two \ {s} : /\ ringCount'[u] = ringCount[u] /\ ringGiven'[u] = ringGiven[u]
                                /\ ringSpc'[u] = ringSpc[u]
    BY <1>0, <1>1 DEF Ring!S!Signal
  <2>2. RingSema(s)'
    BY <1>0, <2>1, SignalKeeps DEF RingSema
  <2>3. \A u \in Two \ {s} : RingSema(u)'
    BY <2>1 DEF RingSema, RingSemas
  <2>4. ~ Ring!S!Post(s)
    BY <2>1 DEF Ring!S!Post
  <2> QED
    BY <2>1, <2>2, <2>3, <2>4 DEF RingSemas
<1>2. CASE Ring!S!Post(s)
  <2>1. /\ ringSpc[s] = "post" /\ UNCHANGED <<ringCount, ringWpc, ringTimeout, ringGiven, ringGranted>>
        /\ ringKernel' \in [Two -> Int] /\ ringSpc' \in [Two -> {"idle", "post"}]
        /\ ringKernel'[s] = ringKernel[s] + 1 /\ ringSpc'[s] = "idle"
        /\ \A u \in Two \ {s} : ringKernel'[u] = ringKernel[u] /\ ringSpc'[u] = ringSpc[u]
    BY <1>0, <1>2 DEF Ring!S!Post
  <2>2. RingSema(s)'
    BY <1>0, <2>1, SignalKeeps DEF RingSema
  <2>3. \A u \in Two \ {s} : RingSema(u)'
    BY <2>1 DEF RingSema, RingSemas
  <2>4. ~ Ring!S!Signal(s)
    BY <2>1 DEF Ring!S!Signal
  <2> QED
    BY <2>1, <2>2, <2>3, <2>4 DEF RingSemas
<1> QED
  BY <1>1, <1>2

(* The beginning of a wait at the ring. *)
LEMMA RingTryWait ==
  ASSUME RingSemas, NEW s \in Two, NEW t \in {"try", "none", "zero", "some"}, Ring!S!TryWait(s, t)
  PROVE  /\ RingSemas' /\ UNCHANGED <<ringSpc, ringGiven, ringGranted>>
         /\ ringWpc[s] = "idle" /\ ringWpc'[s] \notin {"idle", "got"}
         /\ ringWpc'[s] = "failed" => ringGiven[s] = ringGranted[s]
         /\ \A u \in Two \ {s} : ringWpc'[u] = ringWpc[u]
<1> USE DEF Ring!S!At, WaiterPlaces
<1>0. ringWpc \in [Two -> WaiterPlaces] /\ ringTimeout \in [Two -> {"try", "none", "zero", "some"}] /\ RingSema(s)
  BY DEF RingSemas
<1>1. /\ ringWpc[s] = "idle" /\ UNCHANGED <<ringCount, ringKernel, ringSpc, ringGiven, ringGranted>>
      /\ ringWpc' \in [Two -> WaiterPlaces] /\ ringTimeout' \in [Two -> {"try", "none", "zero", "some"}]
      /\ ringCount[s] > 0 => ringWpc'[s] = "grab"
      /\ ~(ringCount[s] > 0) => ringWpc'[s] \in {"failed", "spin"}
      /\ \A u \in Two \ {s} : ringWpc'[u] = ringWpc[u]
  BY <1>0 DEF Ring!S!TryWait
<1>2. RingSema(s)' /\ (ringWpc'[s] = "failed" => ringGiven[s] = ringGranted[s])
  BY <1>0, <1>1, TryWaitKeeps DEF RingSema
<1>3. \A u \in Two \ {s} : RingSema(u)'
  BY <1>1 DEF RingSema, RingSemas
<1>4. RingSemas'
  BY <1>1, <1>2, <1>3 DEF RingSemas
<1> QED
  BY <1>1, <1>2, <1>4
-----------------------------------------------------------------------------
(* The ring has at least as many slots as elements that may be in it. *)
LEMMA RingIsLarge == Ring!RingSize \in Nat /\ Ring!RingSize >= maxcap /\ maxcap \in Nat \ {0}
<1>1. /\ maxcap \in Nat \ {0} /\ Ring!PowersOf2 \subseteq Nat /\ \E p \in Ring!PowersOf2 : p >= maxcap
  BY PartsAssumption DEF Ring!CapacityAssumption
<1> DEFINE Large == {p \in Ring!PowersOf2 : p >= maxcap}
<1>2. Large \subseteq Nat /\ Large # {}
  BY <1>1
<1>3. PICK x \in Large : \A y \in Large : ~(<<y, x>> \in OpToRel(<, Nat))
  BY <1>2, WFMin, NatLessThanWellFounded
<1>4. ASSUME NEW y \in Large PROVE y >= x
  <2>1. x \in Nat /\ y \in Nat
    BY <1>2
  <2>2. ~(y < x)
    BY <1>3, <2>1 DEF OpToRel
  <2> QED
    BY <2>1, <2>2
<1>5. \E p \in Ring!PowersOf2 : p >= maxcap /\ \A q \in Ring!PowersOf2 : q >= maxcap => q >= p
  BY <1>4
<1> QED
  BY <1>1, <1>5 DEF Ring!RingSize

(* Indices less than a ring apart have different slots. *)
LEMMA SlotsDiffer ==
  ASSUME NEW i \in Nat, NEW j \in Nat, i < j, j - i < Ring!RingSize
  PROVE  Ring!Slot(i) # Ring!Slot(j)
<1> DEFINE R == Ring!RingSize
<1>1. R \in Nat /\ R > 0
  BY RingIsLarge
<1> HIDE DEF R
<1>2. i % R # j % R
  <2> SUFFICES ASSUME i % R = j % R PROVE FALSE
    OBVIOUS
  <2>1. PICK p \in Int : i = R * p + (i % R)
    BY <1>1, Z3
  <2>2. PICK q \in Int : j = R * q + (j % R)
    BY <1>1, Z3
  <2> DEFINE d == q - p
  <2>3. R * d = j - i /\ d \in Int
    BY <1>1, <2>1, <2>2
  <2> HIDE DEF d
  <2>4. d >= 1 => R * d >= R
    BY <1>1, <2>3
  <2>5. d <= 0 => R * d <= 0
    BY <1>1, <2>3
  <2> QED
    BY <1>1, <2>3, <2>4, <2>5 DEF R
<1> QED
  BY <1>2 DEF Ring!Slot, R

(* A slot is one of the ring's. *)
LEMMA SlotInRing == ASSUME NEW i \in Nat PROVE Ring!Slot(i) \in 0 .. Ring!RingSize - 1
<1> DEFINE R == Ring!RingSize
<1>1. R \in Nat /\ R > 0
  BY RingIsLarge
<1> HIDE DEF R
<1>2. i % R \in 0 .. R - 1
  BY <1>1
<1> QED
  BY <1>2 DEF Ring!Slot, R

-----------------------------------------------------------------------------
(* The semaphores keep the indices apart: never more than maxcap elements, *)
(* and none that the consumer holds is missing.                            *)
LEMMA RingBounds ==
  ASSUME RingSemas, RingPlaces, RingUnits
  PROVE  /\ nextSlot + SlotInHand - nextItem <= maxcap
         /\ nextItem + ItemInHand <= nextSlot - ItemToSignal
         /\ nextItem <= nextSlot /\ nextSlot - nextItem <= maxcap
<1>1. RingSema("slots") /\ RingSema("items")
  BY DEF RingSemas, Two
<1>2. ringGranted["slots"] <= ringGiven["slots"] /\ ringGranted["items"] <= ringGiven["items"]
  BY <1>1 DEF RingSema, SemaRight, Debt
<1> QED
  BY <1>2, RingIsLarge DEF RingUnits, SlotInHand, ItemInHand, ItemToSignal, SlotToSignal

(* The semaphores' steps leave the ring's elements where they are. *)
LEMMA RingDataStays ==
  ASSUME RingData, UNCHANGED <<data, nextSlot, nextItem, ringPeeked>>, ringPpc' = "freed" <=> ringPpc = "freed"
  PROVE  RingData'
  BY DEF RingData, Ring!Slot, Ring!RingSize

(* The constructors establish the invariant: maxcap free slots, no element. *)
LEMMA RingInit == ASSUME Init PROVE RingInv
<1>1. /\ ringCount = [s \in Two |-> IF s = "slots" THEN maxcap ELSE 0]
      /\ ringGiven = [s \in Two |-> IF s = "slots" THEN maxcap ELSE 0]
      /\ ringKernel = [s \in Two |-> 0] /\ ringGranted = [s \in Two |-> 0]
      /\ ringSpc = [s \in Two |-> "idle"] /\ ringWpc = [s \in Two |-> "idle"]
      /\ ringTimeout = [s \in Two |-> "try"]
      /\ data = [i \in 0 .. Ring!RingSize - 1 |-> 0]
      /\ nextSlot = 0 /\ nextItem = 0 /\ ringPeeked = 0 /\ ringPpc = "idle" /\ ringCpc = "idle"
  BY DEF Init, Ring!Init, Ring!S!Init, Two, Ring!None
<1>2. maxcap \in Nat /\ RingItems \in Nat
  BY PartsAssumption DEF Ring!CapacityAssumption
<1>3. RingSemas
  <2>1. \A s \in Two : RingSema(s)
    BY <1>1, <1>2 DEF RingSema, SemaRight, Debtor, Debt, Due, Posting, WaiterPlaces
  <2> QED
    BY <1>1, <1>2, <2>1 DEF RingSemas, WaiterPlaces
<1>4. RingPlaces
  BY <1>1 DEF RingPlaces, Two
<1>5. RingUnits
  BY <1>1, <1>2 DEF RingUnits, Two, SlotInHand, ItemInHand, SlotToSignal, ItemToSignal
<1>6. RingData
  BY <1>1, <1>2 DEF RingData
<1> QED
  BY <1>3, <1>4, <1>5, <1>6 DEF RingInv

(* An enqueue begins: the producer looks for a slot. *)
LEMMA EnqueueKeepsRing ==
  ASSUME RingInv, NEW t \in {"try", "none", "zero", "some"}, Ring!Enqueue(t)
  PROVE  RingInv' /\ RingFailsEmpty
<1>1. /\ ringPpc = "idle" /\ ringPpc' = "acquire" /\ nextSlot < RingItems
      /\ UNCHANGED <<data, nextSlot, nextItem, ringLast, ringPeeked, ringCpc>>
      /\ Ring!S!TryWait("slots", t)
  BY DEF Ring!Enqueue, Ring!ringVars
<1>2. /\ RingSemas' /\ UNCHANGED <<ringSpc, ringGiven, ringGranted>>
      /\ ringWpc["slots"] = "idle" /\ ringWpc'["slots"] \notin {"idle", "got"}
      /\ ringWpc'["slots"] = "failed" => ringGiven["slots"] = ringGranted["slots"]
      /\ ringWpc'["items"] = ringWpc["items"]
  BY <1>1, RingTryWait DEF RingInv, Two
<1>3. RingPlaces'
  BY <1>1, <1>2 DEF RingInv, RingPlaces
<1>4. RingUnits'
  BY <1>1, <1>2 DEF RingInv, RingUnits, RingPlaces, SlotInHand, ItemInHand, SlotToSignal, ItemToSignal
<1>5. RingData'
  BY <1>1, RingDataStays DEF RingInv
<1> QED
  BY <1>2, <1>3, <1>4, <1>5 DEF RingInv, RingFailsEmpty, Two

(* A dequeue begins: the consumer looks for an element. *)
LEMMA DequeueKeepsRing ==
  ASSUME RingInv, NEW t \in {"try", "none", "zero", "some"}, Ring!Dequeue(t)
  PROVE  RingInv' /\ RingFailsEmpty
<1>1. /\ ringCpc = "idle" /\ ringCpc' = "acquire"
      /\ UNCHANGED <<data, nextSlot, nextItem, ringLast, ringPeeked, ringPpc>>
      /\ Ring!S!TryWait("items", t)
  BY DEF Ring!Dequeue, Ring!ringVars
<1>2. /\ RingSemas' /\ UNCHANGED <<ringSpc, ringGiven, ringGranted>>
      /\ ringWpc["items"] = "idle" /\ ringWpc'["items"] \notin {"idle", "got"}
      /\ ringWpc'["items"] = "failed" => ringGiven["items"] = ringGranted["items"]
      /\ ringWpc'["slots"] = ringWpc["slots"]
  BY <1>1, RingTryWait DEF RingInv, Two
<1>3. RingPlaces'
  BY <1>1, <1>2 DEF RingInv, RingPlaces
<1>4. RingUnits'
  BY <1>1, <1>2 DEF RingInv, RingUnits, RingPlaces, SlotInHand, ItemInHand, SlotToSignal, ItemToSignal
<1>5. RingData'
  BY <1>1, RingDataStays DEF RingInv
<1> QED
  BY <1>2, <1>3, <1>4, <1>5 DEF RingInv, RingFailsEmpty, Two

(* A step of the producer's wait: a unit it gets is a slot in its hand. *)
LEMMA AcquireSlotKeepsRing ==
  ASSUME RingInv, Ring!AcquireSlot
  PROVE  RingInv' /\ RingFailsEmpty
<1>1. /\ ringPpc = "acquire" /\ Ring!S!Waiter("slots")
      /\ UNCHANGED <<data, nextSlot, nextItem, ringLast, ringPeeked, ringCpc>>
      /\ ringWpc["slots"] = "got" => ringPpc' = "construct"
      /\ ringWpc["slots"] = "failed" => ringPpc' = "idle"
      /\ ringWpc["slots"] \notin {"got", "failed"} => ringPpc' = "acquire"
  BY DEF Ring!AcquireSlot, Ring!ringVars
<1>2. /\ RingSemas' /\ UNCHANGED <<ringSpc, ringGiven>>
      /\ ringWpc["slots"] \in {"got", "failed"} <=> ringWpc'["slots"] = "idle"
      /\ ringWpc["slots"] \in {"got", "failed"} => ringGranted'["slots"] = ringGranted["slots"]
      /\ ringWpc["slots"] \notin {"got", "failed"} =>
           ringGranted'["slots"] = ringGranted["slots"] + (IF ringWpc'["slots"] = "got" THEN 1 ELSE 0)
      /\ ringWpc'["slots"] = "failed" => ringGiven["slots"] = ringGranted["slots"]
      /\ ringWpc'["items"] = ringWpc["items"] /\ ringGranted'["items"] = ringGranted["items"]
  BY <1>1, RingWaiter DEF RingInv, Two
<1>3. RingPlaces'
  BY <1>1, <1>2 DEF RingInv, RingPlaces
<1>4. RingUnits'
  BY <1>1, <1>2 DEF RingInv, RingUnits, RingPlaces, SlotInHand, ItemInHand, SlotToSignal, ItemToSignal
<1>5. RingData'
  BY <1>1, RingDataStays DEF RingInv
<1> QED
  BY <1>2, <1>3, <1>4, <1>5 DEF RingInv, RingFailsEmpty, Two

(* A step of the consumer's wait: a unit it gets is an element in its hand. *)
LEMMA AcquireItemKeepsRing ==
  ASSUME RingInv, Ring!AcquireItem
  PROVE  RingInv' /\ RingFailsEmpty
<1>1. /\ ringCpc = "acquire" /\ Ring!S!Waiter("items")
      /\ UNCHANGED <<data, nextSlot, nextItem, ringLast, ringPeeked, ringPpc>>
      /\ ringWpc["items"] = "got" => ringCpc' = "remove"
      /\ ringWpc["items"] = "failed" => ringCpc' = "idle"
      /\ ringWpc["items"] \notin {"got", "failed"} => ringCpc' = "acquire"
  BY DEF Ring!AcquireItem, Ring!ringVars
<1>2. /\ RingSemas' /\ UNCHANGED <<ringSpc, ringGiven>>
      /\ ringWpc["items"] \in {"got", "failed"} <=> ringWpc'["items"] = "idle"
      /\ ringWpc["items"] \in {"got", "failed"} => ringGranted'["items"] = ringGranted["items"]
      /\ ringWpc["items"] \notin {"got", "failed"} =>
           ringGranted'["items"] = ringGranted["items"] + (IF ringWpc'["items"] = "got" THEN 1 ELSE 0)
      /\ ringWpc'["items"] = "failed" => ringGiven["items"] = ringGranted["items"]
      /\ ringWpc'["slots"] = ringWpc["slots"] /\ ringGranted'["slots"] = ringGranted["slots"]
  BY <1>1, RingWaiter DEF RingInv, Two
<1>3. RingPlaces'
  BY <1>1, <1>2 DEF RingInv, RingPlaces
<1>4. RingUnits'
  BY <1>1, <1>2 DEF RingInv, RingUnits, RingPlaces, SlotInHand, ItemInHand, SlotToSignal, ItemToSignal
<1>5. RingData'
  BY <1>1, RingDataStays DEF RingInv
<1> QED
  BY <1>2, <1>3, <1>4, <1>5 DEF RingInv, RingFailsEmpty, Two

(* The producer signals the element it has constructed. *)
LEMMA SignalItemKeepsRing ==
  ASSUME RingInv, Ring!SignalItem
  PROVE  RingInv' /\ UNCHANGED ringWpc
<1>1. /\ ringPpc \in {"signal", "post"}
      /\ ringPpc = "signal" => Ring!S!Signal("items")
      /\ ringPpc = "post" => Ring!S!Post("items")
      /\ ringPpc' = IF ringSpc'["items"] = "post" THEN "post" ELSE "idle"
      /\ UNCHANGED <<data, nextSlot, nextItem, ringLast, ringPeeked, ringCpc>>
  BY DEF Ring!SignalItem, Ring!ringVars
<1>2. /\ RingSemas' /\ UNCHANGED <<ringWpc, ringGranted>>
      /\ Ring!S!Signal("items") => ringGiven'["items"] = ringGiven["items"] + 1 /\ ringSpc["items"] = "idle"
      /\ Ring!S!Post("items") => UNCHANGED ringGiven /\ ringSpc["items"] = "post" /\ ringSpc'["items"] = "idle"
      /\ ringSpc'["slots"] = ringSpc["slots"] /\ ringGiven'["slots"] = ringGiven["slots"]
  BY <1>1, RingSignal DEF RingInv, Two
<1>3. RingPlaces'
  BY <1>1, <1>2 DEF RingInv, RingPlaces
<1>4. RingUnits'
  <2>1. /\ ringGiven'["items"] = nextSlot /\ ringPpc' \in {"idle", "post"}
        /\ nextSlot \in Nat
    BY <1>1, <1>2 DEF RingInv, RingUnits, RingPlaces, ItemToSignal
  <2> QED
    BY <1>1, <1>2, <2>1 DEF RingInv, RingUnits, RingPlaces, SlotInHand, ItemInHand, SlotToSignal, ItemToSignal
<1>5. RingData'
  BY <1>1, RingDataStays DEF RingInv
<1> QED
  BY <1>2, <1>3, <1>4, <1>5 DEF RingInv

(* The consumer signals the slot it has emptied. *)
LEMMA SignalSlotKeepsRing ==
  ASSUME RingInv, Ring!SignalSlot
  PROVE  RingInv' /\ UNCHANGED ringWpc
<1>1. /\ ringCpc \in {"signal", "post"}
      /\ ringCpc = "signal" => Ring!S!Signal("slots")
      /\ ringCpc = "post" => Ring!S!Post("slots")
      /\ ringCpc' = IF ringSpc'["slots"] = "post" THEN "post" ELSE "idle"
      /\ UNCHANGED <<data, nextSlot, nextItem, ringLast, ringPeeked, ringPpc>>
  BY DEF Ring!SignalSlot, Ring!ringVars
<1>2. /\ RingSemas' /\ UNCHANGED <<ringWpc, ringGranted>>
      /\ Ring!S!Signal("slots") => ringGiven'["slots"] = ringGiven["slots"] + 1 /\ ringSpc["slots"] = "idle"
      /\ Ring!S!Post("slots") => UNCHANGED ringGiven /\ ringSpc["slots"] = "post" /\ ringSpc'["slots"] = "idle"
      /\ ringSpc'["items"] = ringSpc["items"] /\ ringGiven'["items"] = ringGiven["items"]
  BY <1>1, RingSignal DEF RingInv, Two
<1>3. RingPlaces'
  BY <1>1, <1>2 DEF RingInv, RingPlaces
<1>4. RingUnits'
  <2>1. /\ ringGiven'["slots"] = maxcap + nextItem /\ ringCpc' \in {"idle", "post"}
        /\ nextItem \in Nat
    BY <1>1, <1>2, RingIsLarge DEF RingInv, RingUnits, RingPlaces, SlotToSignal
  <2> QED
    BY <1>1, <1>2, <2>1, RingIsLarge
       DEF RingInv, RingUnits, RingPlaces, SlotInHand, ItemInHand, SlotToSignal, ItemToSignal
<1>5. RingData'
  BY <1>1, RingDataStays DEF RingInv
<1> QED
  BY <1>2, <1>3, <1>4, <1>5 DEF RingInv

(* The producer constructs in a slot of its own: no element is in it. *)
LEMMA ConstructItemKeepsRing ==
  ASSUME RingInv, Ring!ConstructItem
  PROVE  RingInv' /\ UNCHANGED ringWpc
<1> DEFINE n == Ring!Slot(nextSlot)
<1>1. /\ ringPpc = "construct" /\ ringPpc' = "signal" /\ nextSlot' = nextSlot + 1
      /\ data' = [data EXCEPT ![n] = nextSlot + 1]
      /\ UNCHANGED <<ringCount, ringKernel, ringSpc, ringWpc, ringTimeout, ringGiven, ringGranted, nextItem,
                     ringPeeked, ringCpc>>
  BY DEF Ring!ConstructItem, Ring!semaVars
<1>2. /\ nextSlot \in Nat /\ nextItem \in Nat /\ nextItem <= nextSlot /\ nextSlot - nextItem < maxcap
      /\ nextSlot < RingItems /\ RingItems \in Nat
  BY <1>1, RingBounds, RingIsLarge, PartsAssumption
     DEF RingInv, RingUnits, SlotInHand, Ring!CapacityAssumption
<1>3. n \in 0 .. Ring!RingSize - 1
  BY <1>2, SlotInRing
<1>4. \A k \in nextItem .. nextSlot - 1 : Ring!Slot(k) # n
  BY <1>2, SlotsDiffer, RingIsLarge
<1>5. \A k \in nextItem .. nextSlot : Ring!Slot(k) \in 0 .. Ring!RingSize - 1
  BY <1>2, SlotInRing
<1>6. RingSemas'
  BY <1>1 DEF RingInv, RingSemas, RingSema
<1>7. RingPlaces'
  BY <1>1 DEF RingInv, RingPlaces
<1>8. RingUnits'
  BY <1>1, <1>2 DEF RingInv, RingUnits, RingPlaces, SlotInHand, ItemInHand, SlotToSignal, ItemToSignal
<1>9. RingData'
  <2> HIDE DEF n
  <2>1. data \in [0 .. Ring!RingSize - 1 -> 0 .. RingItems]
    BY DEF RingInv, RingData
  <2>2. /\ data' \in [0 .. Ring!RingSize - 1 -> 0 .. RingItems] /\ data'[n] = nextSlot + 1
        /\ \A i \in 0 .. Ring!RingSize - 1 : i # n => data'[i] = data[i]
    BY <1>1, <1>2, <1>3, <2>1
  <2>3. ASSUME NEW k \in nextItem .. nextSlot PROVE data'[Ring!Slot(k)] = k + 1
    <3>1. CASE k = nextSlot
      BY <2>2, <3>1 DEF n
    <3>2. CASE k # nextSlot
      <4>1. k \in nextItem .. nextSlot - 1
        BY <1>2, <3>2
      <4>2. data[Ring!Slot(k)] = k + 1
        BY <1>1, <4>1 DEF RingInv, RingData
      <4> QED
        BY <1>4, <1>5, <2>2, <4>1, <4>2
    <3> QED
      BY <3>1, <3>2
  <2>4. ASSUME NEW i \in 0 .. Ring!RingSize - 1, data'[i] # 0
        PROVE  \E k \in nextItem .. nextSlot : i = Ring!Slot(k)
    <3>1. CASE i = n
      BY <1>2, <3>1 DEF n
    <3>2. CASE i # n
      <4>1. \E k \in nextItem .. nextSlot - 1 : i = Ring!Slot(k)
        BY <1>1, <2>2, <2>4, <3>2 DEF RingInv, RingData
      <4> QED
        BY <1>2, <4>1
    <3> QED
      BY <3>1, <3>2
  <2>5. nextItem' .. nextSlot' - 1 = nextItem .. nextSlot
    BY <1>1, <1>2
  <2>6. ringPeeked' # 0 => ringPeeked' = nextItem' + 1
    BY <1>1 DEF RingInv, RingData
  <2>7. ringPpc' = "signal"
    BY <1>1
  <2> QED
    BY <2>2, <2>3, <2>4, <2>5, <2>6, <2>7 DEF RingData, Ring!Slot, Ring!RingSize
<1> QED
  BY <1>1, <1>6, <1>7, <1>8, <1>9 DEF RingInv

(* The consumer takes the oldest element, which is there. *)
LEMMA RemoveItemKeepsRing ==
  ASSUME RingInv, Ring!RemoveItem
  PROVE  RingInv' /\ UNCHANGED ringWpc
<1> DEFINE n == Ring!Slot(nextItem)
<1>1. /\ ringCpc = "remove" /\ ringCpc' = "signal" /\ nextItem' = nextItem + 1
      /\ data' = [data EXCEPT ![n] = 0] /\ ringPeeked' = 0
      /\ UNCHANGED <<ringCount, ringKernel, ringSpc, ringWpc, ringTimeout, ringGiven, ringGranted, nextSlot,
                     ringPpc>>
  BY DEF Ring!RemoveItem, Ring!semaVars, Ring!None
<1>2. /\ nextSlot \in Nat /\ nextItem \in Nat /\ nextItem < nextSlot /\ nextSlot - nextItem <= maxcap
      /\ RingItems \in Nat /\ ringPpc # "freed"
  BY <1>1, RingBounds, PartsAssumption
     DEF RingInv, RingUnits, RingPlaces, ItemInHand, ItemToSignal, Ring!CapacityAssumption
<1>3. n \in 0 .. Ring!RingSize - 1
  BY <1>2, SlotInRing
<1>4. \A k \in nextItem + 1 .. nextSlot - 1 : Ring!Slot(k) # n /\ Ring!Slot(k) \in 0 .. Ring!RingSize - 1
  BY <1>2, SlotsDiffer, SlotInRing, RingIsLarge
<1>5. RingSemas'
  BY <1>1 DEF RingInv, RingSemas, RingSema
<1>6. RingPlaces'
  BY <1>1 DEF RingInv, RingPlaces
<1>7. RingUnits'
  BY <1>1, <1>2, RingIsLarge DEF RingInv, RingUnits, RingPlaces, SlotInHand, ItemInHand, SlotToSignal, ItemToSignal
<1>8. RingData'
  <2> HIDE DEF n
  <2>1. data \in [0 .. Ring!RingSize - 1 -> 0 .. RingItems]
    BY DEF RingInv, RingData
  <2>2. /\ data' \in [0 .. Ring!RingSize - 1 -> 0 .. RingItems] /\ data'[n] = 0
        /\ \A i \in 0 .. Ring!RingSize - 1 : i # n => data'[i] = data[i]
    BY <1>1, <1>2, <1>3, <2>1
  <2>3. ASSUME NEW k \in nextItem + 1 .. nextSlot - 1 PROVE data'[Ring!Slot(k)] = k + 1
    <3>1. data[Ring!Slot(k)] = k + 1
      BY <1>2 DEF RingInv, RingData
    <3> QED
      BY <1>4, <2>2, <3>1
  <2>4. ASSUME NEW i \in 0 .. Ring!RingSize - 1, data'[i] # 0
        PROVE  \E k \in nextItem + 1 .. nextSlot - 1 : i = Ring!Slot(k)
    <3>1. i # n /\ data[i] # 0
      BY <2>2, <2>4
    <3>2. PICK k \in nextItem .. nextSlot - 1 : i = Ring!Slot(k)
      BY <1>2, <3>1 DEF RingInv, RingData
    <3>3. k # nextItem
      BY <3>1, <3>2 DEF n
    <3> QED
      BY <1>2, <3>2, <3>3
  <2>5. nextItem' .. nextSlot' - 1 = nextItem + 1 .. nextSlot - 1
    BY <1>1, <1>2
  <2>6. ringPpc' # "freed" /\ ringPeeked' = 0
    BY <1>1, <1>2
  <2>7. /\ \A k \in nextItem' .. nextSlot' - 1 : data'[Ring!Slot(k)] = k + 1
        /\ \A i \in 0 .. Ring!RingSize - 1 : data'[i] # 0 => \E k \in nextItem' .. nextSlot' - 1 : i = Ring!Slot(k)
    BY <2>3, <2>4, <2>5
  <2> QED
    BY <2>2, <2>6, <2>7 DEF RingData, Ring!Slot, Ring!RingSize
<1> QED
  BY <1>1, <1>5, <1>6, <1>7, <1>8 DEF RingInv

(* What the elements' semaphore promises an idle consumer is in the ring. *)
LEMMA RingAvailable ==
  ASSUME RingInv, ringCpc = "idle"
  PROVE  /\ Ring!S!availableApprox("items") = nextSlot - ItemToSignal - nextItem
         /\ Ring!S!availableApprox("items") \in Nat /\ nextSlot \in Nat /\ nextItem \in Nat
         /\ ringCount["items"] = nextSlot - ItemToSignal - nextItem
<1>1. RingSema("items") /\ ringWpc["items"] = "idle"
  BY DEF RingInv, RingSemas, RingPlaces, Two
<1>2. ringCount["items"] \in Nat /\ ringCount["items"] = ringGiven["items"] - ringGranted["items"]
  BY <1>1 DEF RingSema, SemaRight, Debt, Debtor
<1>3. ringGranted["items"] = nextItem
  BY <1>1 DEF RingInv, RingUnits, ItemInHand
<1> QED
  BY <1>2, <1>3 DEF RingInv, RingUnits, ItemToSignal, Ring!S!availableApprox

(* peek() shows the element at nextItem, which is there when the count says so. *)
LEMMA PeekKeepsRing ==
  ASSUME RingInv, Ring!Peek
  PROVE  RingInv' /\ UNCHANGED ringWpc
<1>1. /\ ringCpc = "idle" /\ Ring!S!availableApprox("items") > 0
      /\ ringPeeked' = IF data[Ring!Slot(nextItem)] = 0 THEN -1 ELSE data[Ring!Slot(nextItem)]
      /\ UNCHANGED <<ringCount, ringKernel, ringSpc, ringWpc, ringTimeout, ringGiven, ringGranted, data, nextSlot,
                     nextItem, ringPpc, ringCpc>>
  BY DEF Ring!Peek, Ring!semaVars, Ring!None
<1>2. nextSlot \in Nat /\ nextItem \in Nat /\ nextItem < nextSlot
  BY <1>1, RingAvailable DEF ItemToSignal
<1>3. data[Ring!Slot(nextItem)] = nextItem + 1
  BY <1>1, <1>2 DEF RingInv, RingData, RingPlaces
<1>4. ringPeeked' = nextItem' + 1
  BY <1>1, <1>2, <1>3
<1>5. RingSemas' /\ RingPlaces' /\ RingUnits'
  BY <1>1 DEF RingInv, RingSemas, RingSema, RingPlaces, RingUnits, SlotInHand, ItemInHand,
              ItemToSignal, SlotToSignal
<1>6. RingData'
  BY <1>1, <1>4 DEF RingInv, RingData, Ring!Slot, Ring!RingSize
<1> QED
  BY <1>1, <1>5, <1>6 DEF RingInv

(* The destructor finds all of the elements by the count of the semaphore. *)
LEMMA DestroyKeepsRing ==
  ASSUME RingInv, Ring!Destroy
  PROVE  RingInv' /\ UNCHANGED ringWpc
<1> DEFINE a == Ring!S!availableApprox("items")
<1>1. /\ ringPpc = "idle" /\ ringCpc = "idle" /\ ringPpc' = "freed" /\ ringCpc' = "freed"
      /\ data' = [i \in DOMAIN data |-> IF \E k \in 0 .. a - 1 : Ring!Slot(nextItem + k) = i THEN 0 ELSE data[i]]
      /\ UNCHANGED <<ringCount, ringKernel, ringSpc, ringWpc, ringTimeout, ringGiven, ringGranted, nextSlot,
                     nextItem, ringPeeked>>
  BY DEF Ring!Destroy, Ring!semaVars, Ring!None
<1>2. a = nextSlot - nextItem /\ a \in Nat /\ nextSlot \in Nat /\ nextItem \in Nat
  BY <1>1, RingAvailable DEF ItemToSignal
<1> HIDE DEF a
<1>3. data \in [0 .. Ring!RingSize - 1 -> 0 .. RingItems]
  BY DEF RingInv, RingData
<1>4. ASSUME NEW i \in 0 .. Ring!RingSize - 1 PROVE data'[i] = 0
  <2>1. CASE data[i] = 0
    BY <1>1, <1>3, <2>1
  <2>2. CASE data[i] # 0
    <3>1. PICK k \in nextItem .. nextSlot - 1 : i = Ring!Slot(k)
      BY <1>1, <2>2 DEF RingInv, RingData
    <3>2. k - nextItem \in 0 .. a - 1 /\ nextItem + (k - nextItem) = k
      BY <1>2
    <3>3. \E m \in 0 .. a - 1 : Ring!Slot(nextItem + m) = i
      BY <3>1, <3>2
    <3> QED
      BY <1>1, <1>3, <3>3
  <2> QED
    BY <2>1, <2>2
<1>5. data' \in [0 .. Ring!RingSize - 1 -> 0 .. RingItems]
  <2>1. DOMAIN data' = 0 .. Ring!RingSize - 1 /\ data' = [i \in DOMAIN data' |-> data'[i]]
    BY <1>1, <1>3
  <2>2. 0 \in 0 .. RingItems
    BY PartsAssumption DEF Ring!CapacityAssumption
  <2> QED
    BY <1>4, <2>1, <2>2
<1>6. RingSemas' /\ RingPlaces' /\ RingUnits'
  BY <1>1 DEF RingInv, RingSemas, RingSema, RingPlaces, RingUnits, SlotInHand, ItemInHand,
              ItemToSignal, SlotToSignal
<1>7. RingData'
  BY <1>1, <1>4, <1>5 DEF RingInv, RingData, Ring!Slot, Ring!RingSize
<1> QED
  BY <1>1, <1>6, <1>7 DEF RingInv

-----------------------------------------------------------------------------
(* The next number is appended behind them, and the first is the head. *)
LEMMA NumberedRight ==
  ASSUME NEW a \in Nat, NEW n \in Nat
  PROVE  /\ Numbered(a, n) \in Seq(Nat) /\ Len(Numbered(a, n)) = n
         /\ Append(Numbered(a, n), a + n + 1) = Numbered(a, n + 1)
         /\ n > 0 => /\ Numbered(a, n) # << >> /\ Head(Numbered(a, n)) = a + 1
                     /\ Tail(Numbered(a, n)) = Numbered(a + 1, n - 1)
<1> DEFINE s == Numbered(a, n)
<1>1. s \in Seq(Nat) /\ Len(s) = n /\ \A i \in 1 .. n : s[i] = a + i
  BY DEF Numbered
<1>2. Append(s, a + n + 1) = Numbered(a, n + 1)
  <2>1. /\ Append(s, a + n + 1) \in Seq(Nat) /\ Len(Append(s, a + n + 1)) = n + 1
        /\ \A i \in 1 .. n + 1 : Append(s, a + n + 1)[i] = IF i = n + 1 THEN a + n + 1 ELSE s[i]
    <3> HIDE DEF s
    <3> QED
      BY <1>1
  <2>2. Numbered(a, n + 1) \in Seq(Nat) /\ Len(Numbered(a, n + 1)) = n + 1
    BY DEF Numbered
  <2>3. \A i \in 1 .. n + 1 : Append(s, a + n + 1)[i] = Numbered(a, n + 1)[i]
    BY <1>1, <2>1 DEF Numbered
  <2> QED
    BY <2>1, <2>2, <2>3, SeqEqual
<1>3. ASSUME n > 0
      PROVE  s # << >> /\ Head(s) = a + 1 /\ Tail(s) = Numbered(a + 1, n - 1)
  <2>1. s # << >> /\ Head(s) = a + 1
    <3> HIDE DEF s
    <3> QED
      BY <1>1, <1>3
  <2>2. Tail(s) \in Seq(Nat) /\ Len(Tail(s)) = n - 1 /\ \A i \in 1 .. n - 1 : Tail(s)[i] = s[i + 1]
    <3> HIDE DEF s
    <3> QED
      BY <1>1, <1>3, <2>1, HeadTailProperties
  <2>3. Numbered(a + 1, n - 1) \in Seq(Nat) /\ Len(Numbered(a + 1, n - 1)) = n - 1
    BY <1>3 DEF Numbered
  <2>4. \A i \in 1 .. n - 1 : Tail(s)[i] = Numbered(a + 1, n - 1)[i]
    BY <1>1, <1>3, <2>2 DEF Numbered
  <2> QED
    BY <2>1, <2>2, <2>3, <2>4, SeqEqual
<1> QED
  BY <1>1, <1>2, <1>3

Window(d, first, next) == [i \in 1 .. next - first |-> d[Ring!Slot(first + i - 1)]]

(* The ring's contents are numbered, in whatever slots they are. *)
LEMMA ContentsNumbered ==
  ASSUME NEW d, NEW first \in Nat, NEW next \in Nat, first <= next,
         \A k \in first .. next - 1 : d[Ring!Slot(k)] = k + 1
  PROVE  Window(d, first, next) = Numbered(first, next - first)
<1>1. ASSUME NEW i \in 1 .. next - first PROVE d[Ring!Slot(first + i - 1)] = first + i
  <2>1. first + i - 1 \in first .. next - 1 /\ (first + i - 1) + 1 = first + i
    OBVIOUS
  <2> QED
    BY <2>1
<1> QED
  BY <1>1 DEF Numbered, Window

(* Every step of the ring keeps the invariant, and a wait fails only when  *)
(* there is no unit.                                                       *)
LEMMA RingNext ==
  ASSUME RingInv, Ring!Next
  PROVE  RingInv' /\ RingFailsEmpty
<1>1. CASE \E t \in Ring!Timeouts : Ring!Enqueue(t) \/ Ring!Dequeue(t)
  BY <1>1, EnqueueKeepsRing, DequeueKeepsRing DEF Ring!Timeouts
<1>2. CASE Ring!AcquireSlot
  BY <1>2, AcquireSlotKeepsRing
<1>3. CASE Ring!AcquireItem
  BY <1>3, AcquireItemKeepsRing
<1>4. CASE Ring!ConstructItem \/ Ring!SignalItem \/ Ring!RemoveItem \/ Ring!SignalSlot \/ Ring!Peek \/ Ring!Destroy
  <2>1. RingInv' /\ UNCHANGED ringWpc
    BY <1>4, ConstructItemKeepsRing, SignalItemKeepsRing, RemoveItemKeepsRing, SignalSlotKeepsRing, PeekKeepsRing,
       DestroyKeepsRing
  <2> QED
    BY <2>1 DEF RingFailsEmpty
<1>5. CASE Ring!Freed
  BY <1>5 DEF RingFailsEmpty, Ring!Freed, Ring!vars, Ring!semaVars, Ring!ringVars, RingInv, RingSemas, RingSema,
              RingPlaces, RingUnits, RingData, SlotInHand, ItemInHand, ItemToSignal, SlotToSignal, Ring!Slot, Ring!RingSize
<1> QED
  BY <1>1, <1>2, <1>3, <1>4, <1>5 DEF Ring!Next

(* Steps of the abstract queue: construction appends, removal takes the    *)
(* head, and no other step but the destructor's is seen.                   *)
LEMMA RingRefines ==
  ASSUME RingInv, Ring!Next
  PROVE  Ring!Fifo!Next \/ ringPpc' = "freed" \/ UNCHANGED <<Ring!Contents, ringLast>>
<1>1. CASE Ring!ConstructItem
  <2>1. /\ ringPpc = "construct" /\ ringPpc' = "signal" /\ nextSlot' = nextSlot + 1
        /\ UNCHANGED <<nextItem, ringLast>>
    BY <1>1 DEF Ring!ConstructItem
  <2>2. /\ nextSlot \in Nat /\ nextItem \in Nat /\ nextItem <= nextSlot /\ nextSlot - nextItem < maxcap
        /\ nextSlot < RingItems /\ RingItems \in Nat
    BY <2>1, RingBounds, RingIsLarge, PartsAssumption
       DEF RingInv, RingUnits, SlotInHand, Ring!CapacityAssumption
  <2>3. /\ \A k \in nextItem .. nextSlot - 1 : data[Ring!Slot(k)] = k + 1
        /\ \A k \in nextItem .. nextSlot' - 1 : data'[Ring!Slot(k)] = k + 1
    BY <1>1, <2>1, ConstructItemKeepsRing DEF RingInv, RingData, Ring!Slot, Ring!RingSize
  <2> DEFINE n == nextSlot - nextItem
  <2>4. Ring!Contents = Numbered(nextItem, n)
    <3>1. Window(data, nextItem, nextSlot) = Numbered(nextItem, n)
      BY <2>2, <2>3, ContentsNumbered
    <3> QED
      BY <3>1 DEF Ring!Contents, Window
  <2>5. Ring!Contents' = Numbered(nextItem, n + 1)
    <3>1. nextSlot' \in Nat /\ nextItem <= nextSlot' /\ nextSlot' - nextItem = n + 1
      BY <2>1, <2>2
    <3>2. Window(data', nextItem, nextSlot') = Numbered(nextItem, nextSlot' - nextItem)
      BY <2>2, <2>3, <3>1, ContentsNumbered
    <3> QED
      BY <2>1, <3>1, <3>2 DEF Ring!Contents, Window, Ring!Slot, Ring!RingSize
  <2>6. n \in Nat /\ n < maxcap /\ nextItem + n + 1 \in 1 .. RingItems
    BY <2>2
  <2> HIDE DEF n
  <2>7. Append(Ring!Contents, nextItem + n + 1) = Ring!Contents' /\ Len(Ring!Contents) = n
    BY <2>2, <2>4, <2>5, <2>6, NumberedRight
  <2> QED
    BY <2>1, <2>6, <2>7 DEF Ring!Fifo!Next, Ring!Fifo!Enqueue
<1>2. CASE Ring!RemoveItem
  <2>1. /\ ringCpc = "remove" /\ nextItem' = nextItem + 1 /\ ringLast' = data[Ring!Slot(nextItem)]
        /\ UNCHANGED <<nextSlot, ringPpc>>
    BY <1>2 DEF Ring!RemoveItem
  <2>2. nextSlot \in Nat /\ nextItem \in Nat /\ nextItem < nextSlot /\ ringPpc # "freed"
    BY <2>1, RingBounds DEF RingInv, RingUnits, RingPlaces, ItemInHand, ItemToSignal
  <2>3. /\ \A k \in nextItem .. nextSlot - 1 : data[Ring!Slot(k)] = k + 1
        /\ \A k \in nextItem' .. nextSlot - 1 : data'[Ring!Slot(k)] = k + 1
    BY <1>2, <2>1, <2>2, RemoveItemKeepsRing DEF RingInv, RingData, Ring!Slot, Ring!RingSize
  <2> DEFINE n == nextSlot - nextItem
  <2>4. Ring!Contents = Numbered(nextItem, n)
    <3>1. Window(data, nextItem, nextSlot) = Numbered(nextItem, n)
      BY <2>2, <2>3, ContentsNumbered
    <3> QED
      BY <3>1 DEF Ring!Contents, Window
  <2>5. Ring!Contents' = Numbered(nextItem + 1, n - 1)
    <3>1. nextItem' \in Nat /\ nextItem' <= nextSlot /\ nextSlot - nextItem' = n - 1
      BY <2>1, <2>2
    <3>2. Window(data', nextItem', nextSlot) = Numbered(nextItem', nextSlot - nextItem')
      BY <2>2, <2>3, <3>1, ContentsNumbered
    <3> QED
      BY <2>1, <3>1, <3>2 DEF Ring!Contents, Window, Ring!Slot, Ring!RingSize
  <2>6. n \in Nat /\ n > 0
    BY <2>2
  <2>7. ringLast' = nextItem + 1
    BY <2>1, <2>2, <2>3
  <2> HIDE DEF n
  <2>8. Ring!Contents # << >> /\ Head(Ring!Contents) = nextItem + 1 /\ Tail(Ring!Contents) = Ring!Contents'
    BY <2>2, <2>4, <2>5, <2>6, NumberedRight
  <2> QED
    BY <2>7, <2>8 DEF Ring!Fifo!Next, Ring!Fifo!Dequeue
<1>3. CASE Ring!Destroy
  BY <1>3 DEF Ring!Destroy
<1>4. CASE UNCHANGED <<data, nextSlot, nextItem, ringLast>>
  BY <1>4 DEF Ring!Contents, Ring!Slot, Ring!RingSize
<1> QED
  BY <1>1, <1>2, <1>3, <1>4 DEF Ring!Next, Ring!Enqueue, Ring!Dequeue, Ring!AcquireSlot, Ring!SignalItem,
     Ring!AcquireItem, Ring!SignalSlot, Ring!Peek, Ring!Freed, Ring!vars, Ring!ringVars

(* What the invariant says of the ring and of its semaphores. *)
LEMMA RingOfInv ==
  ASSUME RingInv
  PROVE  /\ Ring!TypeOK /\ Ring!NoSlotRace /\ Ring!PeekIsNext /\ Ring!CapacityConserved /\ Ring!NothingLeaks
         /\ Ring!S!CountIsAccurate /\ Ring!S!KernelMatches /\ Ring!S!SignalAssert
<1>0. \A s \in Two : RingSema(s)
  BY DEF RingInv, RingSemas
<1>1. Ring!TypeOK
  <2>1. ringKernel \in [Two -> 0 .. 1]
    BY <1>0 DEF RingInv, RingSemas, RingSema, SemaRight
  <2>2. Ring!S!TypeOK
    BY <2>1 DEF RingInv, RingSemas, Ring!S!TypeOK, Two, WaiterPlaces
  <2>3. nextSlot \in 0 .. RingItems /\ nextItem \in 0 .. nextSlot
    BY RingBounds, PartsAssumption DEF RingInv, RingUnits, Ring!CapacityAssumption
  <2> QED
    BY <2>2, <2>3 DEF RingInv, RingPlaces, RingData, Ring!TypeOK
<1>2. Ring!NoSlotRace
  <2>1. ASSUME ringPpc = "construct" PROVE data[Ring!Slot(nextSlot)] = 0
    <3>1. nextSlot \in Nat /\ nextItem \in Nat /\ nextItem <= nextSlot /\ nextSlot - nextItem < maxcap
      BY <2>1, RingBounds, RingIsLarge DEF RingInv, RingUnits, SlotInHand
    <3>2. \A k \in nextItem .. nextSlot - 1 : Ring!Slot(k) # Ring!Slot(nextSlot)
      BY <3>1, SlotsDiffer, RingIsLarge
    <3>3. Ring!Slot(nextSlot) \in 0 .. Ring!RingSize - 1
      BY <3>1, SlotInRing
    <3> QED
      BY <2>1, <3>2, <3>3 DEF RingInv, RingData
  <2>2. ASSUME ringCpc = "remove" PROVE data[Ring!Slot(nextItem)] # 0
    <3>1. nextSlot \in Nat /\ nextItem \in Nat /\ nextItem < nextSlot /\ ringPpc # "freed"
      BY <2>2, RingBounds DEF RingInv, RingUnits, RingPlaces, ItemInHand, ItemToSignal
    <3>2. data[Ring!Slot(nextItem)] = nextItem + 1
      BY <3>1 DEF RingInv, RingData
    <3> QED
      BY <3>1, <3>2
  <2> QED
    BY <2>1, <2>2 DEF Ring!NoSlotRace, Ring!None
<1>3. Ring!PeekIsNext
  BY DEF RingInv, RingData, Ring!PeekIsNext, Ring!None
<1>4. Ring!CapacityConserved
  <2> SUFFICES ASSUME ringPpc = "idle", ringCpc = "idle"
               PROVE  /\ ringCount["slots"] + ringCount["items"] = maxcap
                      /\ Ring!S!availableApprox("items") = nextSlot - nextItem
    BY DEF Ring!CapacityConserved
  <2>1. /\ ringCount["items"] = nextSlot - nextItem /\ nextSlot \in Nat /\ nextItem \in Nat
        /\ Ring!S!availableApprox("items") = nextSlot - nextItem
    BY RingAvailable DEF ItemToSignal
  <2>2. ringWpc["slots"] = "idle" /\ RingSema("slots")
    BY <1>0 DEF RingInv, RingPlaces, Two
  <2>3. ringCount["slots"] = ringGiven["slots"] - ringGranted["slots"]
    BY <2>2 DEF RingSema, SemaRight, Debt, Debtor
  <2>4. ringGiven["slots"] = maxcap + nextItem /\ ringGranted["slots"] = nextSlot
    BY <2>1, <2>2, RingIsLarge DEF RingInv, RingUnits, SlotInHand, SlotToSignal
  <2> QED
    BY <2>1, <2>3, <2>4, RingIsLarge
<1>5. Ring!NothingLeaks
  BY DEF RingInv, RingData, Ring!NothingLeaks, Ring!None
<1>6. Ring!S!CountIsAccurate
  BY <1>0 DEF RingSema, SemaRight, Debt, Debtor, Two, Ring!S!CountIsAccurate, Ring!S!Owing
<1>7. Ring!S!KernelMatches
  BY <1>0 DEF RingSema, SemaRight, Due, Posting, Debtor, Two, Ring!S!KernelMatches, Ring!S!Owing, Ring!S!Coming
<1>8. Ring!S!SignalAssert
  BY <1>0 DEF RingSema, SemaRight, Two, Ring!S!SignalAssert
<1> QED
  BY <1>1, <1>2, <1>3, <1>4, <1>5, <1>6, <1>7, <1>8

-----------------------------------------------------------------------------
(* The blocking queue's semaphore: a step of its waiter. *)
LEMMA BlkWaiter ==
  ASSUME BlkSemas, Blocking!sema!Waiter("items")
  PROVE  /\ BlkSemas' /\ UNCHANGED <<blkSpc, blkGiven>>
         /\ blkWpc["items"] \in {"got", "failed"} <=> blkWpc'["items"] = "idle"
         /\ blkWpc["items"] \in {"got", "failed"} => blkGranted'["items"] = blkGranted["items"]
         /\ blkWpc["items"] \notin {"got", "failed"} =>
              blkGranted'["items"] = blkGranted["items"] + (IF blkWpc'["items"] = "got" THEN 1 ELSE 0)
         /\ blkWpc'["items"] = "failed" => blkGiven["items"] = blkGranted["items"]
<1> DEFINE Step ==
      /\ blkCount' \in [One -> Int] /\ blkKernel' \in [One -> Int] /\ blkGranted' \in [One -> Nat]
      /\ blkWpc' \in [One -> WaiterPlaces] /\ UNCHANGED <<blkSpc, blkTimeout, blkGiven>>
      /\ WaiterStep(blkCount["items"], blkKernel["items"], blkWpc["items"], blkGranted["items"],
                    blkCount'["items"], blkKernel'["items"], blkWpc'["items"], blkGranted'["items"])
<1>0. /\ blkCount \in [One -> Int] /\ blkKernel \in [One -> Int] /\ blkGranted \in [One -> Nat]
      /\ blkWpc \in [One -> WaiterPlaces]
  BY DEF BlkSemas
<1>1. Step
  <2> USE <1>0 DEF Blocking!sema!Grant, Blocking!sema!Add, Blocking!sema!At, WaiterPlaces, One
  <2>1. CASE Blocking!sema!Grab("items")
    BY <2>1 DEF Blocking!sema!Grab, WaiterStep
  <2>2. CASE Blocking!sema!Spin("items")
    BY <2>2 DEF Blocking!sema!Spin, WaiterStep
  <2>3. CASE Blocking!sema!Decrement("items")
    BY <2>3 DEF Blocking!sema!Decrement, WaiterStep
  <2>4. CASE Blocking!sema!Wake("items")
    BY <2>4 DEF Blocking!sema!Wake, WaiterStep
  <2>5. CASE Blocking!sema!TimeOut("items")
    BY <2>5 DEF Blocking!sema!TimeOut, WaiterStep
  <2>6. CASE Blocking!sema!Restore("items")
    BY <2>6 DEF Blocking!sema!Restore, WaiterStep
  <2>7. CASE Blocking!sema!Undo("items")
    BY <2>7 DEF Blocking!sema!Undo, WaiterStep
  <2>8. CASE Blocking!sema!KernelTryWait("items")
    BY <2>8 DEF Blocking!sema!KernelTryWait, WaiterStep
  <2>9. CASE Blocking!sema!Return("items")
    BY <2>9 DEF Blocking!sema!Return, WaiterStep
  <2> QED
    BY <2>1, <2>2, <2>3, <2>4, <2>5, <2>6, <2>7, <2>8, <2>9 DEF Blocking!sema!Waiter
<1>2. BlkSema
  BY DEF BlkSemas
<1>3. /\ SemaRight(blkCount'["items"], blkKernel'["items"], blkSpc["items"], blkWpc'["items"], blkGiven["items"],
                   blkGranted'["items"])
      /\ blkWpc["items"] \in {"got", "failed"} <=> blkWpc'["items"] = "idle"
      /\ blkWpc["items"] \in {"got", "failed"} => blkGranted'["items"] = blkGranted["items"]
      /\ blkWpc["items"] \notin {"got", "failed"} =>
           blkGranted'["items"] = blkGranted["items"] + (IF blkWpc'["items"] = "got" THEN 1 ELSE 0)
      /\ blkWpc'["items"] = "failed" => blkGiven["items"] = blkGranted["items"]
  BY <1>1, <1>2, WaiterKeeps DEF BlkSema
<1>4. BlkSemas'
  BY <1>1, <1>3 DEF BlkSemas, BlkSema
<1> QED
  BY <1>1, <1>3, <1>4

(* Its signaller. *)
LEMMA BlkSignal ==
  ASSUME BlkSemas, Blocking!sema!Signal("items") \/ Blocking!sema!Post("items")
  PROVE  /\ BlkSemas' /\ UNCHANGED <<blkWpc, blkGranted>>
         /\ Blocking!sema!Signal("items") => blkGiven'["items"] = blkGiven["items"] + 1 /\ blkSpc["items"] = "idle"
         /\ Blocking!sema!Post("items") => UNCHANGED blkGiven /\ blkSpc["items"] = "post" /\ blkSpc'["items"] = "idle"
<1> USE DEF Blocking!sema!Add, Blocking!sema!At
<1>0. /\ blkCount \in [One -> Int] /\ blkKernel \in [One -> Int] /\ blkSpc \in [One -> {"idle", "post"}]
      /\ blkGiven \in [One -> Nat] /\ BlkSema
  BY DEF BlkSemas
<1>1. CASE Blocking!sema!Signal("items")
  <2>1. /\ blkSpc["items"] = "idle" /\ UNCHANGED <<blkKernel, blkWpc, blkTimeout, blkGranted>>
        /\ blkCount' \in [One -> Int] /\ blkGiven' \in [One -> Nat] /\ blkSpc' \in [One -> {"idle", "post"}]
        /\ blkCount'["items"] = blkCount["items"] + 1 /\ blkGiven'["items"] = blkGiven["items"] + 1
        /\ blkSpc'["items"] = IF blkCount["items"] < 0 THEN "post" ELSE "idle"
    BY <1>0, <1>1 DEF Blocking!sema!Signal, One
  <2>2. BlkSema'
    BY <1>0, <2>1, SignalKeeps DEF BlkSema
  <2>3. ~ Blocking!sema!Post("items")
    BY <2>1 DEF Blocking!sema!Post
  <2> QED
    BY <2>1, <2>2, <2>3 DEF BlkSemas
<1>2. CASE Blocking!sema!Post("items")
  <2>1. /\ blkSpc["items"] = "post" /\ UNCHANGED <<blkCount, blkWpc, blkTimeout, blkGiven, blkGranted>>
        /\ blkKernel' \in [One -> Int] /\ blkSpc' \in [One -> {"idle", "post"}]
        /\ blkKernel'["items"] = blkKernel["items"] + 1 /\ blkSpc'["items"] = "idle"
    BY <1>0, <1>2 DEF Blocking!sema!Post, One
  <2>2. BlkSema'
    BY <1>0, <2>1, SignalKeeps DEF BlkSema
  <2>3. ~ Blocking!sema!Signal("items")
    BY <2>1 DEF Blocking!sema!Signal
  <2> QED
    BY <2>1, <2>2, <2>3 DEF BlkSemas
<1> QED
  BY <1>1, <1>2

(* The beginning of a wait. *)
LEMMA BlkTryWait ==
  ASSUME BlkSemas, NEW t \in {"try", "none", "zero", "some"}, Blocking!sema!TryWait("items", t)
  PROVE  /\ BlkSemas' /\ UNCHANGED <<blkSpc, blkGiven, blkGranted>>
         /\ blkWpc["items"] = "idle" /\ blkWpc'["items"] \notin {"idle", "got"}
         /\ blkWpc'["items"] = "failed" => blkGiven["items"] = blkGranted["items"]
<1>0. blkWpc \in [One -> WaiterPlaces] /\ blkTimeout \in [One -> {"try", "none", "zero", "some"}] /\ BlkSema
  BY DEF BlkSemas
<1>1. /\ blkWpc["items"] = "idle" /\ UNCHANGED <<blkCount, blkKernel, blkSpc, blkGiven, blkGranted>>
      /\ blkWpc' \in [One -> WaiterPlaces] /\ blkTimeout' \in [One -> {"try", "none", "zero", "some"}]
      /\ blkCount["items"] > 0 => blkWpc'["items"] = "grab"
      /\ ~(blkCount["items"] > 0) => blkWpc'["items"] \in {"failed", "spin"}
  BY <1>0 DEF Blocking!sema!TryWait, Blocking!sema!At, WaiterPlaces, One
<1>2. BlkSema' /\ (blkWpc'["items"] = "failed" => blkGiven["items"] = blkGranted["items"])
  BY <1>0, <1>1, TryWaitKeeps DEF BlkSema
<1>3. BlkSemas'
  BY <1>1, <1>2 DEF BlkSemas
<1> QED
  BY <1>1, <1>2, <1>3

(* The blocking queue begins empty, and so does its semaphore. *)
LEMMA BlkInit == ASSUME Init PROVE BlkInv
<1>1. /\ blkCount = [s \in One |-> 0] /\ blkGiven = [s \in One |-> 0]
      /\ blkKernel = [s \in One |-> 0] /\ blkGranted = [s \in One |-> 0]
      /\ blkSpc = [s \in One |-> "idle"] /\ blkWpc = [s \in One |-> "idle"]
      /\ blkTimeout = [s \in One |-> "try"]
      /\ inner = << >> /\ enqueued = 0 /\ blkPpc = "idle" /\ blkCpc = "idle" /\ blkLast = 0
  BY DEF Init, Blocking!Init, Blocking!sema!Init, One
<1>2. BlkSemas
  BY <1>1 DEF BlkSemas, BlkSema, SemaRight, Debtor, Debt, Due, Posting, WaiterPlaces, One
<1>3. BlkPlaces
  BY <1>1 DEF BlkPlaces, One
<1>4. BlkUnits
  <2>1. Numbered(0, 0) = << >>
    BY NumberedRight, EmptySeq
  <2> QED
    BY <1>1, <2>1 DEF BlkUnits, One
<1> QED
  BY <1>2, <1>3, <1>4 DEF BlkInv

(* Units granted do not exceed those given, so what a wait got is there. *)
LEMMA BlkBounds ==
  ASSUME BlkInv
  PROVE  /\ blkLast + (IF blkCpc = "take" \/ blkWpc["items"] = "got" THEN 1 ELSE 0) <= enqueued
         /\ Blocking!size_approx + (IF blkCpc = "take" \/ blkWpc["items"] = "got" THEN 1 ELSE 0) <= enqueued - blkLast
         /\ enqueued \in Nat /\ blkLast \in Nat
<1>1. BlkSema
  BY DEF BlkInv, BlkSemas
<1>2. /\ blkGranted["items"] <= blkGiven["items"] /\ blkGranted["items"] \in Nat /\ blkGiven["items"] \in Nat
      /\ blkCount["items"] \in Int /\ blkCount["items"] <= blkGiven["items"] - blkGranted["items"]
  BY <1>1 DEF BlkSema, SemaRight, Debt
<1>3. blkGiven["items"] <= enqueued
  BY DEF BlkInv, BlkUnits
<1> QED
  BY <1>2, <1>3 DEF BlkInv, BlkUnits, Blocking!size_approx, Blocking!sema!availableApprox

(* Every step of the blocking queue keeps the invariant, takes elements in *)
(* order and lets a wait fail only when there is no unit.                  *)
LEMMA BlkNext ==
  ASSUME BlkInv, Blocking!Next
  PROVE  /\ BlkInv' /\ (blkLast' # blkLast => blkLast' = blkLast + 1)
         /\ blkWpc'["items"] = "failed" /\ blkWpc["items"] # "failed" => blkGiven["items"] = blkGranted["items"]
<1>0. BlkSemas /\ BlkPlaces /\ BlkUnits
  BY DEF BlkInv
<1>1. CASE Blocking!Enqueue
  <2>1. /\ blkPpc = "idle" /\ blkPpc' = "signal" /\ enqueued' = enqueued + 1
        /\ inner' = Append(inner, enqueued + 1)
        /\ UNCHANGED <<blkCount, blkKernel, blkSpc, blkWpc, blkTimeout, blkGiven, blkGranted, blkCpc, blkLast>>
    BY <1>1 DEF Blocking!Enqueue, Blocking!semaVars
  <2>2. BlkSemas' /\ BlkPlaces'
    BY <1>0, <2>1 DEF BlkSemas, BlkSema, BlkPlaces
  <2>3. inner' = Numbered(blkLast, enqueued' - blkLast)
    <3> DEFINE n == enqueued - blkLast
    <3>1. n \in Nat /\ enqueued + 1 = blkLast + n + 1 /\ enqueued' - blkLast = n + 1 /\ blkLast \in Nat
      BY <1>0, <2>1 DEF BlkUnits
    <3>2. inner = Numbered(blkLast, n)
      BY <1>0 DEF BlkUnits
    <3> HIDE DEF n
    <3> QED
      BY <2>1, <3>1, <3>2, NumberedRight, ZenonT(60)
  <2>4. BlkUnits'
    BY <1>0, <2>1, <2>3 DEF BlkUnits
  <2> QED
    BY <2>1, <2>2, <2>4 DEF BlkInv
<1>2. CASE Blocking!SignalItem
  <2>1. /\ blkPpc \in {"signal", "post"}
        /\ blkPpc = "signal" => Blocking!sema!Signal("items")
        /\ blkPpc = "post" => Blocking!sema!Post("items")
        /\ blkPpc' = IF blkSpc'["items"] = "post" THEN "post" ELSE "idle"
        /\ UNCHANGED <<inner, enqueued, blkCpc, blkLast>>
    BY <1>2 DEF Blocking!SignalItem
  <2>2. /\ BlkSemas' /\ UNCHANGED <<blkWpc, blkGranted>>
        /\ Blocking!sema!Signal("items") => blkGiven'["items"] = blkGiven["items"] + 1 /\ blkSpc["items"] = "idle"
        /\ Blocking!sema!Post("items") => UNCHANGED blkGiven /\ blkSpc["items"] = "post" /\ blkSpc'["items"] = "idle"
    BY <1>0, <2>1, BlkSignal
  <2>3. BlkPlaces'
    BY <1>0, <2>1, <2>2 DEF BlkPlaces
  <2>4. BlkUnits'
    BY <1>0, <2>1, <2>2 DEF BlkUnits
  <2> QED
    BY <2>1, <2>2, <2>3, <2>4 DEF BlkInv
<1>3. CASE Blocking!WaitItem
  <2>1. /\ blkCpc = "wait" /\ Blocking!sema!Waiter("items")
        /\ blkWpc["items"] = "got" => blkCpc' = "take"
        /\ blkWpc["items"] = "failed" => blkCpc' = "idle"
        /\ blkWpc["items"] \notin {"got", "failed"} => blkCpc' = "wait"
        /\ UNCHANGED <<inner, enqueued, blkPpc, blkLast>>
    BY <1>3 DEF Blocking!WaitItem
  <2>2. /\ BlkSemas' /\ UNCHANGED <<blkSpc, blkGiven>>
        /\ blkWpc["items"] \in {"got", "failed"} <=> blkWpc'["items"] = "idle"
        /\ blkWpc["items"] \in {"got", "failed"} => blkGranted'["items"] = blkGranted["items"]
        /\ blkWpc["items"] \notin {"got", "failed"} =>
             blkGranted'["items"] = blkGranted["items"] + (IF blkWpc'["items"] = "got" THEN 1 ELSE 0)
        /\ blkWpc'["items"] = "failed" => blkGiven["items"] = blkGranted["items"]
    BY <1>0, <2>1, BlkWaiter
  <2>3. BlkPlaces'
    BY <1>0, <2>1, <2>2 DEF BlkPlaces
  <2>4. BlkUnits'
    BY <1>0, <2>1, <2>2 DEF BlkUnits
  <2> QED
    BY <2>1, <2>2, <2>3, <2>4 DEF BlkInv
<1>4. CASE Blocking!TakeItem
  <2>1. /\ blkCpc = "take" /\ blkCpc' = "idle" /\ blkLast' = Head(inner) /\ inner' = Tail(inner)
        /\ UNCHANGED <<blkCount, blkKernel, blkSpc, blkWpc, blkTimeout, blkGiven, blkGranted, enqueued, blkPpc>>
    BY <1>4 DEF Blocking!TakeItem, Blocking!semaVars
  <2>2. blkLast + 1 <= enqueued /\ enqueued \in Nat /\ blkLast \in Nat
    BY <2>1, BlkBounds
  <2>3. blkLast' = blkLast + 1 /\ inner' = Numbered(blkLast + 1, enqueued - (blkLast + 1))
    <3> DEFINE n == enqueued - blkLast
    <3>1. n \in Nat /\ n > 0 /\ n - 1 = enqueued - (blkLast + 1)
      BY <2>2
    <3>2. inner = Numbered(blkLast, n)
      BY <1>0 DEF BlkUnits
    <3> HIDE DEF n
    <3>3. Head(Numbered(blkLast, n)) = blkLast + 1 /\ Tail(Numbered(blkLast, n)) = Numbered(blkLast + 1, n - 1)
      BY <2>2, <3>1, NumberedRight
    <3> QED
      BY <2>1, <3>1, <3>2, <3>3
  <2>4. BlkSemas' /\ BlkPlaces'
    BY <1>0, <2>1 DEF BlkSemas, BlkSema, BlkPlaces
  <2>5. BlkUnits'
    BY <1>0, <2>1, <2>2, <2>3 DEF BlkUnits, BlkPlaces
  <2> QED
    BY <2>1, <2>3, <2>4, <2>5 DEF BlkInv
<1>5. CASE Blocking!Peek
  BY <1>0, <1>5 DEF Blocking!Peek, Blocking!semaVars, BlkInv, BlkSemas, BlkSema, BlkPlaces, BlkUnits
<1>6. CASE \E t \in {"try", "none", "zero", "some"} : Blocking!Dequeue(t)
  <2>1. PICK t \in {"try", "none", "zero", "some"} : Blocking!Dequeue(t)
    BY <1>6
  <2>2. /\ blkCpc = "idle" /\ blkCpc' = "wait" /\ Blocking!sema!TryWait("items", t)
        /\ UNCHANGED <<inner, enqueued, blkPpc, blkLast>>
    BY <2>1 DEF Blocking!Dequeue
  <2>3. /\ BlkSemas' /\ UNCHANGED <<blkSpc, blkGiven, blkGranted>>
        /\ blkWpc["items"] = "idle" /\ blkWpc'["items"] \notin {"idle", "got"}
        /\ blkWpc'["items"] = "failed" => blkGiven["items"] = blkGranted["items"]
    BY <1>0, <2>2, BlkTryWait
  <2>4. BlkPlaces' /\ BlkUnits'
    BY <1>0, <2>2, <2>3 DEF BlkPlaces, BlkUnits
  <2> QED
    BY <2>2, <2>3, <2>4 DEF BlkInv
<1> QED
  BY <1>1, <1>2, <1>3, <1>4, <1>5, <1>6 DEF Blocking!Next

(* What the invariant says of the blocking queue. *)
LEMMA BlkOfInv ==
  ASSUME BlkInv
  PROVE  /\ Blocking!sema!CountIsAccurate /\ Blocking!sema!KernelMatches /\ Blocking!sema!SignalAssert
         /\ Blocking!GrantedIsThere
<1>1. BlkSema
  BY DEF BlkInv, BlkSemas
<1>2. Blocking!sema!CountIsAccurate
  BY <1>1 DEF BlkSema, SemaRight, Debt, Debtor, Blocking!sema!CountIsAccurate, Blocking!sema!Owing
<1>3. Blocking!sema!KernelMatches
  BY <1>1 DEF BlkSema, SemaRight, Due, Posting, Debtor, Blocking!sema!KernelMatches, Blocking!sema!Owing,
              Blocking!sema!Coming
<1>4. Blocking!sema!SignalAssert
  BY <1>1 DEF BlkSema, SemaRight, Blocking!sema!SignalAssert
<1>5. Blocking!GrantedIsThere
  <2> DEFINE n == enqueued - blkLast
             h == IF blkCpc = "take" \/ blkWpc["items"] = "got" THEN 1 ELSE 0
  <2>1. n \in Nat /\ blkLast \in Nat /\ Blocking!size_approx + h <= n /\ inner = Numbered(blkLast, n)
    BY BlkBounds DEF BlkInv, BlkUnits
  <2>2. Blocking!size_approx \in Int
    BY <1>1 DEF BlkSema, SemaRight, Blocking!size_approx, Blocking!sema!availableApprox
  <2> HIDE DEF n
  <2>3. Len(inner) = n
    BY <2>1, NumberedRight
  <2> QED
    BY <2>1, <2>2, <2>3 DEF Blocking!GrantedIsThere
<1> QED
  BY <1>2, <1>3, <1>4, <1>5
-----------------------------------------------------------------------------
(***************************************************************************)
(* ReaderWriterQueue.  The distance from index i to index j of a block of  *)
(* s slots, going round it, and the number of elements in a block.         *)
(***************************************************************************)
Gap(i, j, s) == IF i <= j THEN j - i ELSE j - i + s
After(i, s) == IF i + 1 = s THEN 0 ELSE i + 1
Filled(B) == Gap(B.front, B.tail, B.size)

(***************************************************************************)
(* A block B whose first element is number first + 1.  Its indices follow  *)
(* each other round the block: localFront, front, localTail, tail.  Extra  *)
(* is 1 when an element is in its slot and tail has not moved yet, taken is *)
(* 1 when one was moved out and front has not.                             *)
(***************************************************************************)
IsBlock(B) == B = [front |-> B.front, localTail |-> B.localTail, tail |-> B.tail, localFront |-> B.localFront,
                   next |-> B.next, size |-> B.size, data |-> B.data]
Contents(B, first, extra, taken) ==
    [i \in 0 .. B.size - 1 |->
        IF Gap(B.front, i, B.size) < Filled(B) + extra /\ (taken = 0 \/ i # B.front)
        THEN first + Gap(B.front, i, B.size) + 1 ELSE 0]
Indices(B) == /\ B.front \in 0 .. B.size - 1 /\ B.localTail \in 0 .. B.size - 1
              /\ B.tail \in 0 .. B.size - 1 /\ B.localFront \in 0 .. B.size - 1
Round(B) == Gap(B.localFront, B.front, B.size) + Gap(B.front, B.localTail, B.size) + Gap(B.localTail, B.tail, B.size)
BlockRight(B, first, extra, taken) ==
    /\ IsBlock(B) /\ B.size \in Nat /\ B.size >= 2 /\ Indices(B)
    /\ Round(B) + extra <= B.size - 1
    /\ taken = 1 => B.front # B.localTail
    /\ B.data = Contents(B, first, extra, taken)

(***************************************************************************)
(* The circle has the blocks 1 .. n.  pos[b] is how far b is from where    *)
(* the consumer began, laps included: the consumer's block comes first,    *)
(* the next block has the next position, and the blocks up to tailBlock    *)
(* are live.  num[b] is the number of elements before those of b.          *)
(***************************************************************************)
NextTailBlock == blk[tailBlock].next
Live(pos, b) == pos[b] <= pos[tailBlock]
CircleRight(n, pos) ==
    /\ n \in Nat /\ n <= MaxBlocks /\ frontBlock \in 1 .. n /\ tailBlock \in 1 .. n
    /\ pos \in [1 .. n -> Int]
    /\ \A a, b \in 1 .. n : pos[a] = pos[b] => a = b
    /\ \A b \in 1 .. n : pos[frontBlock] <= pos[b] /\ pos[b] < pos[frontBlock] + n
    /\ \A b \in 1 .. n : /\ blk[b].next \in 1 .. n
                         /\ pos[blk[b].next] = IF pos[b] = pos[frontBlock] + n - 1 THEN pos[frontBlock] ELSE pos[b] + 1

InPlace(b) == \/ queuePpc = "settail" /\ b = tailBlock
              \/ queuePpc = "nexttail" /\ b = NextTailBlock
Extra(b) == IF InPlace(b) THEN 1 ELSE 0
Taken(b) == IF queueCpc = "setfront" /\ b = frontBlock THEN 1 ELSE 0
BlocksRight(n, num) == \A b \in 1 .. n : BlockRight(blk[b], num[b], Extra(b), Taken(b))

(***************************************************************************)
(* The elements of the live blocks follow each other.  Those between the   *)
(* consumer's and the producer's are full, and the others are empty but    *)
(* for the block that the producer is about to move to.                    *)
(***************************************************************************)
OrderRight(n, pos, num) ==
    /\ num \in [1 .. n -> Int]
    /\ num[frontBlock] = received /\ num[tailBlock] + Filled(blk[tailBlock]) = sent
    /\ \A b \in 1 .. n : Live(pos, b) /\ b # tailBlock => num[blk[b].next] = num[b] + Filled(blk[b])
    /\ \A b \in 1 .. n : Live(pos, b) /\ b # frontBlock => Filled(blk[b]) >= 1
    /\ \A b \in 1 .. n : Live(pos, b) /\ b # frontBlock /\ b # tailBlock => Filled(blk[b]) = blk[b].size - 1
    /\ \A b \in 1 .. n : ~Live(pos, b) =>
                            Filled(blk[b]) = IF queuePpc = "publish" /\ b = NextTailBlock THEN 1 ELSE 0

(***************************************************************************)
(* K elements fit into every block, and all but one of several blocks, or  *)
(* the only one, hold as many as the constructor was asked for.            *)
(***************************************************************************)
RoomRight(n, pos, num, K) ==
    /\ size \in Nat /\ K \in Nat \ {0} /\ (n = 1 => K >= size) /\ (n > 1 => (n - 1) * K >= size)
    /\ largestBlockSize \in Nat /\ largestBlockSize > K
    /\ \A b \in 1 .. n : blk[b].size > K
    /\ \A a, b \in 1 .. n : Live(pos, b) /\ a # frontBlock /\ pos[a] <= pos[b]
                              => num[b] - num[a] >= (pos[b] - pos[a]) * K

FreshRight(n, K) ==
    LET F == blk[n + 1]
    IN  /\ n < MaxBlocks /\ BlockRight(F, sent, 0, 0) /\ Filled(F) = 1 /\ F.next = NextTailBlock /\ F.size > K
        /\ F.localFront = F.front

(***************************************************************************)
(* Memory: the blocks of the circle, and one that is not linked yet.       *)
(***************************************************************************)
MemoryRight(n, K) ==
    /\ blk = [b \in 1 .. MaxBlocks |-> blk[b]]
    /\ queuePpc = "link" => FreshRight(n, K)
    /\ \A b \in 1 .. MaxBlocks : b > n /\ ~(queuePpc = "link" /\ b = n + 1) => blk[b] = Queue!Unused

(***************************************************************************)
(* The producer's places: what it has found out stays true.                *)
(***************************************************************************)
ProducerPlaces == {"idle", "start", "reload", "place", "settail", "full", "advance", "nexttail", "grow", "link",
                   "publish", "walk"}
Leaving == {"full", "advance", "nexttail", "grow", "link", "publish"}
ProducerRight(n, pos, num, K) ==
    /\ queuePpc \in ProducerPlaces /\ mode \in {"CanAlloc", "CannotAlloc"}
    /\ sent \in 0 .. QueueItems /\ received \in 0 .. sent
    /\ queuePpc \notin {"idle", "walk"} => sent < QueueItems
    /\ queuePpc = "place" => Round(blk[tailBlock]) <= blk[tailBlock].size - 2
    /\ queuePpc \in Leaving /\ frontBlock # tailBlock => Filled(blk[tailBlock]) = blk[tailBlock].size - 1
    /\ queuePpc \in {"advance", "nexttail", "publish"} => pos[NextTailBlock] = pos[tailBlock] + 1
    /\ queuePpc \in {"nexttail", "publish"} => num[NextTailBlock] = sent
    /\ room \in Nat /\ refused \in Int /\ refused <= QueueItems /\ refused >= -1
    /\ refused # -1 => refused >= size
    /\ room <= QueueItems
    /\ queuePpc \notin {"idle", "walk"} /\ mode = "CannotAlloc" => room >= sent - received
    /\ queuePpc = "full" /\ mode = "CannotAlloc" => room >= K

(***************************************************************************)
(* The consumer's places.                                                  *)
(***************************************************************************)
ConsumerPlaces == {"idle", "reload", "checktail", "recheck", "empty", "take", "advance", "setfront", "walk"}
ConsumerRight ==
    /\ queueCpc \in ConsumerPlaces
    /\ queueCpc \in {"reload", "checktail", "recheck", "empty"} /\ before => sent > received
    /\ queueCpc = "checktail" /\ before => frontBlock # tailBlock
    /\ queueCpc = "empty" => ~before
    /\ queueCpc \in {"recheck", "advance"} => frontBlock # tailBlock
    /\ queueCpc = "advance" => Filled(blk[frontBlock]) = 0
    /\ queueCpc = "take" => blk[frontBlock].front # blk[frontBlock].localTail
    /\ queuePeeked # 0 => queuePeeked = received + 1 /\ received < sent
    /\ queueCpc = "setfront" => queuePeeked = 0

(***************************************************************************)
(* size_approx(): where its thread began and where it is now, as positions *)
(* of this lap, and what it has seen and has still to see.                 *)
(***************************************************************************)
WalkFrom(n, pos) == IF pos[walk.first] <= pos[tailBlock] THEN pos[walk.first] ELSE pos[walk.first] - n
WalkPos(n, pos) == IF pos[walk.at] < WalkFrom(n, pos) + n THEN pos[walk.at] ELSE pos[walk.at] - n
Ahead(n, pos, num) == IF walk.at = 0 THEN 0
                      ELSE IF WalkPos(n, pos) < pos[frontBlock] THEN sent - received
                      ELSE IF Live(pos, walk.at) THEN sent - num[walk.at] ELSE 0

ProducerWalk(n, pos, num) ==
    /\ queueCpc # "walk" /\ queuePpc = "walk"
    /\ walk.first = frontBlock \/ ~Live(pos, walk.first)
    /\ walk.result + Ahead(n, pos, num) <= walk.begin
    /\ walk.result + Ahead(n, pos, num) >= sent - received

ConsumerWalk(n, pos, num) ==
    /\ queueCpc = "walk" /\ queuePpc # "walk"
    /\ walk.first = frontBlock
    /\ walk.result + Ahead(n, pos, num) >= walk.begin
    /\ IF walk.at # 0 /\ Live(pos, walk.at) THEN walk.result <= num[walk.at] - received
       ELSE walk.result <= sent - received + (IF queuePpc = "publish" /\ walk.at # NextTailBlock THEN 1 ELSE 0)

WalkRight(n, pos, num) ==
    /\ walk = [who |-> walk.who, first |-> walk.first, at |-> walk.at, result |-> walk.result, begin |-> walk.begin]
    /\ walk.who \in {"nobody", "producer", "consumer"}
    /\ walk.who = "nobody" <=> walk = Queue!Idle
    /\ walk.who = "nobody" => queuePpc # "walk" /\ queueCpc # "walk"
    /\ walk.who # "nobody" => /\ walk.first \in 1 .. n /\ walk.at \in 0 .. n
                              /\ walk.result \in Int /\ walk.begin \in Int
    /\ walk.who = "producer" => ProducerWalk(n, pos, num)
    /\ walk.who = "consumer" => ConsumerWalk(n, pos, num)

QueueWith(n, pos, num, K) ==
    /\ CircleRight(n, pos) /\ BlocksRight(n, num) /\ OrderRight(n, pos, num) /\ RoomRight(n, pos, num, K)
    /\ MemoryRight(n, K) /\ ProducerRight(n, pos, num, K) /\ ConsumerRight /\ WalkRight(n, pos, num)

Gone == /\ queuePpc = "destroyed" /\ queueCpc = "destroyed"
        /\ Queue!Allocated = {}
        /\ frontBlock \in 1 .. MaxBlocks /\ tailBlock \in 1 .. MaxBlocks
        /\ sent \in 0 .. QueueItems /\ received \in 0 .. sent
        /\ queuePeeked # 0 => queuePeeked = received + 1 /\ received < sent
        /\ refused \in Int /\ refused <= QueueItems /\ refused >= -1 /\ (refused # -1 => refused >= size)
        /\ walk = Queue!Idle

QueueInv == /\ size \in Sizes
            /\ \/ Gone
               \/ \E n, K \in Nat : \E pos, num \in [1 .. n -> Int] : QueueWith(n, pos, num, K)
-----------------------------------------------------------------------------
(* Wrapping an index, and the number of slots between two, without a       *)
(* division.                                                               *)
LEMMA WrapIsAfter ==
  ASSUME NEW s \in Nat, s >= 1, NEW i \in 0 .. s - 1
  PROVE  (i + 1) % s = After(i, s) /\ After(i, s) \in 0 .. s - 1
<1>1. CASE i + 1 = s
  BY <1>1, Z3 DEF After
<1>2. CASE i + 1 # s
  BY <1>2, Z3 DEF After
<1> QED
  BY <1>1, <1>2

(* The elements between two indices.                                       *)
LEMMA ModIsGap ==
  ASSUME NEW s \in Nat, s >= 1, NEW i \in 0 .. s - 1, NEW j \in 0 .. s - 1
  PROVE  (j - i) % s = Gap(i, j, s) /\ Gap(i, j, s) \in 0 .. s - 1
<1>1. CASE i <= j
  <2>1. (j - i) \in 0 .. s - 1
    BY <1>1
  <2>2. \A k \in 0 .. s - 1 : k % s = k
    BY Z3
  <2> QED
    BY <1>1, <2>1, <2>2 DEF Gap
<1>2. CASE i > j
  <2>1. (j - i) + s \in 0 .. s - 1
    BY <1>2
  <2>2. \A k \in Int : k + s \in 0 .. s - 1 => k % s = k + s
    BY Z3
  <2> QED
    BY <1>2, <2>1, <2>2 DEF Gap
<1> QED
  BY <1>1, <1>2
(* Four indices that lie in one round of s slots, with e slots to spare.   *)
LEMMA RoundOfIndices ==
  ASSUME NEW s \in Nat, NEW k \in 0 .. s - 1, NEW f \in 0 .. s - 1, NEW l \in 0 .. s - 1, NEW t \in 0 .. s - 1,
         NEW e \in 0 .. 1, Gap(k, f, s) + Gap(f, l, s) + Gap(l, t, s) + e <= s - 1
  PROVE  /\ Gap(f, t, s) = Gap(f, l, s) + Gap(l, t, s)
         /\ Gap(k, t, s) = Gap(k, f, s) + Gap(f, t, s)
         /\ Gap(f, t, s) \in 0 .. s - 1 - e /\ Gap(k, t, s) \in Gap(f, t, s) .. s - 1 - e
         /\ Gap(f, t, s) = 0 <=> f = t
         /\ f # l => Gap(f, t, s) >= 1
<1>1. /\ Gap(f, l, s) \in 0 .. s - 1 /\ Gap(l, t, s) \in 0 .. s - 1 /\ Gap(k, f, s) \in 0 .. s - 1
      /\ Gap(f, t, s) \in 0 .. s - 1 /\ Gap(k, t, s) \in 0 .. s - 1
  BY DEF Gap
<1>2. Gap(f, t, s) = Gap(f, l, s) + Gap(l, t, s)
  BY <1>1 DEF Gap
<1>3. Gap(k, t, s) = Gap(k, f, s) + Gap(f, t, s)
  BY <1>1, <1>2 DEF Gap
<1>4. (Gap(f, t, s) = 0 <=> f = t) /\ (f # l => Gap(f, l, s) >= 1)
  BY DEF Gap
<1> QED
  BY <1>1, <1>2, <1>3, <1>4

(* One slot further at either end.                                         *)
LEMMA GapMoves ==
  ASSUME NEW s \in Nat, s >= 2, NEW i \in 0 .. s - 1, NEW j \in 0 .. s - 1
  PROVE  /\ After(j, s) \in 0 .. s - 1
         /\ Gap(i, j, s) <= s - 2 => Gap(i, After(j, s), s) = Gap(i, j, s) + 1
         /\ i # j => Gap(After(i, s), j, s) = Gap(i, j, s) - 1
         /\ Gap(After(i, s), i, s) = s - 1 /\ Gap(i, After(i, s), s) = 1
         /\ Gap(i, j, s) \in 0 .. s - 1
  BY DEF Gap, After

(* Where the slots of a block are, seen from its front, and that its four  *)
(* indices lie in one round.                                               *)
LEMMA RoundOfBlock ==
  ASSUME NEW B, NEW first \in Int, NEW e \in 0 .. 1, NEW t \in 0 .. 1, BlockRight(B, first, e, t)
  PROVE  /\ B.size \in Nat /\ B.size >= 2 /\ Indices(B)
         /\ Filled(B) = Gap(B.front, B.localTail, B.size) + Gap(B.localTail, B.tail, B.size)
         /\ Round(B) = Gap(B.localFront, B.tail, B.size)
         /\ Filled(B) \in 0 .. B.size - 1 - e /\ Round(B) \in Filled(B) .. B.size - 1 - e
         /\ Filled(B) = 0 <=> B.front = B.tail
         /\ (t = 1 \/ B.front # B.localTail) => Filled(B) >= 1
         /\ \A i \in 0 .. B.size - 1 : Gap(B.front, i, B.size) \in 0 .. B.size - 1
         /\ \A i \in 0 .. B.size - 1 : Gap(B.front, i, B.size) = 0 <=> i = B.front
         /\ \A i \in 0 .. B.size - 1 : Gap(B.front, i, B.size) = Filled(B) <=> i = B.tail
<1>1. /\ B.size \in Nat /\ B.size >= 2 /\ Indices(B) /\ (t = 1 => B.front # B.localTail)
      /\ Round(B) + e <= B.size - 1
  BY DEF BlockRight
<1>2. \A s \in Nat : \A f, i, t2 \in 0 .. s - 1 : /\ Gap(f, i, s) \in 0 .. s - 1
                                                  /\ Gap(f, i, s) = 0 <=> i = f
                                                  /\ Gap(f, i, s) = Gap(f, t2, s) <=> i = t2
  BY DEF Gap
<1>a. /\ B.size \in Nat /\ B.localFront \in 0 .. B.size - 1 /\ B.front \in 0 .. B.size - 1
      /\ B.localTail \in 0 .. B.size - 1 /\ B.tail \in 0 .. B.size - 1
  BY <1>1 DEF Indices
<1>b. Gap(B.localFront, B.front, B.size) + Gap(B.front, B.localTail, B.size) + Gap(B.localTail, B.tail, B.size) + e
        <= B.size - 1
  BY <1>1 DEF Round
<1>3. /\ Gap(B.front, B.tail, B.size) = Gap(B.front, B.localTail, B.size) + Gap(B.localTail, B.tail, B.size)
      /\ Gap(B.localFront, B.tail, B.size) = Gap(B.localFront, B.front, B.size) + Gap(B.front, B.tail, B.size)
      /\ Gap(B.front, B.tail, B.size) \in 0 .. B.size - 1 - e
      /\ Gap(B.localFront, B.tail, B.size) \in Gap(B.front, B.tail, B.size) .. B.size - 1 - e
      /\ Gap(B.front, B.tail, B.size) = 0 <=> B.front = B.tail
      /\ B.front # B.localTail => Gap(B.front, B.tail, B.size) >= 1
  BY <1>a, <1>b, RoundOfIndices, SMTT(40)
<1>4. /\ Gap(B.localFront, B.front, B.size) \in Int /\ Gap(B.front, B.localTail, B.size) \in Int
      /\ Gap(B.localTail, B.tail, B.size) \in Int
  BY <1>a DEF Gap
<1> QED
<2>1. Round(B) = Gap(B.localFront, B.tail, B.size) /\ Filled(B) = Gap(B.front, B.tail, B.size)
  BY <1>3, <1>4 DEF Round, Filled
<2>2. /\ \A i \in 0 .. B.size - 1 : Gap(B.front, i, B.size) \in 0 .. B.size - 1
      /\ \A i \in 0 .. B.size - 1 : Gap(B.front, i, B.size) = 0 <=> i = B.front
      /\ \A i \in 0 .. B.size - 1 : Gap(B.front, i, B.size) = Filled(B) <=> i = B.tail
  BY <1>a, <2>1 DEF Gap
<2> QED
  BY <1>1, <1>3, <2>1, <2>2

(* The producer looks at front again.                                      *)
LEMMA LocalFrontReloaded ==
  ASSUME NEW B, NEW first \in Int, NEW t \in 0 .. 1, BlockRight(B, first, 0, t),
         NEW C, C = [B EXCEPT !.localFront = B.front]
  PROVE  /\ BlockRight(C, first, 0, t) /\ Filled(C) = Filled(B) /\ C.next = B.next /\ C.size = B.size
         /\ C.front = B.front /\ C.tail = B.tail /\ C.localTail = B.localTail /\ Round(C) = Filled(B)
<1>1. /\ IsBlock(C) /\ C.front = B.front /\ C.tail = B.tail /\ C.localTail = B.localTail /\ C.localFront = B.front
      /\ C.next = B.next /\ C.size = B.size /\ C.data = B.data
  BY DEF BlockRight, IsBlock
<1>2. Contents(C, first, 0, t) = Contents(B, first, 0, t)
  BY <1>1 DEF Contents, Filled
<1>3. Filled(B) = Gap(B.front, B.localTail, B.size) + Gap(B.localTail, B.tail, B.size) /\ Gap(B.front, B.front, B.size) = 0
      /\ Filled(B) \in 0 .. B.size - 1
  <2>1. /\ Filled(B) = Gap(B.front, B.localTail, B.size) + Gap(B.localTail, B.tail, B.size)
        /\ Filled(B) \in 0 .. B.size - 1 - 0
    BY RoundOfBlock
  <2> QED
    BY <2>1 DEF BlockRight, Indices, Gap
<1> QED
  BY <1>1, <1>2, <1>3 DEF BlockRight, Indices, Round, Filled, Gap

(* The consumer looks at tail again.                                       *)
LEMMA LocalTailReloaded ==
  ASSUME NEW B, NEW first \in Int, NEW e \in 0 .. 1, BlockRight(B, first, e, 0),
         NEW C, C = [B EXCEPT !.localTail = B.tail]
  PROVE  /\ BlockRight(C, first, e, 0) /\ Filled(C) = Filled(B) /\ C.next = B.next /\ C.size = B.size
         /\ C.front = B.front /\ C.tail = B.tail /\ C.localTail = B.tail /\ Round(C) = Round(B)
<1>1. /\ IsBlock(C) /\ C.front = B.front /\ C.tail = B.tail /\ C.localTail = B.tail /\ C.localFront = B.localFront
      /\ C.next = B.next /\ C.size = B.size /\ C.data = B.data
  BY DEF BlockRight, IsBlock
<1>2. Contents(C, first, e, 0) = Contents(B, first, e, 0)
  BY <1>1 DEF Contents, Filled
<1>3. Filled(B) = Gap(B.front, B.localTail, B.size) + Gap(B.localTail, B.tail, B.size) /\ Gap(B.tail, B.tail, B.size) = 0
  <2>1. Filled(B) = Gap(B.front, B.localTail, B.size) + Gap(B.localTail, B.tail, B.size)
    BY RoundOfBlock
  <2> QED
    BY <2>1 DEF BlockRight, Indices, Gap
<1>4. Round(C) = Round(B)
  BY <1>1, <1>3 DEF BlockRight, Indices, Round, Filled, Gap
<1> QED
  BY <1>1, <1>2, <1>4 DEF BlockRight, Indices, Filled

(* The producer constructs an element in the slot at tail.                 *)
LEMMA ElementPlaced ==
  ASSUME NEW B, NEW first \in Int, NEW t \in 0 .. 1, BlockRight(B, first, 0, t), Round(B) <= B.size - 2,
         NEW x, x = first + Filled(B) + 1, NEW C, C = [B EXCEPT !.data[B.tail] = x]
  PROVE  /\ BlockRight(C, first, 1, t) /\ Filled(C) = Filled(B) /\ C.next = B.next /\ C.size = B.size
         /\ C.front = B.front /\ C.tail = B.tail /\ C.localTail = B.localTail /\ Round(C) = Round(B)
         /\ B.data[B.tail] = 0
<1>1. /\ IsBlock(C) /\ C.front = B.front /\ C.tail = B.tail /\ C.localTail = B.localTail
      /\ C.localFront = B.localFront
      /\ C.next = B.next /\ C.size = B.size /\ C.data = [B.data EXCEPT ![B.tail] = x]
  BY DEF BlockRight, IsBlock
<1>2. /\ Filled(C) = Filled(B) /\ Round(C) = Round(B) /\ Filled(B) \in 0 .. B.size - 2
      /\ Filled(B) <= Round(B) /\ Round(B) \in Int /\ B.size \in Nat
      /\ \A i \in 0 .. B.size - 1 : Gap(B.front, i, B.size) \in 0 .. B.size - 1
      /\ \A i \in 0 .. B.size - 1 : Gap(B.front, i, B.size) = Filled(B) <=> i = B.tail
      /\ t = 1 => Filled(B) >= 1
  BY <1>1, RoundOfBlock DEF BlockRight, Filled, Round
<1>3. B.data[B.tail] = 0
  BY <1>2, SMTT(40) DEF BlockRight, Contents, Indices
<1>4. C.data = Contents(C, first, 1, t)
  <2>1. \A i \in 0 .. B.size - 1 : C.data[i] = Contents(C, first, 1, t)[i]
    <3> SUFFICES ASSUME NEW i \in 0 .. B.size - 1 PROVE C.data[i] = Contents(C, first, 1, t)[i]
      OBVIOUS
    <3>1. CASE i = B.tail
      <4>1. (t = 0 \/ i # B.front)
        BY <3>1, <1>2, RoundOfBlock
      <4> QED
        BY <1>1, <1>2, <3>1, <4>1 DEF BlockRight, Contents, Indices, IsBlock
    <3>2. CASE i # B.tail
      <4>1. Gap(B.front, i, B.size) < Filled(B) + 1 <=> Gap(B.front, i, B.size) < Filled(B) + 0
        BY <1>2, <3>2
      <4> QED
        BY <1>1, <1>2, <3>2, <4>1, SMTT(40) DEF BlockRight, Contents, Indices
    <3> QED
      BY <3>1, <3>2
  <2> QED
    BY <2>1, <1>1 DEF Contents, BlockRight
<1> QED
  BY <1>1, <1>2, <1>3, <1>4 DEF BlockRight, Indices

(* The producer moves tail over it.                                        *)
LEMMA TailMoved ==
  ASSUME NEW B, NEW first \in Int, NEW t \in 0 .. 1, BlockRight(B, first, 1, t),
         NEW C, C = [B EXCEPT !.tail = After(B.tail, B.size)]
  PROVE  /\ BlockRight(C, first, 0, t) /\ Filled(C) = Filled(B) + 1 /\ C.next = B.next /\ C.size = B.size
         /\ C.front = B.front /\ C.localTail = B.localTail
<1>1. /\ IsBlock(C) /\ C.front = B.front /\ C.tail = After(B.tail, B.size) /\ C.localTail = B.localTail
      /\ C.localFront = B.localFront /\ C.next = B.next /\ C.size = B.size /\ C.data = B.data
  BY DEF BlockRight, IsBlock
<1>2. Filled(C) = Filled(B) + 1 /\ Round(C) = Round(B) + 1 /\ After(B.tail, B.size) \in 0 .. B.size - 1
  <2>1. /\ B.size \in Nat /\ B.size >= 2 /\ B.localFront \in 0 .. B.size - 1 /\ B.front \in 0 .. B.size - 1
        /\ B.localTail \in 0 .. B.size - 1 /\ B.tail \in 0 .. B.size - 1
    BY DEF BlockRight, Indices
  <2>2. Filled(B) = Gap(B.front, B.localTail, B.size) + Gap(B.localTail, B.tail, B.size) /\ Filled(B) <= B.size - 2
    <3>1. /\ Filled(B) = Gap(B.front, B.localTail, B.size) + Gap(B.localTail, B.tail, B.size)
          /\ Filled(B) \in 0 .. B.size - 1 - 1
      BY RoundOfBlock
    <3> QED
      BY <2>1, <3>1
  <2>3. /\ Gap(B.localFront, B.front, B.size) \in Nat /\ Gap(B.front, B.localTail, B.size) \in Nat
        /\ Gap(B.localTail, B.tail, B.size) \in Nat
    BY <2>1 DEF Gap
  <2>4. Gap(B.localTail, B.tail, B.size) <= B.size - 2 /\ Gap(B.front, B.tail, B.size) <= B.size - 2
    BY <2>1, <2>2, <2>3 DEF Filled
  <2>5. /\ Gap(B.localTail, After(B.tail, B.size), B.size) = Gap(B.localTail, B.tail, B.size) + 1
        /\ Gap(B.front, After(B.tail, B.size), B.size) = Gap(B.front, B.tail, B.size) + 1
        /\ After(B.tail, B.size) \in 0 .. B.size - 1
    BY <2>1, <2>4, GapMoves
  <2> QED
    BY <1>1, <2>3, <2>5 DEF Filled, Round
<1>3. Contents(C, first, 0, t) = Contents(B, first, 1, t)
  <2>1. Filled(B) \in 0 .. B.size - 1 - 1
    BY RoundOfBlock
  <2>2. B.size \in Nat
    BY DEF BlockRight
  <2>3. Filled(C) + 0 = Filled(B) + 1
    BY <1>2, <2>1, <2>2
  <2> QED
    BY <1>1, <2>3 DEF Contents
<1>4. Round(C) + 0 <= C.size - 1
  BY <1>1, <1>2, RoundOfBlock DEF BlockRight
<1> QED
  BY <1>1, <1>2, <1>3, <1>4 DEF BlockRight, Indices

(* The consumer moves the element out of the slot at front.                *)
LEMMA ElementTaken ==
  ASSUME NEW B, NEW first \in Int, NEW e \in 0 .. 1, BlockRight(B, first, e, 0), B.front # B.localTail,
         NEW C, C = [B EXCEPT !.data[B.front] = 0]
  PROVE  /\ BlockRight(C, first, e, 1) /\ Filled(C) = Filled(B) /\ C.next = B.next /\ C.size = B.size
         /\ C.front = B.front /\ C.tail = B.tail /\ C.localTail = B.localTail /\ Round(C) = Round(B)
         /\ B.data[B.front] = first + 1
<1>1. /\ IsBlock(C) /\ C.front = B.front /\ C.tail = B.tail /\ C.localTail = B.localTail
      /\ C.localFront = B.localFront
      /\ C.next = B.next /\ C.size = B.size /\ C.data = [B.data EXCEPT ![B.front] = 0]
  BY DEF BlockRight, IsBlock
<1>2. Filled(C) = Filled(B) /\ Round(C) = Round(B) /\ B.size \in Nat
  BY <1>1 DEF BlockRight, Filled, Round
<1>3. B.data[B.front] = first + 1
  <2>1. /\ Filled(B) >= 1 /\ Filled(B) \in 0 .. B.size - 1 - e /\ B.size \in Nat /\ Indices(B)
        /\ \A i \in 0 .. B.size - 1 : Gap(B.front, i, B.size) = 0 <=> i = B.front
    BY RoundOfBlock
  <2>2. Gap(B.front, B.front, B.size) < Filled(B) + e /\ B.front \in 0 .. B.size - 1
    BY <2>1 DEF Indices
  <2>3. B.data = Contents(B, first, e, 0)
    BY DEF BlockRight
  <2> QED
    BY <2>1, <2>2, <2>3 DEF Contents, Indices
<1>4. C.data = Contents(C, first, e, 1)
  <2>1. B.data = Contents(B, first, e, 0)
    BY DEF BlockRight
  <2> QED
    <3>1. \A i \in 0 .. B.size - 1 :
            Contents(C, first, e, 1)[i] = IF i = B.front THEN 0 ELSE Contents(B, first, e, 0)[i]
      BY <1>1, <1>2 DEF Contents
    <3>2. \A i \in 0 .. B.size - 1 : C.data[i] = IF i = B.front THEN 0 ELSE Contents(B, first, e, 0)[i]
      BY <1>1, <2>1 DEF Contents
    <3>3. \A i \in 0 .. B.size - 1 : C.data[i] = Contents(C, first, e, 1)[i]
      BY <3>1, <3>2
    <3> QED
      BY <3>3, <1>1 DEF Contents, BlockRight
<1> QED
  BY <1>1, <1>2, <1>3, <1>4 DEF BlockRight, Indices

(* The slots of a block with element x in its first one.                   *)
OnlyFirst(s, x) == [i \in 0 .. s - 1 |-> IF i = 0 THEN x ELSE 0]

(* The consumer moves front over it.                                       *)
LEMMA FrontMoved ==
  ASSUME NEW B, NEW first \in Int, NEW e \in 0 .. 1, BlockRight(B, first, e, 1),
         NEW C, C = [B EXCEPT !.front = After(B.front, B.size)]
  PROVE  /\ BlockRight(C, first + 1, e, 0) /\ Filled(C) = Filled(B) - 1 /\ C.next = B.next /\ C.size = B.size
         /\ C.tail = B.tail /\ C.localTail = B.localTail /\ Round(C) = Round(B)
<1>1. /\ IsBlock(C) /\ C.front = After(B.front, B.size) /\ C.tail = B.tail /\ C.localTail = B.localTail
      /\ C.localFront = B.localFront /\ C.next = B.next /\ C.size = B.size /\ C.data = B.data
  BY DEF BlockRight, IsBlock
<1>2. Filled(C) = Filled(B) - 1 /\ Round(C) = Round(B) /\ After(B.front, B.size) \in 0 .. B.size - 1
  <2>1. /\ B.size \in Nat /\ B.size >= 2 /\ B.localFront \in 0 .. B.size - 1 /\ B.front \in 0 .. B.size - 1
        /\ B.localTail \in 0 .. B.size - 1 /\ B.tail \in 0 .. B.size - 1 /\ B.front # B.localTail
    BY DEF BlockRight, Indices
  <2>2. /\ Gap(B.localFront, B.tail, B.size) = Round(B) /\ Filled(B) \in 0 .. B.size - 1 - e /\ Filled(B) >= 1
        /\ Round(B) \in Filled(B) .. B.size - 1 - e
        /\ Filled(B) = Gap(B.front, B.localTail, B.size) + Gap(B.localTail, B.tail, B.size)
    BY RoundOfBlock
  <2>3. /\ Gap(B.localFront, B.front, B.size) \in Nat /\ Gap(B.front, B.localTail, B.size) \in Nat
        /\ Gap(B.localTail, B.tail, B.size) \in Nat
    BY <2>1 DEF Gap
  <2>4. Gap(B.localFront, B.front, B.size) <= B.size - 2 /\ B.front # B.tail
    BY <2>1, <2>2, <2>3 DEF Round, Filled, Gap
  <2>5. /\ Gap(B.localFront, After(B.front, B.size), B.size) = Gap(B.localFront, B.front, B.size) + 1
        /\ Gap(After(B.front, B.size), B.localTail, B.size) = Gap(B.front, B.localTail, B.size) - 1
        /\ Gap(After(B.front, B.size), B.tail, B.size) = Gap(B.front, B.tail, B.size) - 1
        /\ After(B.front, B.size) \in 0 .. B.size - 1
    BY <2>1, <2>4, GapMoves
  <2> QED
    BY <1>1, <2>3, <2>5 DEF Filled, Round
<1>3. /\ Filled(B) \in Int /\ B.size \in Nat /\ Filled(B) + e <= B.size - 1
      /\ \A i \in 0 .. B.size - 1 : i # B.front => Gap(C.front, i, C.size) = Gap(B.front, i, B.size) - 1
      /\ Gap(C.front, B.front, C.size) = B.size - 1
      /\ \A i \in 0 .. B.size - 1 : Gap(B.front, i, B.size) \in 0 .. B.size - 1
  <2>1. /\ B.size \in Nat /\ B.size >= 2 /\ Indices(B) /\ Filled(B) \in 0 .. B.size - 1 - e
        /\ \A i \in 0 .. B.size - 1 : Gap(B.front, i, B.size) \in 0 .. B.size - 1
    BY RoundOfBlock
  <2>2. B.front \in 0 .. B.size - 1
    BY <2>1 DEF Indices
  <2>3. /\ \A i \in 0 .. B.size - 1 : i # B.front => Gap(After(B.front, B.size), i, B.size) = Gap(B.front, i, B.size) - 1
        /\ Gap(After(B.front, B.size), B.front, B.size) = B.size - 1
    <3>1. \A s \in Nat : s >= 2 =>
             \A f \in 0 .. s - 1 : /\ \A i \in 0 .. s - 1 : i # f => Gap(After(f, s), i, s) = Gap(f, i, s) - 1
                                  /\ Gap(After(f, s), f, s) = s - 1
      BY DEF Gap, After
    <3> QED
      BY <2>1, <2>2, <3>1
  <2> QED
    BY <1>1, <2>1, <2>3
<1>4. \A i \in 0 .. B.size - 1 : Contents(C, first + 1, e, 0)[i] = Contents(B, first, e, 1)[i]
  <2> SUFFICES ASSUME NEW i \in 0 .. B.size - 1
               PROVE  Contents(C, first + 1, e, 0)[i] = Contents(B, first, e, 1)[i]
    OBVIOUS
  <2>1. CASE i = B.front
    <3>1. ~(Gap(C.front, i, C.size) < Filled(C) + e)
      BY <2>1, <1>2, <1>3
    <3> QED
      BY <2>1, <3>1, <1>1 DEF Contents
  <2>2. CASE i # B.front
    <3>1. /\ Gap(C.front, i, C.size) < Filled(C) + e <=> Gap(B.front, i, B.size) < Filled(B) + e
          /\ first + 1 + Gap(C.front, i, C.size) + 1 = first + Gap(B.front, i, B.size) + 1
      BY <2>2, <1>2, <1>3
    <3> QED
      BY <2>2, <3>1, <1>1 DEF Contents
  <2> QED
    BY <2>1, <2>2
<1>5. C.data = Contents(C, first + 1, e, 0)
  <2>1. C.data = Contents(B, first, e, 1)
    BY <1>1 DEF BlockRight
  <2> QED
    BY <2>1, <1>1, <1>4 DEF Contents
<1> QED
  BY <1>1, <1>2, <1>5 DEF BlockRight, Indices
(* A block with the first element in it, and one with none.                *)
LEMMA NewBlock ==
  ASSUME NEW s \in Nat, s >= 2, NEW first \in Int, NEW B, IsBlock(B), B.size = s, B.front = 0, B.localFront = 0
  PROVE  /\ B.tail = 1 /\ B.localTail = 1 /\ B.data = OnlyFirst(s, first + 1)
              => BlockRight(B, first, 0, 0) /\ Filled(B) = 1
         /\ B.tail = 0 /\ B.localTail = 0 /\ B.data = [i \in 0 .. s - 1 |-> 0]
              => BlockRight(B, 0, 0, 0) /\ Filled(B) = 0
<1>1. \A i \in 0 .. s - 1 : Gap(0, i, s) = i
  BY DEF Gap
<1>2. ASSUME B.tail = 1, B.localTail = 1, B.data = OnlyFirst(s, first + 1)
      PROVE  BlockRight(B, first, 0, 0) /\ Filled(B) = 1
  <2>1. Filled(B) = 1 /\ Round(B) = 1
    BY <1>2 DEF Filled, Round, Gap
  <2>2. Indices(B)
    BY <1>2 DEF Indices
  <2>3. Contents(B, first, 0, 0) = [i \in 0 .. s - 1 |-> IF Gap(0, i, s) < 1 + 0 THEN first + Gap(0, i, s) + 1 ELSE 0]
    BY <2>1 DEF Contents
  <2>4. \A i \in 0 .. s - 1 : B.data[i] = Contents(B, first, 0, 0)[i]
    <3> TAKE i \in 0 .. s - 1
    <3>1. Gap(0, i, s) = i /\ i \in Nat
      BY <1>1
    <3>2. Contents(B, first, 0, 0)[i] = IF i < 1 THEN first + i + 1 ELSE 0
      BY <2>1, <3>1, <1>2 DEF Contents
    <3>3. B.data[i] = IF i < 1 THEN first + i + 1 ELSE 0
      BY <3>1, <1>2 DEF OnlyFirst
    <3> QED
      BY <3>2, <3>3, Zenon
  <2>5. B.data = Contents(B, first, 0, 0)
    BY <1>2, <2>3, <2>4 DEF OnlyFirst
  <2> QED
    BY <2>1, <2>2, <2>5 DEF BlockRight
<1>3. ASSUME B.tail = 0, B.localTail = 0, B.data = [i \in 0 .. s - 1 |-> 0]
      PROVE  BlockRight(B, 0, 0, 0) /\ Filled(B) = 0
  <2>1. Filled(B) = 0 /\ Round(B) = 0
    BY <1>3 DEF Filled, Round, Gap
  <2>2. Indices(B)
    BY <1>3 DEF Indices
  <2>3. Contents(B, 0, 0, 0) = [i \in 0 .. s - 1 |-> IF Gap(0, i, s) < 0 + 0 THEN 0 + Gap(0, i, s) + 1 ELSE 0]
    BY <2>1 DEF Contents
  <2>4. \A i \in 0 .. s - 1 : B.data[i] = Contents(B, 0, 0, 0)[i]
    <3> TAKE i \in 0 .. s - 1
    <3>1. Gap(0, i, s) = i /\ i \in Nat
      BY <1>1
    <3>2. Contents(B, 0, 0, 0)[i] = IF i < 0 THEN 0 + i + 1 ELSE 0
      BY <2>1, <3>1, <1>3 DEF Contents
    <3>3. B.data[i] = IF i < 0 THEN 0 + i + 1 ELSE 0
      BY <3>1, <1>3
    <3> QED
      BY <3>2, <3>3, Zenon
  <2>5. B.data = Contents(B, 0, 0, 0)
    BY <1>3, <2>3, <2>4
  <2> QED
    BY <2>1, <2>2, <2>5 DEF BlockRight
<1> QED
  BY <1>2, <1>3

(* A product of natural numbers, and its sums.                             *)
LEMMA Products ==
  ASSUME NEW x \in Nat, NEW K \in Nat
  PROVE  x * K \in Nat /\ x * K >= 0 /\ (x + 1) * K = x * K + K /\ \A y \in Int : y >= 1 => (y * K >= K)
  BY Z3

(* The parts of a step that changes neither an element nor the circle.     *)
LEMMA CircleKept ==
  ASSUME NEW n, NEW pos, NEW num, NEW K, QueueWith(n, pos, num, K),
         size' = size, frontBlock' = frontBlock, tailBlock' = tailBlock, largestBlockSize' = largestBlockSize,
         sent' = sent, received' = received, walk' = walk,
         queuePpc' = "publish" <=> queuePpc = "publish", queuePpc' = "walk" <=> queuePpc = "walk",
         queueCpc' = "walk" <=> queueCpc = "walk",
         \A b \in 1 .. n : blk'[b].next = blk[b].next /\ blk'[b].size = blk[b].size /\ Filled(blk'[b]) = Filled(blk[b])
  PROVE  CircleRight(n, pos)' /\ OrderRight(n, pos, num)' /\ RoomRight(n, pos, num, K)' /\ WalkRight(n, pos, num)'
<1>1. CircleRight(n, pos) /\ OrderRight(n, pos, num) /\ RoomRight(n, pos, num, K) /\ WalkRight(n, pos, num)
  BY DEF QueueWith
<1>2. frontBlock \in 1 .. n /\ tailBlock \in 1 .. n
  BY <1>1 DEF CircleRight
<1>3. NextTailBlock' = NextTailBlock /\ \A b : Live(pos, b)' <=> Live(pos, b)
  BY <1>2 DEF NextTailBlock, Live
<1>4. CircleRight(n, pos)'
  BY <1>1 DEF CircleRight
<1>5. OrderRight(n, pos, num)'
  BY <1>1, <1>2, <1>3 DEF OrderRight
<1>6. RoomRight(n, pos, num, K)'
  BY <1>1, <1>3 DEF RoomRight
<1>7. WalkRight(n, pos, num)'
  <2>1. Ahead(n, pos, num)' = Ahead(n, pos, num)
    BY <1>3 DEF Ahead, WalkPos, WalkFrom
  <2> QED
    BY <1>1, <1>3, <2>1 DEF WalkRight, ProducerWalk, ConsumerWalk
<1> QED
  BY <1>4, <1>5, <1>6, <1>7

(* The blocks stay as they are when no element is in between.              *)
LEMMA BlocksKept ==
  ASSUME NEW n, NEW pos, NEW num, NEW K, QueueWith(n, pos, num, K), blk' = blk,
         \A b \in 1 .. n : Extra(b)' = Extra(b) /\ Taken(b)' = Taken(b)
  PROVE  BlocksRight(n, num)'
  BY DEF QueueWith, BlocksRight

(* One block changes.                                                      *)
LEMMA OneBlock ==
  ASSUME NEW n, NEW num, NEW num2, BlocksRight(n, num), NEW t,
         \A b \in 1 .. n : b # t => /\ blk'[b] = blk[b] /\ num2[b] = num[b]
                                    /\ Extra(b)' = Extra(b) /\ Taken(b)' = Taken(b),
         BlockRight(blk'[t], num2[t], Extra(t)', Taken(t)')
  PROVE  BlocksRight(n, num2)'
<1> SUFFICES ASSUME NEW b \in 1 .. n PROVE BlockRight(blk'[b], num2[b], Extra(b)', Taken(b)')
  BY DEF BlocksRight
<1>1. CASE b = t
  BY <1>1
<1>2. CASE b # t
  BY <1>2 DEF BlocksRight
<1> QED
  BY <1>1, <1>2
(* The bounds are numbers.                                                 *)
LEMMA NumbersKnown == MaxBlocks \in Nat /\ QueueItems \in Nat
  BY PartsAssumption DEF Queue!SizeAssumption

(* A block of the circle.                                                  *)
LEMMA BlockFacts ==
  ASSUME NEW n, NEW pos, NEW num, NEW K, QueueWith(n, pos, num, K), NEW b \in 1 .. n
  PROVE  /\ BlockRight(blk[b], num[b], Extra(b), Taken(b)) /\ num[b] \in Int /\ Extra(b) \in 0 .. 1 /\ Taken(b) \in 0 .. 1
         /\ blk[b].size \in Nat /\ blk[b].size >= 2 /\ Indices(blk[b])
         /\ Filled(blk[b]) \in 0 .. blk[b].size - 1 - Extra(b)
         /\ Round(blk[b]) \in Filled(blk[b]) .. blk[b].size - 1 - Extra(b)
         /\ Round(blk[b]) = Gap(blk[b].localFront, blk[b].tail, blk[b].size)
         /\ Filled(blk[b]) = 0 <=> blk[b].front = blk[b].tail
         /\ Taken(b) = 1 \/ blk[b].front # blk[b].localTail => Filled(blk[b]) >= 1
         /\ n \in Nat /\ n <= MaxBlocks /\ MaxBlocks \in Nat /\ b \in 1 .. MaxBlocks
         /\ frontBlock \in 1 .. n /\ tailBlock \in 1 .. n /\ sent \in Nat /\ received \in Nat
         /\ QueueItems \in Nat
<1>1. BlockRight(blk[b], num[b], Extra(b), Taken(b)) /\ num[b] \in Int /\ Extra(b) \in 0 .. 1 /\ Taken(b) \in 0 .. 1
  BY DEF QueueWith, BlocksRight, OrderRight, Extra, Taken
<1>2. /\ n \in Nat /\ n <= MaxBlocks /\ frontBlock \in 1 .. n /\ tailBlock \in 1 .. n /\ sent \in Nat /\ received \in Nat
  BY DEF QueueWith, CircleRight, ProducerRight
<1>3. MaxBlocks \in Nat /\ QueueItems \in Nat
  BY NumbersKnown
<1> QED
  BY <1>1, <1>2, <1>3, RoundOfBlock

(* The next block of a live one that is not the last.                      *)
LEMMA NextLive ==
  ASSUME NEW n, NEW pos, NEW num, NEW K, QueueWith(n, pos, num, K), NEW b \in 1 .. n, Live(pos, b), b # tailBlock
  PROVE  /\ blk[b].next \in 1 .. n /\ pos[blk[b].next] = pos[b] + 1 /\ Live(pos, blk[b].next)
         /\ blk[b].next # frontBlock /\ num[blk[b].next] = num[b] + Filled(blk[b])
<1>1. CircleRight(n, pos) /\ OrderRight(n, pos, num)
  BY DEF QueueWith
<1>2. /\ frontBlock \in 1 .. n /\ tailBlock \in 1 .. n /\ n \in Nat
      /\ \A a \in 1 .. n : pos[a] \in Int /\ pos[frontBlock] <= pos[a] /\ pos[a] < pos[frontBlock] + n
      /\ pos[b] = pos[tailBlock] => b = tailBlock
      /\ blk[b].next \in 1 .. n
      /\ pos[blk[b].next] = IF pos[b] = pos[frontBlock] + n - 1 THEN pos[frontBlock] ELSE pos[b] + 1
  BY <1>1 DEF CircleRight
<1>3. pos[b] < pos[tailBlock]
  BY <1>2 DEF Live
<1>4. pos[blk[b].next] = pos[b] + 1 /\ pos[blk[b].next] # pos[frontBlock]
  BY <1>2, <1>3
<1>5. Live(pos, blk[b].next)
  BY <1>2, <1>3, <1>4 DEF Live
<1>6. num[blk[b].next] = num[b] + Filled(blk[b])
  BY <1>1 DEF OrderRight
<1> QED
  BY <1>2, <1>4, <1>5, <1>6

(* Positions are numbers, and those of different blocks differ.            *)
LEMMA Positions ==
  ASSUME NEW n, NEW pos, NEW num, NEW K, QueueWith(n, pos, num, K)
  PROVE  /\ n \in Nat /\ \A b \in 1 .. n : pos[b] \in Int /\ num[b] \in Int
         /\ frontBlock \in 1 .. n /\ tailBlock \in 1 .. n /\ K \in Nat /\ K >= 1
         /\ Live(pos, frontBlock) /\ Live(pos, tailBlock)
         /\ \A b \in 1 .. n : pos[b] = pos[frontBlock] <=> b = frontBlock
         /\ \A b \in 1 .. n : pos[b] = pos[tailBlock] <=> b = tailBlock
         /\ num[frontBlock] = received /\ num[tailBlock] + Filled(blk[tailBlock]) = sent
         /\ \A b \in 1 .. n : pos[frontBlock] <= pos[b] /\ pos[b] < pos[frontBlock] + n
<1>1. CircleRight(n, pos) /\ OrderRight(n, pos, num) /\ RoomRight(n, pos, num, K)
  BY DEF QueueWith
<1>2. /\ frontBlock \in 1 .. n /\ tailBlock \in 1 .. n /\ n \in Nat
      /\ \A b \in 1 .. n : pos[b] \in Int /\ pos[frontBlock] <= pos[b] /\ pos[b] < pos[frontBlock] + n
      /\ \A a, b \in 1 .. n : pos[a] = pos[b] => a = b
  BY <1>1 DEF CircleRight
<1>3. Live(pos, frontBlock) /\ Live(pos, tailBlock)
  BY <1>2 DEF Live
<1>4. /\ num[frontBlock] = received /\ num[tailBlock] + Filled(blk[tailBlock]) = sent
      /\ \A b \in 1 .. n : num[b] \in Int
  BY <1>1 DEF OrderRight
<1>5. K \in Nat /\ K >= 1
  BY <1>1 DEF RoomRight
<1> QED
  BY <1>2, <1>3, <1>4, <1>5

(* The elements of the live blocks lie between received and sent.          *)
LEMMA LiveNumbers ==
  ASSUME NEW n, NEW pos, NEW num, NEW K, QueueWith(n, pos, num, K), NEW b \in 1 .. n, Live(pos, b)
  PROVE  /\ num[b] >= received /\ num[b] + Filled(blk[b]) <= sent
         /\ b # frontBlock => num[b] >= received + Filled(blk[frontBlock])
<1>1. \A x, y \in 1 .. n : /\ Live(pos, y) /\ x # frontBlock /\ pos[x] <= pos[y]
                           => num[y] >= num[x]
  <2> TAKE x, y \in 1 .. n
  <2> HAVE Live(pos, y) /\ x # frontBlock /\ pos[x] <= pos[y]
  <2>1. num[y] - num[x] >= (pos[y] - pos[x]) * K
    BY DEF QueueWith, RoomRight
  <2>2. pos[y] - pos[x] \in Nat /\ K \in Nat /\ num[y] \in Int /\ num[x] \in Int
    BY Positions
  <2>3. (pos[y] - pos[x]) * K >= 0 /\ (pos[y] - pos[x]) * K \in Nat
    BY <2>2, Products
  <2> QED
    BY <2>1, <2>2, <2>3
<1>2. b # frontBlock => num[b] >= received + Filled(blk[frontBlock])
  <2> HAVE b # frontBlock
  <2>1. frontBlock # tailBlock /\ pos[frontBlock] < pos[b]
    BY Positions DEF Live
  <2>2. PICK c \in 1 .. n : /\ c = blk[frontBlock].next /\ pos[c] = pos[frontBlock] + 1 /\ c # frontBlock
                            /\ num[c] = num[frontBlock] + Filled(blk[frontBlock])
    BY <2>1, Positions, NextLive
  <2>3. pos[c] <= pos[b]
    BY <2>1, <2>2, Positions
  <2> QED
    BY <1>1, <2>2, <2>3, Positions
<1>3. num[b] >= received
  <2>1. Filled(blk[frontBlock]) \in Nat
    BY Positions, BlockFacts
  <2> QED
    BY <1>2, <2>1, Positions, BlockFacts
<1>4. num[b] + Filled(blk[b]) <= sent
  <2>1. CASE b = tailBlock
    BY <2>1, Positions, BlockFacts
  <2>2. CASE b # tailBlock
    <3>1. PICK c \in 1 .. n : /\ c = blk[b].next /\ pos[c] = pos[b] + 1 /\ c # frontBlock /\ Live(pos, c)
                              /\ num[c] = num[b] + Filled(blk[b])
      BY <2>2, NextLive
    <3>2. num[tailBlock] >= num[c]
      BY <1>1, <3>1, Positions DEF Live
    <3>3. Filled(blk[tailBlock]) \in Nat /\ num[tailBlock] \in Int /\ num[c] \in Int
      BY Positions, BlockFacts
    <3> QED
      BY <3>1, <3>2, <3>3, Positions
  <2> QED
    BY <2>1, <2>2
<1> QED
  BY <1>2, <1>3, <1>4

(* inner_enqueue() begins.                                                 *)
LEMMA EnqueueKeeps ==
  ASSUME NEW n, NEW pos, NEW num, NEW K, QueueWith(n, pos, num, K),
         NEW m \in {"CanAlloc", "CannotAlloc"}, Queue!Enqueue(m)
  PROVE  QueueWith(n, pos, num, K)'
<1>1. /\ queuePpc = "idle" /\ sent < QueueItems /\ mode' = m /\ refused' = -1
      /\ room' = (IF m = "CannotAlloc" THEN sent - received ELSE 0) /\ queuePpc' = "start"
      /\ UNCHANGED <<size, blk, frontBlock, tailBlock, largestBlockSize, sent, queueCpc, received, before, queuePeeked,
                     walk>>
  BY DEF Queue!Enqueue, Queue!queueVars, Queue!consumerVars
<1>2. CircleRight(n, pos)' /\ OrderRight(n, pos, num)' /\ RoomRight(n, pos, num, K)' /\ WalkRight(n, pos, num)'
  BY <1>1, CircleKept
<1>3. BlocksRight(n, num)'
  BY <1>1, BlocksKept DEF Extra, InPlace, Taken
<1>4. MemoryRight(n, K)'
  BY <1>1 DEF QueueWith, MemoryRight
<1>5. ProducerRight(n, pos, num, K)'
  <2>1. /\ sent \in 0 .. QueueItems /\ received \in 0 .. sent /\ room' \in Nat /\ room' <= QueueItems
        /\ mode' = "CannotAlloc" => room' >= sent - received
    BY <1>1, NumbersKnown DEF QueueWith, ProducerRight
  <2>2. refused' \in Int /\ refused' <= QueueItems /\ refused' >= -1 /\ (refused' # -1 => refused' >= size')
    BY <1>1, NumbersKnown
  <2>3. queuePpc' \in ProducerPlaces /\ queuePpc' \notin Leaving /\ sent' \in 0 .. QueueItems /\ received' \in 0 .. sent'
    BY <1>1, <2>1 DEF ProducerPlaces, Leaving
  <2> QED
    BY <1>1, <2>1, <2>2, <2>3 DEF ProducerRight
<1>6. ConsumerRight'
  BY <1>1 DEF QueueWith, ConsumerRight
<1> QED
  BY <1>2, <1>3, <1>4, <1>5, <1>6 DEF QueueWith

(* The cached localFront says whether the tail block has room.             *)
LEMMA CheckRoomKeeps ==
  ASSUME NEW n, NEW pos, NEW num, NEW K, QueueWith(n, pos, num, K), Queue!CheckRoom
  PROVE  QueueWith(n, pos, num, K)'
<1> DEFINE B == blk[tailBlock]
<1>1. /\ queuePpc = "start"
      /\ queuePpc' = IF (B.tail + 1) % B.size # B.localFront THEN "place" ELSE "reload"
      /\ UNCHANGED <<size, blk, frontBlock, tailBlock, largestBlockSize, mode, sent, room, refused,
                     queueCpc, received, before, queuePeeked, walk>>
  BY DEF Queue!CheckRoom, Queue!queueVars, Queue!consumerVars, Queue!Wrap, Queue!TB
<1>2. CircleRight(n, pos)' /\ OrderRight(n, pos, num)' /\ RoomRight(n, pos, num, K)' /\ WalkRight(n, pos, num)'
  BY <1>1, CircleKept
<1>3. BlocksRight(n, num)'
  BY <1>1, BlocksKept DEF Extra, InPlace, Taken
<1>4. MemoryRight(n, K)'
  BY <1>1 DEF QueueWith, MemoryRight
<1>5. queuePpc' = "place" => Round(B) <= B.size - 2
  <2>1. tailBlock \in 1 .. n
    BY DEF QueueWith, CircleRight
  <2>2. /\ B.size \in Nat /\ B.size >= 2 /\ B.size >= 1 /\ B.localFront \in 0 .. B.size - 1 /\ B.tail \in 0 .. B.size - 1
        /\ Round(B) = Gap(B.localFront, B.tail, B.size)
    BY <2>1, BlockFacts DEF Indices
  <2>3. (B.tail + 1) % B.size = After(B.tail, B.size)
    BY <2>2, WrapIsAfter
  <2> QED
    BY <1>1, <2>2, <2>3 DEF Gap, After
<1>6. ProducerRight(n, pos, num, K)'
  BY <1>1, <1>5 DEF QueueWith, ProducerRight, ProducerPlaces, Leaving
<1>7. ConsumerRight'
  BY <1>1 DEF QueueWith, ConsumerRight
<1> QED
  BY <1>2, <1>3, <1>4, <1>6, <1>7 DEF QueueWith

(* The consumer's front says whether the tail block has room.              *)
LEMMA ReloadFrontKeeps ==
  ASSUME NEW n, NEW pos, NEW num, NEW K, QueueWith(n, pos, num, K), Queue!ReloadFront
  PROVE  QueueWith(n, pos, num, K)'
<1>1. /\ queuePpc = "reload"
      /\ queuePpc' = IF (blk[tailBlock].tail + 1) % blk[tailBlock].size # blk[tailBlock].front THEN "place" ELSE "full"
      /\ blk' = [blk EXCEPT ![tailBlock].localFront = blk[tailBlock].front]
      /\ UNCHANGED <<size, frontBlock, tailBlock, largestBlockSize, mode, sent, room, refused,
                     queueCpc, received, before, queuePeeked, walk>>
  BY DEF Queue!ReloadFront, Queue!queueVars, Queue!consumerVars, Queue!Wrap, Queue!TB
<1>2. PICK t \in 1 .. n : t = tailBlock
  BY DEF QueueWith, CircleRight
<1>3. PICK B : B = blk[t]
  OBVIOUS
<1>4. PICK C : C = blk'[t]
  OBVIOUS
<1>5. /\ BlockRight(B, num[t], 0, Taken(t)) /\ num[t] \in Int /\ Taken(t) \in 0 .. 1
      /\ B.size \in Nat /\ B.size >= 2 /\ B.front \in 0 .. B.size - 1 /\ B.tail \in 0 .. B.size - 1
      /\ t \in 1 .. MaxBlocks /\ Filled(B) \in 0 .. B.size - 1 /\ n <= MaxBlocks /\ n \in Nat /\ MaxBlocks \in Nat
  <2>1. Extra(t) = 0
    BY <1>1 DEF Extra, InPlace
  <2> QED
    BY <2>1, <1>3, BlockFacts DEF Indices
<1>6. /\ C = [B EXCEPT !.localFront = B.front] /\ \A b \in 1 .. MaxBlocks : b # t => blk'[b] = blk[b]
      /\ blk' = [b \in 1 .. MaxBlocks |-> blk'[b]]
  BY <1>1, <1>2, <1>3, <1>4, <1>5 DEF QueueWith, MemoryRight
<1>7. /\ BlockRight(C, num[t], 0, Taken(t)) /\ Filled(C) = Filled(B) /\ C.next = B.next /\ C.size = B.size
      /\ C.front = B.front /\ C.localTail = B.localTail /\ Round(C) = Filled(B)
  BY <1>5, <1>6, LocalFrontReloaded
<1>8. CircleRight(n, pos)' /\ OrderRight(n, pos, num)' /\ RoomRight(n, pos, num, K)' /\ WalkRight(n, pos, num)'
  <2>1. \A b \in 1 .. n : blk'[b].next = blk[b].next /\ blk'[b].size = blk[b].size /\ Filled(blk'[b]) = Filled(blk[b])
    <3> TAKE b \in 1 .. n
    <3>1. CASE b = t
      BY <3>1, <1>3, <1>4, <1>7
    <3>2. CASE b # t
      BY <3>2, <1>5, <1>6
    <3> QED
      BY <3>1, <3>2
  <2> QED
    BY <1>1, <2>1, CircleKept
<1>9. BlocksRight(n, num)'
  <2>1. \A b \in 1 .. n : b # t => /\ blk'[b] = blk[b] /\ num[b] = num[b]
                                   /\ Extra(b)' = Extra(b) /\ Taken(b)' = Taken(b)
    BY <1>1, <1>5, <1>6 DEF Extra, InPlace, Taken
  <2>2. Extra(t)' = 0 /\ Taken(t)' = Taken(t)
    BY <1>1 DEF Extra, InPlace, Taken
  <2>3. BlocksRight(n, num)
    BY DEF QueueWith
  <2>4. BlockRight(blk'[t], num[t], Extra(t)', Taken(t)')
    BY <1>4, <1>7, <2>2
  <2> QED
    BY <2>1, <2>3, <2>4, OneBlock
<1>10. MemoryRight(n, K)'
  BY <1>1, <1>5, <1>6, SMTT(40) DEF QueueWith, MemoryRight
<1>11. ProducerRight(n, pos, num, K)'
  <2>1. (B.tail + 1) % B.size = After(B.tail, B.size) /\ After(B.tail, B.size) \in 0 .. B.size - 1
    <3>1. B.size >= 1
      BY <1>5
    <3> QED
      BY <1>5, <3>1, WrapIsAfter
  <2>2. queuePpc' = "place" => Round(C) <= C.size - 2
    <3> HAVE queuePpc' = "place"
    <3>1. After(B.tail, B.size) # B.front
      BY <1>1, <1>2, <1>3, <2>1
    <3>2. Gap(B.front, B.tail, B.size) <= B.size - 2
      BY <3>1, <1>5 DEF Gap, After
    <3> QED
      BY <1>7, <3>2 DEF Filled
  <2>3. queuePpc' = "full" => Filled(C) = C.size - 1
    <3> HAVE queuePpc' = "full"
    <3>1. After(B.tail, B.size) = B.front
      BY <1>1, <1>2, <1>3, <2>1
    <3>2. Gap(B.front, B.tail, B.size) = B.size - 1
      BY <3>1, <1>5 DEF Gap, After
    <3> QED
      BY <1>7, <3>2 DEF Filled
  <2>4. queuePpc' = "full" /\ mode = "CannotAlloc" => room >= K
    <3> HAVE queuePpc' = "full" /\ mode = "CannotAlloc"
    <3>1. num[t] >= received /\ num[t] + Filled(B) = sent
      BY <1>2, <1>3, Positions, LiveNumbers
    <3>2. room >= sent - received /\ room \in Nat /\ sent \in Nat /\ received \in Nat /\ K \in Nat /\ B.size > K
      BY <1>1, <1>2, <1>3 DEF QueueWith, ProducerRight, RoomRight
    <3> QED
      BY <1>5, <1>7, <2>3, <3>1, <3>2
  <2>5. blk'[tailBlock'] = C
    BY <1>1, <1>2, <1>4
  <2> QED
    BY <1>1, <2>2, <2>3, <2>4, <2>5 DEF QueueWith, ProducerRight, ProducerPlaces, Leaving
<1>12. ConsumerRight'
  <2>1. frontBlock \in 1 .. MaxBlocks /\ frontBlock \in 1 .. n
    BY <1>5, Positions
  <2>2. /\ Filled(blk'[frontBlock]) = Filled(blk[frontBlock]) /\ blk'[frontBlock].front = blk[frontBlock].front
        /\ blk'[frontBlock].localTail = blk[frontBlock].localTail
    <3>1. CASE frontBlock = t
      BY <3>1, <1>3, <1>4, <1>7, <1>6
    <3>2. CASE frontBlock # t
      BY <3>2, <2>1, <1>6
    <3> QED
      BY <3>1, <3>2
  <2> QED
    BY <1>1, <2>2 DEF QueueWith, ConsumerRight
<1> QED
  BY <1>8, <1>9, <1>10, <1>11, <1>12 DEF QueueWith
(* An element is constructed in the slot at tail.                          *)
LEMMA PlaceKeeps ==
  ASSUME NEW n, NEW pos, NEW num, NEW K, QueueWith(n, pos, num, K), Queue!Place
  PROVE  QueueWith(n, pos, num, K)' /\ blk[tailBlock].data[blk[tailBlock].tail] = 0
<1>1. /\ queuePpc = "place" /\ queuePpc' = "settail"
      /\ blk' = [blk EXCEPT ![tailBlock].data[blk[tailBlock].tail] = sent + 1]
      /\ UNCHANGED <<size, frontBlock, tailBlock, largestBlockSize, mode, sent, room, refused,
                     queueCpc, received, before, queuePeeked, walk>>
  BY DEF Queue!Place, Queue!queueVars, Queue!consumerVars, Queue!TB
<1>2. PICK t \in 1 .. n : t = tailBlock
  BY DEF QueueWith, CircleRight
<1>3. PICK B : B = blk[t]
  OBVIOUS
<1>4. PICK C : C = blk'[t]
  OBVIOUS
<1>5. /\ BlockRight(B, num[t], 0, Taken(t)) /\ num[t] \in Int /\ Taken(t) \in 0 .. 1
      /\ t \in 1 .. MaxBlocks /\ n <= MaxBlocks /\ n \in Nat /\ MaxBlocks \in Nat
  <2>1. Extra(t) = 0
    BY <1>1 DEF Extra, InPlace
  <2> QED
    BY <2>1, <1>3, BlockFacts
<1>6. /\ C = [B EXCEPT !.data[B.tail] = sent + 1] /\ \A b \in 1 .. MaxBlocks : b # t => blk'[b] = blk[b]
      /\ blk' = [b \in 1 .. MaxBlocks |-> blk'[b]]
  BY <1>1, <1>2, <1>3, <1>4, <1>5 DEF QueueWith, MemoryRight
<1>7. Round(B) <= B.size - 2 /\ sent + 1 = num[t] + Filled(B) + 1
  BY <1>1, <1>2, <1>3, Positions DEF QueueWith, ProducerRight
<1>8. /\ BlockRight(C, num[t], 1, Taken(t)) /\ Filled(C) = Filled(B) /\ C.next = B.next /\ C.size = B.size
      /\ C.front = B.front /\ C.localTail = B.localTail /\ B.data[B.tail] = 0
  BY <1>5, <1>6, <1>7, ElementPlaced
<1>9. CircleRight(n, pos)' /\ OrderRight(n, pos, num)' /\ RoomRight(n, pos, num, K)' /\ WalkRight(n, pos, num)'
  <2>1. \A b \in 1 .. n : blk'[b].next = blk[b].next /\ blk'[b].size = blk[b].size /\ Filled(blk'[b]) = Filled(blk[b])
    <3> TAKE b \in 1 .. n
    <3>1. CASE b = t
      BY <3>1, <1>3, <1>4, <1>8
    <3>2. CASE b # t
      BY <3>2, <1>5, <1>6
    <3> QED
      BY <3>1, <3>2
  <2> QED
    BY <1>1, <2>1, CircleKept
<1>10. BlocksRight(n, num)'
  <2>1. \A b \in 1 .. n : b # t => /\ blk'[b] = blk[b] /\ num[b] = num[b]
                                   /\ Extra(b)' = Extra(b) /\ Taken(b)' = Taken(b)
    BY <1>1, <1>2, <1>5, <1>6 DEF Extra, InPlace, Taken
  <2>2. Extra(t)' = 1 /\ Taken(t)' = Taken(t)
    BY <1>1, <1>2 DEF Extra, InPlace, Taken
  <2>3. BlocksRight(n, num)
    BY DEF QueueWith
  <2>4. BlockRight(blk'[t], num[t], Extra(t)', Taken(t)')
    BY <1>4, <1>8, <2>2, SMTT(40)
  <2> QED
    BY <2>1, <2>3, <2>4, OneBlock
<1>11. MemoryRight(n, K)'
  <2>1. \A b \in 1 .. MaxBlocks : b > n => blk'[b] = blk[b]
    BY <1>5, <1>6
  <2> QED
    BY <1>1, <1>6, <2>1 DEF QueueWith, MemoryRight
<1>12. ProducerRight(n, pos, num, K)'
  BY <1>1 DEF QueueWith, ProducerRight, ProducerPlaces, Leaving
<1>13. ConsumerRight'
  <2>1. frontBlock \in 1 .. MaxBlocks /\ frontBlock \in 1 .. n
    BY <1>5, Positions
  <2>2. /\ Filled(blk'[frontBlock]) = Filled(blk[frontBlock]) /\ blk'[frontBlock].front = blk[frontBlock].front
        /\ blk'[frontBlock].localTail = blk[frontBlock].localTail
    <3>1. CASE frontBlock = t
      BY <3>1, <1>3, <1>4, <1>8, <1>6
    <3>2. CASE frontBlock # t
      BY <3>2, <2>1, <1>6
    <3> QED
      BY <3>1, <3>2
  <2> QED
    BY <1>1, <2>2 DEF QueueWith, ConsumerRight
<1>14. QueueWith(n, pos, num, K)'
  BY <1>9, <1>10, <1>11, <1>12, <1>13 DEF QueueWith
<1> QED
  BY <1>14, <1>8, <1>2, <1>3

(* The tail block is full: what comes next.                                *)
LEMMA FindNextKeeps ==
  ASSUME NEW n, NEW pos, NEW num, NEW K, QueueWith(n, pos, num, K), Queue!FindNext
  PROVE  QueueWith(n, pos, num, K)'
<1>1. /\ queuePpc = "full"
      /\ IF NextTailBlock # frontBlock THEN queuePpc' = "advance" /\ refused' = refused
         ELSE IF mode = "CanAlloc" THEN queuePpc' = "grow" /\ refused' = refused
         ELSE queuePpc' = "idle" /\ refused' = room
      /\ UNCHANGED <<size, blk, frontBlock, tailBlock, largestBlockSize, mode, sent, room,
                     queueCpc, received, before, queuePeeked, walk>>
  BY DEF Queue!FindNext, Queue!queueVars, Queue!consumerVars, Queue!TB, NextTailBlock
<1>2. CircleRight(n, pos)' /\ OrderRight(n, pos, num)' /\ RoomRight(n, pos, num, K)' /\ WalkRight(n, pos, num)'
  BY <1>1, CircleKept
<1>3. BlocksRight(n, num)'
  BY <1>1, BlocksKept DEF Extra, InPlace, Taken
<1>4. MemoryRight(n, K)'
  BY <1>1 DEF QueueWith, MemoryRight
<1>5. CircleRight(n, pos) /\ OrderRight(n, pos, num) /\ RoomRight(n, pos, num, K) /\ ProducerRight(n, pos, num, K)
  BY DEF QueueWith
<1>6. pos[NextTailBlock] = IF pos[tailBlock] = pos[frontBlock] + n - 1 THEN pos[frontBlock] ELSE pos[tailBlock] + 1
  BY <1>5 DEF CircleRight, NextTailBlock
<1>7. NextTailBlock # frontBlock => pos[NextTailBlock] = pos[tailBlock] + 1
  <2>1. NextTailBlock \in 1 .. n
    BY <1>5 DEF CircleRight, NextTailBlock
  <2> QED
    BY <1>6, <2>1, Positions
<1>8. NextTailBlock = frontBlock /\ mode = "CannotAlloc" => room >= size
  <2> HAVE NextTailBlock = frontBlock /\ mode = "CannotAlloc"
  <2>1. room >= sent - received /\ room >= K /\ room \in Nat /\ sent \in Nat /\ received \in Nat
    BY <1>1, <1>5 DEF ProducerRight
  <2>2. n \in Nat /\ n >= 1 /\ K \in Nat /\ (n = 1 => K >= size) /\ (n > 1 => (n - 1) * K >= size)
    BY <1>5, Positions DEF RoomRight
  <2>3. size \in Nat
    BY <1>5 DEF RoomRight
  <2>4. CASE n = 1
    BY <2>1, <2>2, <2>3, <2>4
  <2>5. CASE n > 1
    <3>1. pos[tailBlock] = pos[frontBlock] + n - 1
      <4>1. pos[NextTailBlock] = pos[frontBlock]
        OBVIOUS
      <4>2. pos[frontBlock] <= pos[tailBlock] /\ pos[frontBlock] \in Int /\ pos[tailBlock] \in Int
        BY Positions
      <4> QED
        BY <1>6, <4>1, <4>2
    <3>2. tailBlock # frontBlock
      BY <2>5, <3>1, Positions
    <3>3. PICK c \in 1 .. n : pos[c] = pos[frontBlock] + 1 /\ num[c] = received + Filled(blk[frontBlock]) /\ c # frontBlock
      BY <3>2, Positions, NextLive
    <3>4. num[tailBlock] - num[c] >= (n - 2) * K
      <4>1. pos[tailBlock] - pos[c] = n - 2 /\ pos[c] <= pos[tailBlock]
        BY <2>5, <3>1, <3>3, Positions
      <4> QED
        BY <4>1, <3>3, <1>5, Positions DEF RoomRight
    <3>5. Filled(blk[tailBlock]) = blk[tailBlock].size - 1 /\ blk[tailBlock].size > K /\ blk[tailBlock].size \in Nat
      BY <1>1, <1>5, <3>2, BlockFacts, Positions DEF ProducerRight, Leaving, RoomRight
    <3>6. (n - 1) * K = (n - 2) * K + K /\ (n - 2) * K \in Nat
      <4>1. n - 2 \in Nat /\ (n - 2) + 1 = n - 1
        BY <2>2, <2>5
      <4> QED
        BY <4>1, <2>2, Products
    <3>7. num[tailBlock] + Filled(blk[tailBlock]) = sent /\ Filled(blk[frontBlock]) \in Nat /\ num[tailBlock] \in Int
      BY Positions, BlockFacts
    <3>8. sent - received >= (n - 1) * K
      BY <3>3, <3>4, <3>5, <3>6, <3>7, <2>1, <2>2, Positions
    <3> QED
      BY <3>8, <2>1, <2>2, <2>3, <2>5, <3>6
  <2> QED
    BY <2>2, <2>4, <2>5
<1>9. ProducerRight(n, pos, num, K)'
  <2>1. CASE NextTailBlock # frontBlock
    BY <1>1, <1>5, <1>7, <2>1 DEF ProducerRight, ProducerPlaces, Leaving, NextTailBlock
  <2>2. CASE NextTailBlock = frontBlock /\ mode = "CanAlloc"
    BY <1>1, <1>5, <2>2 DEF ProducerRight, ProducerPlaces, Leaving
  <2>3. CASE NextTailBlock = frontBlock /\ mode = "CannotAlloc"
    <3>1. refused' = room /\ room \in Nat /\ room <= QueueItems /\ room >= size /\ queuePpc' = "idle"
      BY <1>1, <1>5, <1>8, <2>3 DEF ProducerRight
    <3> QED
      BY <1>1, <1>5, <3>1, <2>3 DEF ProducerRight, ProducerPlaces, Leaving
  <2> QED
    BY <1>5, <2>1, <2>2, <2>3 DEF ProducerRight
<1>10. ConsumerRight'
  BY <1>1 DEF QueueWith, ConsumerRight
<1> QED
  BY <1>2, <1>3, <1>4, <1>9, <1>10 DEF QueueWith
(* Tail moves over it: the element is sent.                                *)
LEMMA SetTailKeeps ==
  ASSUME NEW n, NEW pos, NEW num, NEW K, QueueWith(n, pos, num, K), Queue!SetTail
  PROVE  QueueWith(n, pos, num, K)'
<1>1. /\ queuePpc = "settail" /\ queuePpc' = "idle" /\ sent' = sent + 1
      /\ blk' = [blk EXCEPT ![tailBlock].tail = (blk[tailBlock].tail + 1) % blk[tailBlock].size]
      /\ UNCHANGED <<size, frontBlock, tailBlock, largestBlockSize, mode, room, refused,
                     queueCpc, received, before, queuePeeked, walk>>
  BY DEF Queue!SetTail, Queue!queueVars, Queue!consumerVars, Queue!Wrap
<1>2. PICK t \in 1 .. n : t = tailBlock
  BY DEF QueueWith, CircleRight
<1>3. PICK B : B = blk[t]
  OBVIOUS
<1>4. PICK C : C = blk'[t]
  OBVIOUS
<1>5. /\ BlockRight(B, num[t], 1, Taken(t)) /\ num[t] \in Int /\ Taken(t) \in 0 .. 1
      /\ B.size \in Nat /\ B.size >= 2 /\ B.size >= 1 /\ B.tail \in 0 .. B.size - 1 /\ Filled(B) \in 0 .. B.size - 1 - 1
      /\ t \in 1 .. MaxBlocks /\ n <= MaxBlocks /\ n \in Nat /\ MaxBlocks \in Nat
  <2>1. Extra(t) = 1
    BY <1>1, <1>2 DEF Extra, InPlace
  <2>2. BlockRight(blk[t], num[t], Extra(t), Taken(t)) /\ Indices(blk[t])
    BY BlockFacts
  <2> QED
    BY <2>1, <2>2, <1>3, BlockFacts DEF Indices
<1>6. /\ C = [B EXCEPT !.tail = After(B.tail, B.size)] /\ \A b \in 1 .. MaxBlocks : b # t => blk'[b] = blk[b]
      /\ blk' = [b \in 1 .. MaxBlocks |-> blk'[b]]
  <2>1. (B.tail + 1) % B.size = After(B.tail, B.size)
    BY <1>5, WrapIsAfter
  <2> QED
    BY <1>1, <1>2, <1>3, <1>4, <1>5, <2>1 DEF QueueWith, MemoryRight
<1>7. /\ BlockRight(C, num[t], 0, Taken(t)) /\ Filled(C) = Filled(B) + 1 /\ C.next = B.next /\ C.size = B.size
      /\ C.front = B.front /\ C.localTail = B.localTail
  BY <1>5, <1>6, TailMoved, SMTT(40)
<1>8. /\ \A b \in 1 .. n : b # t => blk'[b] = blk[b]
      /\ \A b \in 1 .. n : blk'[b].next = blk[b].next /\ blk'[b].size = blk[b].size
  <2>1. \A b \in 1 .. n : b # t => blk'[b] = blk[b]
    BY <1>5, <1>6
  <2> QED
    BY <2>1, <1>3, <1>4, <1>7
<1>9. CircleRight(n, pos)'
  BY <1>1, <1>8, ZenonT(60) DEF QueueWith, CircleRight
<1>10. (\A b : Live(pos, b)' <=> Live(pos, b)) /\ NextTailBlock' = NextTailBlock
  BY <1>1, <1>2, <1>8 DEF Live, NextTailBlock
<1>11. OrderRight(n, pos, num)'
  <2>1. OrderRight(n, pos, num)
    BY DEF QueueWith
  <2>2. Live(pos, t)
    BY <1>2, Positions
  <2>3. num[tailBlock'] + Filled(blk'[tailBlock']) = sent'
    BY <1>1, <1>2, <1>3, <1>4, <1>5, <1>7, <2>1 DEF OrderRight
  <2>4. \A b \in 1 .. n : b # t => Filled(blk'[b]) = Filled(blk[b])
    BY <1>8
  <2>5. Filled(blk'[t]) >= 1
    BY <1>4, <1>5, <1>7
  <2> QED
    BY <1>1, <1>2, <1>8, <1>10, <2>1, <2>2, <2>3, <2>4, <2>5 DEF OrderRight
<1>12. RoomRight(n, pos, num, K)'
  BY <1>1, <1>8, <1>10 DEF QueueWith, RoomRight
<1>13. BlocksRight(n, num)'
  <2>1. \A b \in 1 .. n : b # t => /\ blk'[b] = blk[b] /\ num[b] = num[b]
                                   /\ Extra(b)' = Extra(b) /\ Taken(b)' = Taken(b)
    BY <1>1, <1>2, <1>8 DEF Extra, InPlace, Taken
  <2>2. Extra(t)' = 0 /\ Taken(t)' = Taken(t)
    BY <1>1, <1>2 DEF Extra, InPlace, Taken
  <2>3. BlocksRight(n, num)
    BY DEF QueueWith
  <2>4. BlockRight(blk'[t], num[t], Extra(t)', Taken(t)')
    BY <1>4, <1>7, <2>2, SMTT(40)
  <2> QED
    BY <2>1, <2>3, <2>4, OneBlock
<1>14. MemoryRight(n, K)'
  <2>1. \A b \in 1 .. MaxBlocks : b > n => blk'[b] = blk[b]
    BY <1>5, <1>6
  <2> QED
    BY <1>1, <1>6, <2>1 DEF QueueWith, MemoryRight
<1>15. ProducerRight(n, pos, num, K)'
  <2>1. ProducerRight(n, pos, num, K) /\ QueueItems \in Nat
    BY NumbersKnown DEF QueueWith
  <2> QED
    BY <1>1, <2>1 DEF ProducerRight, ProducerPlaces, Leaving
<1>16. ConsumerRight'
  <2>1. ConsumerRight /\ sent \in Nat /\ received \in 0 .. sent /\ frontBlock \in 1 .. n
    BY Positions DEF QueueWith, ProducerRight
  <2>2. blk'[frontBlock].front = blk[frontBlock].front /\ blk'[frontBlock].localTail = blk[frontBlock].localTail
    <3>1. CASE frontBlock = t
      BY <3>1, <1>3, <1>4, <1>7
    <3>2. CASE frontBlock # t
      BY <3>2, <2>1, <1>8
    <3> QED
      BY <3>1, <3>2
  <2>3. frontBlock # tailBlock => blk'[frontBlock] = blk[frontBlock]
    BY <1>2, <1>8, <2>1
  <2> QED
    BY <1>1, <2>1, <2>2, <2>3 DEF ConsumerRight
<1>17. WalkRight(n, pos, num)'
  <2>1. WalkRight(n, pos, num) /\ ProducerRight(n, pos, num, K)
    BY DEF QueueWith
  <2>2. walk.who # "producer"
    BY <1>1, <2>1 DEF WalkRight, ProducerWalk
  <2>3. walk.who = "consumer" => Ahead(n, pos, num)' >= Ahead(n, pos, num) /\ Ahead(n, pos, num) \in Int /\ Ahead(n, pos, num)' \in Int
    <3>1. WalkFrom(n, pos)' = WalkFrom(n, pos) /\ WalkPos(n, pos)' = WalkPos(n, pos)
      BY <1>1 DEF WalkFrom, WalkPos
    <3>2. walk.who = "consumer" => walk.at \in 0 .. n /\ (walk.at # 0 => num[walk.at] \in Int)
      BY <2>1, Positions DEF WalkRight
    <3>3. sent \in Nat /\ received \in Nat
      BY <2>1 DEF ProducerRight
    <3> QED
      BY <1>1, <1>10, <3>1, <3>2, <3>3 DEF Ahead
  <2>4. walk.who = "consumer" => ConsumerWalk(n, pos, num)'
    <3> HAVE walk.who = "consumer"
    <3>1. ConsumerWalk(n, pos, num) /\ walk.result \in Int /\ walk.begin \in Int
      BY <2>1 DEF WalkRight
    <3>2. sent \in Nat /\ received \in Nat
      BY <2>1 DEF ProducerRight
    <3> QED
      BY <1>1, <1>10, <2>3, <3>1, <3>2 DEF ConsumerWalk
  <2> QED
    BY <1>1, <2>1, <2>2, <2>4 DEF WalkRight
<1> QED
  BY <1>9, <1>11, <1>12, <1>13, <1>14, <1>15, <1>16, <1>17 DEF QueueWith
(* An empty block may get any number for its first element.                *)
LEMMA EmptyBlock ==
  ASSUME NEW B, NEW first \in Int, NEW t \in 0 .. 1, BlockRight(B, first, 0, t), Filled(B) = 0, NEW x \in Int
  PROVE  BlockRight(B, x, 0, 0) /\ t = 0
<1>1. /\ B.size \in Nat /\ B.size >= 2 /\ (t = 1 => Filled(B) >= 1)
      /\ \A i \in 0 .. B.size - 1 : Gap(B.front, i, B.size) \in 0 .. B.size - 1
  BY RoundOfBlock
<1>2. t = 0
  BY <1>1
<1>3. \A y \in Int : \A i \in 0 .. B.size - 1 : Contents(B, y, 0, 0)[i] = 0
  BY <1>1 DEF Contents
<1>4. Contents(B, x, 0, 0) = Contents(B, first, 0, 0)
  <2>1. \A i \in 0 .. B.size - 1 : Contents(B, x, 0, 0)[i] = Contents(B, first, 0, 0)[i]
    BY <1>3
  <2> QED
    BY <2>1 DEF Contents
<1> QED
  BY <1>2, <1>4 DEF BlockRight

(* The block that the producer moves on to is none of the live ones, so it *)
(* is empty and its number can be chosen.                                  *)
LEMMA Renumbered ==
  ASSUME NEW n, NEW pos, NEW num, NEW K, QueueWith(n, pos, num, K), queuePpc = "advance",
         NEW t \in 1 .. n, t = NextTailBlock
  PROVE  /\ ~Live(pos, t) /\ t # frontBlock /\ t # tailBlock /\ Filled(blk[t]) = 0
         /\ QueueWith(n, pos, [num EXCEPT ![t] = sent], K)
<1> DEFINE num2 == [num EXCEPT ![t] = sent]
<1>1. /\ CircleRight(n, pos) /\ OrderRight(n, pos, num) /\ RoomRight(n, pos, num, K) /\ WalkRight(n, pos, num)
      /\ MemoryRight(n, K) /\ ProducerRight(n, pos, num, K) /\ ConsumerRight /\ BlocksRight(n, num)
  BY DEF QueueWith
<1>2. ~Live(pos, t) /\ t # frontBlock /\ t # tailBlock
  BY <1>1, Positions DEF ProducerRight, Live
<1>3. Filled(blk[t]) = 0
  BY <1>1, <1>2 DEF OrderRight
<1>4. sent \in Nat /\ sent \in Int
  BY <1>1 DEF ProducerRight
<1>5. num2 \in [1 .. n -> Int] /\ num2[t] = sent /\ \A b \in 1 .. n : b # t => num2[b] = num[b]
  BY <1>1, <1>4 DEF OrderRight
<1>6. BlocksRight(n, num2)
  <2> SUFFICES ASSUME NEW b \in 1 .. n PROVE BlockRight(blk[b], num2[b], Extra(b), Taken(b))
    BY DEF BlocksRight
  <2>1. CASE b # t
    BY <2>1, <1>1, <1>5 DEF BlocksRight
  <2>2. CASE b = t
    <3>1. Extra(t) = 0 /\ Taken(t) = 0
      BY <1>2 DEF Extra, InPlace, Taken
    <3>2. BlockRight(blk[t], num[t], 0, 0) /\ num[t] \in Int
      BY <1>1, <3>1 DEF BlocksRight, OrderRight
    <3>3. BlockRight(blk[t], sent, 0, 0)
      BY <3>2, <1>3, <1>4, EmptyBlock
    <3> QED
      BY <2>2, <3>1, <3>3, <1>5
  <2> QED
    BY <2>1, <2>2
<1>7. \A b \in 1 .. n : Live(pos, b) => num2[b] = num[b]
  BY <1>2, <1>5
<1>8. OrderRight(n, pos, num2)
  <2>1. \A b \in 1 .. n : Live(pos, b) /\ b # tailBlock => num2[blk[b].next] = num[blk[b].next]
    BY <1>7, NextLive
  <2> QED
    BY <1>1, <1>2, <1>5, <1>7, <2>1, Positions DEF OrderRight
<1>9. RoomRight(n, pos, num2, K)
  <2>1. \A a, b \in 1 .. n : Live(pos, b) /\ pos[a] <= pos[b] => Live(pos, a)
    BY Positions DEF Live
  <2> QED
    BY <1>1, <1>7, <2>1 DEF RoomRight
<1>10. WalkRight(n, pos, num2)
  <2>1. walk.who # "nobody" => Ahead(n, pos, num2) = Ahead(n, pos, num)
    BY <1>1, <1>7 DEF WalkRight, Ahead
  <2> QED
    BY <1>1, <1>7, <2>1 DEF WalkRight, ProducerWalk, ConsumerWalk
<1>11. ProducerRight(n, pos, num2, K)
  BY <1>1 DEF ProducerRight
<1> QED
  BY <1>1, <1>2, <1>3, <1>6, <1>8, <1>9, <1>10, <1>11 DEF QueueWith

(* The producer constructs an element in the block after the tail block.   *)
LEMMA AdvanceKeeps ==
  ASSUME NEW n, NEW pos, NEW numOld, NEW K, QueueWith(n, pos, numOld, K), Queue!Advance
  PROVE  \E num \in [1 .. n -> Int] : QueueWith(n, pos, num, K)'
<1>1. /\ queuePpc = "advance" /\ queuePpc' = "nexttail"
      /\ blk' = [blk EXCEPT ![NextTailBlock].localFront = blk[NextTailBlock].front,
                            ![NextTailBlock].data[blk[NextTailBlock].tail] = sent + 1]
      /\ UNCHANGED <<size, frontBlock, tailBlock, largestBlockSize, mode, sent, room, refused,
                     queueCpc, received, before, queuePeeked, walk>>
  BY DEF Queue!Advance, Queue!queueVars, Queue!consumerVars, Queue!TB, NextTailBlock
<1>2. PICK t \in 1 .. n : t = NextTailBlock
  BY DEF QueueWith, CircleRight, NextTailBlock
<1>3. PICK num \in [1 .. n -> Int] : /\ QueueWith(n, pos, num, K) /\ num[t] = sent
                                     /\ ~Live(pos, t) /\ t # frontBlock /\ t # tailBlock /\ Filled(blk[t]) = 0
  <2>1. numOld \in [1 .. n -> Int] /\ sent \in Int
    BY DEF QueueWith, OrderRight, ProducerRight
  <2>2. [numOld EXCEPT ![t] = sent] \in [1 .. n -> Int] /\ [numOld EXCEPT ![t] = sent][t] = sent
    BY <2>1
  <2> QED
    BY <1>1, <1>2, <2>2, Renumbered
<1>4. PICK B : B = blk[t]
  OBVIOUS
<1>5. PICK C : C = blk'[t]
  OBVIOUS
<1>6. /\ BlockRight(B, num[t], 0, 0) /\ num[t] \in Int /\ B.size \in Nat /\ B.size >= 2
      /\ t \in 1 .. MaxBlocks /\ n <= MaxBlocks /\ n \in Nat /\ MaxBlocks \in Nat
  <2>1. Extra(t) = 0 /\ Taken(t) = 0
    BY <1>1, <1>3 DEF Extra, InPlace, Taken
  <2> QED
    <3>1. /\ BlockRight(blk[t], num[t], Extra(t), Taken(t)) /\ num[t] \in Int /\ blk[t].size \in Nat /\ blk[t].size >= 2
          /\ t \in 1 .. MaxBlocks /\ n <= MaxBlocks /\ n \in Nat /\ MaxBlocks \in Nat
      BY <1>3, BlockFacts
    <3> QED
      BY <2>1, <3>1, <1>4
<1>7. PICK D : D = [B EXCEPT !.localFront = B.front]
  OBVIOUS
<1>8. /\ BlockRight(D, num[t], 0, 0) /\ Filled(D) = 0 /\ Round(D) = 0 /\ D.next = B.next /\ D.size = B.size
      /\ D.front = B.front /\ D.tail = B.tail /\ D.localTail = B.localTail
  BY <1>3, <1>4, <1>6, <1>7, LocalFrontReloaded
<1>9. /\ C = [D EXCEPT !.data[D.tail] = sent + 1] /\ \A b \in 1 .. MaxBlocks : b # t => blk'[b] = blk[b]
      /\ blk' = [b \in 1 .. MaxBlocks |-> blk'[b]]
  <2>1. blk = [b \in 1 .. MaxBlocks |-> blk[b]]
    BY DEF QueueWith, MemoryRight
  <2>2. blk' = [[blk EXCEPT ![t] = D] EXCEPT ![t] = [D EXCEPT !.data[D.tail] = sent + 1]]
    BY <1>1, <1>2, <1>4, <1>6, <1>7, <1>8, <2>1
  <2> QED
    BY <1>5, <1>6, <2>1, <2>2
<1>10. /\ BlockRight(C, num[t], 1, 0) /\ Filled(C) = 0 /\ C.next = B.next /\ C.size = B.size
       /\ C.front = B.front /\ C.localTail = B.localTail
  <2>1. Round(D) <= D.size - 2 /\ sent + 1 = num[t] + Filled(D) + 1
    BY <1>3, <1>6, <1>8
  <2> QED
    BY <1>6, <1>8, <1>9, <2>1, ElementPlaced
<1>11. CircleRight(n, pos)' /\ OrderRight(n, pos, num)' /\ RoomRight(n, pos, num, K)' /\ WalkRight(n, pos, num)'
  <2>1. \A b \in 1 .. n : blk'[b].next = blk[b].next /\ blk'[b].size = blk[b].size /\ Filled(blk'[b]) = Filled(blk[b])
    <3> TAKE b \in 1 .. n
    <3>1. CASE b = t
      BY <3>1, <1>3, <1>4, <1>5, <1>10
    <3>2. CASE b # t
      BY <3>2, <1>6, <1>9
    <3> QED
      BY <3>1, <3>2
  <2> QED
    BY <1>1, <1>3, <2>1, CircleKept
<1>15. tailBlock \in 1 .. n /\ frontBlock \in 1 .. n /\ blk'[tailBlock] = blk[tailBlock] /\ blk'[frontBlock] = blk[frontBlock]
  <2>1. tailBlock \in 1 .. n /\ frontBlock \in 1 .. n
    BY DEF QueueWith, CircleRight
  <2> QED
    BY <2>1, <1>3, <1>6, <1>9, SMTT(40)
<1>12. NextTailBlock' = NextTailBlock
  BY <1>1, <1>15 DEF NextTailBlock
<1>13. BlocksRight(n, num)'
  <2>1. \A b \in 1 .. n : b # t => /\ blk'[b] = blk[b] /\ num[b] = num[b]
                                   /\ Extra(b)' = Extra(b) /\ Taken(b)' = Taken(b)
    <3> TAKE b \in 1 .. n
    <3> HAVE b # t
    <3>1. blk'[b] = blk[b]
      BY <1>6, <1>9
    <3>2. Extra(b)' = Extra(b) /\ Taken(b)' = Taken(b)
      BY <1>1, <1>2, <1>12 DEF Extra, InPlace, Taken
    <3> QED
      BY <3>1, <3>2
  <2>2. Extra(t)' = 1 /\ Taken(t)' = 0
    BY <1>1, <1>2, <1>3, <1>12 DEF Extra, InPlace, Taken
  <2>3. BlocksRight(n, num)
    BY <1>3 DEF QueueWith
  <2>4. BlockRight(blk'[t], num[t], Extra(t)', Taken(t)')
    BY <1>5, <1>10, <2>2
  <2>5. ASSUME NEW b \in 1 .. n PROVE BlockRight(blk'[b], num[b], Extra(b)', Taken(b)')
    <3>1. CASE b = t
      BY <3>1, <2>4
    <3>2. CASE b # t
      BY <3>2, <2>1, <2>3, SMTT(40) DEF BlocksRight
    <3> QED
      BY <3>1, <3>2
  <2> QED
    BY <2>5 DEF BlocksRight
<1>14. MemoryRight(n, K)'
  <2>1. \A b \in 1 .. MaxBlocks : b > n => blk'[b] = blk[b]
    BY <1>6, <1>9
  <2> QED
    BY <1>1, <1>9, <2>1 DEF QueueWith, MemoryRight
<1>16. ProducerRight(n, pos, num, K)'
  BY <1>1, <1>2, <1>3, <1>12, <1>15 DEF QueueWith, ProducerRight, ProducerPlaces, Leaving
<1>17. ConsumerRight'
  BY <1>1, <1>15 DEF QueueWith, ConsumerRight
<1> QED
  BY <1>11, <1>13, <1>14, <1>16, <1>17 DEF QueueWith
(* The tail of that block moves over its first element.                    *)
LEMMA NextTailKeeps ==
  ASSUME NEW n, NEW pos, NEW num, NEW K, QueueWith(n, pos, num, K), Queue!NextTail
  PROVE  QueueWith(n, pos, num, K)'
<1>1. /\ queuePpc = "nexttail" /\ queuePpc' = "publish"
      /\ blk' = [blk EXCEPT ![NextTailBlock].tail = (blk[NextTailBlock].tail + 1) % blk[NextTailBlock].size]
      /\ UNCHANGED <<size, frontBlock, tailBlock, largestBlockSize, mode, sent, room, refused,
                     queueCpc, received, before, queuePeeked, walk>>
  BY DEF Queue!NextTail, Queue!queueVars, Queue!consumerVars, Queue!Wrap, Queue!TB, NextTailBlock
<1>2. PICK t \in 1 .. n : t = NextTailBlock
  BY DEF QueueWith, CircleRight, NextTailBlock
<1>3. /\ CircleRight(n, pos) /\ OrderRight(n, pos, num) /\ RoomRight(n, pos, num, K) /\ WalkRight(n, pos, num)
      /\ MemoryRight(n, K) /\ ProducerRight(n, pos, num, K) /\ ConsumerRight /\ BlocksRight(n, num)
  BY DEF QueueWith
<1>4. ~Live(pos, t) /\ t # frontBlock /\ t # tailBlock /\ Filled(blk[t]) = 0 /\ num[t] = sent
  <2>1. pos[t] = pos[tailBlock] + 1 /\ num[t] = sent
    BY <1>1, <1>2, <1>3 DEF ProducerRight
  <2>2. ~Live(pos, t) /\ t # frontBlock /\ t # tailBlock
    BY <2>1, Positions DEF Live
  <2> QED
    BY <1>1, <1>3, <2>1, <2>2 DEF OrderRight
<1>5. PICK B : B = blk[t]
  OBVIOUS
<1>6. PICK C : C = blk'[t]
  OBVIOUS
<1>7. /\ BlockRight(B, num[t], 1, 0) /\ num[t] \in Int /\ B.size \in Nat /\ B.size >= 1 /\ B.tail \in 0 .. B.size - 1
      /\ t \in 1 .. MaxBlocks /\ n <= MaxBlocks /\ n \in Nat /\ MaxBlocks \in Nat
  <2>1. Extra(t) = 1 /\ Taken(t) = 0
    BY <1>1, <1>2, <1>4 DEF Extra, InPlace, Taken
  <2>2. BlockRight(blk[t], num[t], Extra(t), Taken(t)) /\ Indices(blk[t]) /\ blk[t].size >= 2 /\ blk[t].size \in Nat
    BY BlockFacts
  <2> QED
    BY <2>1, <2>2, <1>5, BlockFacts DEF Indices
<1>8. /\ C = [B EXCEPT !.tail = After(B.tail, B.size)] /\ \A b \in 1 .. MaxBlocks : b # t => blk'[b] = blk[b]
      /\ blk' = [b \in 1 .. MaxBlocks |-> blk'[b]]
  <2>1. (B.tail + 1) % B.size = After(B.tail, B.size)
    BY <1>7, WrapIsAfter
  <2> QED
    BY <1>1, <1>2, <1>3, <1>5, <1>6, <1>7, <2>1 DEF MemoryRight
<1>9. /\ BlockRight(C, num[t], 0, 0) /\ Filled(C) = 0 + 1 /\ C.next = B.next /\ C.size = B.size
      /\ C.front = B.front /\ C.localTail = B.localTail
  BY <1>4, <1>5, <1>7, <1>8, TailMoved
<1>10. /\ \A b \in 1 .. n : b # t => blk'[b] = blk[b]
       /\ \A b \in 1 .. n : blk'[b].next = blk[b].next /\ blk'[b].size = blk[b].size
  <2>1. \A b \in 1 .. n : b # t => blk'[b] = blk[b]
    BY <1>7, <1>8
  <2> QED
    BY <2>1, <1>5, <1>6, <1>9
<1>11. tailBlock \in 1 .. n /\ frontBlock \in 1 .. n /\ blk'[tailBlock] = blk[tailBlock] /\ blk'[frontBlock] = blk[frontBlock]
  BY <1>3, <1>4, <1>10 DEF CircleRight
<1>12. NextTailBlock' = NextTailBlock /\ \A b : Live(pos, b)' <=> Live(pos, b)
  BY <1>1, <1>11 DEF NextTailBlock, Live
<1>13. CircleRight(n, pos)'
  BY <1>1, <1>3, <1>10, ZenonT(60) DEF CircleRight
<1>14. OrderRight(n, pos, num)'
  <2>1. \A b \in 1 .. n : b # t => Filled(blk'[b]) = Filled(blk[b])
    BY <1>10
  <2>2. Filled(blk'[t]) = 1
    BY <1>6, <1>9
  <2> QED
    BY <1>1, <1>2, <1>3, <1>4, <1>10, <1>11, <1>12, <2>1, <2>2, SMTT(40) DEF OrderRight
<1>15. RoomRight(n, pos, num, K)'
  BY <1>1, <1>3, <1>10, <1>12 DEF RoomRight
<1>16. BlocksRight(n, num)'
  <2>1. \A b \in 1 .. n : b # t => /\ blk'[b] = blk[b] /\ num[b] = num[b]
                                   /\ Extra(b)' = Extra(b) /\ Taken(b)' = Taken(b)
    BY <1>1, <1>2, <1>10, <1>12 DEF Extra, InPlace, Taken
  <2>2. Extra(t)' = 0 /\ Taken(t)' = 0
    BY <1>1, <1>2, <1>4, <1>12 DEF Extra, InPlace, Taken
  <2>4. BlockRight(blk'[t], num[t], Extra(t)', Taken(t)')
    BY <1>6, <1>9, <2>2, SMTT(40)
  <2> QED
    BY <1>3, <2>1, <2>4, OneBlock
<1>17. MemoryRight(n, K)'
  <2>1. \A b \in 1 .. MaxBlocks : b > n => blk'[b] = blk[b]
    BY <1>7, <1>8
  <2> QED
    BY <1>1, <1>3, <1>8, <2>1 DEF MemoryRight
<1>18. ProducerRight(n, pos, num, K)'
  BY <1>1, <1>2, <1>3, <1>4, <1>11, <1>12 DEF ProducerRight, ProducerPlaces, Leaving
<1>19. ConsumerRight'
  BY <1>1, <1>3, <1>11 DEF ConsumerRight
<1>20. WalkRight(n, pos, num)'
  <2>1. Ahead(n, pos, num)' = Ahead(n, pos, num)
    BY <1>1, <1>12 DEF Ahead, WalkPos, WalkFrom
  <2>2. walk.who # "producer"
    BY <1>1, <1>3 DEF WalkRight, ProducerWalk
  <2>3. walk.who = "consumer" => ConsumerWalk(n, pos, num)'
    <3> HAVE walk.who = "consumer"
    <3>1. ConsumerWalk(n, pos, num) /\ walk.result \in Int /\ sent \in Nat /\ received \in Nat
      BY <1>3 DEF WalkRight, ProducerRight
    <3> QED
      BY <1>1, <1>12, <2>1, <3>1 DEF ConsumerWalk
  <2> QED
    BY <1>1, <1>3, <2>2, <2>3 DEF WalkRight
<1> QED
  BY <1>13, <1>14, <1>15, <1>16, <1>17, <1>18, <1>19, <1>20 DEF QueueWith

(* tailBlock moves on to it.                                               *)
LEMMA PublishKeeps ==
  ASSUME NEW n, NEW pos, NEW num, NEW K, QueueWith(n, pos, num, K), Queue!PublishBlock
  PROVE  QueueWith(n, pos, num, K)'
<1>1. /\ queuePpc = "publish" /\ queuePpc' = "idle" /\ tailBlock' = NextTailBlock /\ sent' = sent + 1
      /\ UNCHANGED <<size, blk, frontBlock, largestBlockSize, mode, room, refused,
                     queueCpc, received, before, queuePeeked, walk>>
  BY DEF Queue!PublishBlock, Queue!queueVars, Queue!consumerVars, Queue!TB, NextTailBlock
<1>2. PICK t \in 1 .. n : t = NextTailBlock
  BY DEF QueueWith, CircleRight, NextTailBlock
<1>3. /\ CircleRight(n, pos) /\ OrderRight(n, pos, num) /\ RoomRight(n, pos, num, K) /\ WalkRight(n, pos, num)
      /\ MemoryRight(n, K) /\ ProducerRight(n, pos, num, K) /\ ConsumerRight /\ BlocksRight(n, num)
  BY DEF QueueWith
<1>4. pos[t] = pos[tailBlock] + 1 /\ num[t] = sent
  BY <1>1, <1>2, <1>3 DEF ProducerRight
<1>5. ~Live(pos, t) /\ t # frontBlock /\ t # tailBlock /\ Filled(blk[t]) = 1
  <2>1. ~Live(pos, t) /\ t # frontBlock /\ t # tailBlock
    BY <1>4, Positions DEF Live
  <2> QED
    BY <1>1, <1>2, <1>3, <2>1 DEF OrderRight
<1>6. sent \in Nat /\ received \in 0 .. sent /\ sent < QueueItems /\ QueueItems \in Nat
  BY <1>1, <1>3, NumbersKnown DEF ProducerRight
<1>7. \A b \in 1 .. n : Live(pos, b)' <=> Live(pos, b) \/ b = t
  <2> TAKE b \in 1 .. n
  <2>1. pos[b] = pos[t] => b = t
    BY <1>3 DEF CircleRight
  <2>2. pos[b] \in Int /\ pos[t] \in Int /\ pos[tailBlock] \in Int
    BY Positions
  <2>3. Live(pos, b)' <=> pos[b] <= pos[t]
    BY <1>1, <1>2 DEF Live
  <2> QED
    BY <1>4, <2>1, <2>2, <2>3 DEF Live
<1>8. CircleRight(n, pos)'
  BY <1>1, <1>2, <1>3 DEF CircleRight
<1>9. tailBlock \in 1 .. n /\ frontBlock \in 1 .. n /\ num[tailBlock] + Filled(blk[tailBlock]) = sent
      /\ (tailBlock # frontBlock => Filled(blk[tailBlock]) = blk[tailBlock].size - 1)
  BY <1>1, <1>3, Positions DEF ProducerRight, Leaving
<1>10. OrderRight(n, pos, num)'
  <2>1. \A b \in 1 .. n : Live(pos, b) => num[blk[b].next] = num[b] + Filled(blk[b])
    BY <1>2, <1>3, <1>4, <1>9 DEF OrderRight, NextTailBlock
  <2> QED
    BY <1>1, <1>2, <1>3, <1>4, <1>5, <1>6, <1>7, <1>9, <2>1 DEF OrderRight
<1>11. RoomRight(n, pos, num, K)'
  <2>1. ASSUME NEW a \in 1 .. n, NEW b \in 1 .. n, Live(pos, b)', a # frontBlock, pos[a] <= pos[b]
        PROVE  num[b] - num[a] >= (pos[b] - pos[a]) * K
    <3>1. CASE b # t
      BY <1>3, <1>7, <2>1, <3>1 DEF RoomRight
    <3>2. CASE b = t /\ a = t
      <4>1. (pos[b] - pos[a]) * K = 0 /\ num[b] - num[a] = 0
        <5>1. pos[b] - pos[a] = 0 /\ num[b] - num[a] = 0 /\ K \in Nat
          BY <3>2, Positions
        <5>2. 0 * K = 0
          BY <5>1
        <5> QED
          BY <5>1, <5>2
      <4> QED
        BY <4>1
    <3>3. CASE b = t /\ a # t
      <4>1. pos[a] <= pos[tailBlock] /\ Live(pos, tailBlock) /\ pos[tailBlock] # pos[frontBlock]
        <5>1. pos[a] # pos[t] /\ pos[a] # pos[frontBlock]
          BY <1>3, <2>1, <3>3 DEF CircleRight
        <5> QED
          BY <1>4, <2>1, <3>3, <5>1, Positions
      <4>2. num[tailBlock] - num[a] >= (pos[tailBlock] - pos[a]) * K
        BY <1>3, <1>9, <2>1, <4>1 DEF RoomRight
      <4>3. Filled(blk[tailBlock]) >= K /\ Filled(blk[tailBlock]) \in Int
        BY <1>3, <1>9, <4>1, BlockFacts, Positions DEF RoomRight
      <4>4. (pos[b] - pos[a]) * K = (pos[tailBlock] - pos[a]) * K + K /\ (pos[tailBlock] - pos[a]) * K \in Nat
        <5>1. pos[tailBlock] - pos[a] \in Nat /\ pos[b] - pos[a] = (pos[tailBlock] - pos[a]) + 1 /\ K \in Nat
          BY <1>4, <1>9, <3>3, <4>1, Positions
        <5> QED
          BY <5>1, Products
      <4>5. num[a] \in Int /\ num[tailBlock] \in Int /\ K \in Nat
        BY <1>9, Positions
      <4> QED
        BY <1>4, <1>6, <1>9, <3>3, <4>2, <4>3, <4>4, <4>5
    <3> QED
      BY <3>1, <3>2, <3>3
  <2> QED
    BY <1>1, <1>3, <2>1 DEF RoomRight
<1>12. BlocksRight(n, num)'
  BY <1>1, BlocksKept DEF Extra, InPlace, Taken
<1>13. MemoryRight(n, K)'
  BY <1>1, <1>3 DEF MemoryRight
<1>14. ProducerRight(n, pos, num, K)'
  BY <1>1, <1>3, <1>6 DEF ProducerRight, ProducerPlaces, Leaving
<1>15. ConsumerRight'
  BY <1>1, <1>2, <1>3, <1>5, <1>6 DEF ConsumerRight
<1>16. WalkRight(n, pos, num)'
  <2>1. walk.who # "producer"
    BY <1>1, <1>3 DEF WalkRight, ProducerWalk
  <2>2. ASSUME walk.who = "consumer" PROVE ConsumerWalk(n, pos, num)'
    <3>1. /\ ConsumerWalk(n, pos, num) /\ walk.result \in Int /\ walk.begin \in Int /\ walk.first = frontBlock
          /\ walk.at \in 0 .. n /\ \A b \in 1 .. n : num[b] \in Int
      BY <1>3, <2>2 DEF WalkRight, ConsumerWalk, OrderRight
    <3>2. PICK at : at = walk.at /\ at = walk'.at
      BY <1>1
    <3>3. /\ frontBlock' = frontBlock /\ tailBlock' = t /\ walk' = walk /\ pos[frontBlock] <= pos[tailBlock]
          /\ pos[frontBlock] <= pos[t] /\ pos[tailBlock] \in Int /\ pos[t] \in Int /\ pos[frontBlock] \in Int
      BY <1>1, <1>2, <1>4, <1>9, Positions DEF Live
    <3>4. WalkFrom(n, pos) = pos[frontBlock] /\ WalkFrom(n, pos)' = pos[frontBlock]
      BY <3>1, <3>3 DEF WalkFrom
    <3>5. at # 0 => /\ WalkPos(n, pos) = pos[at] /\ WalkPos(n, pos)' = pos[at] /\ pos[frontBlock] <= pos[at]
                    /\ pos[at] \in Int /\ at \in 1 .. n /\ num[at] \in Int
                    /\ (pos[at] <= pos[t] <=> pos[at] <= pos[tailBlock] \/ at = t)
      <4> HAVE at # 0
      <4>1. at \in 1 .. n
        BY <1>9, <3>1, <3>2
      <4>2. pos[at] \in Int /\ pos[frontBlock] <= pos[at] /\ pos[at] < pos[frontBlock] + n /\ num[at] \in Int
        BY <4>1, Positions
      <4>3. pos[at] = pos[t] => at = t
        BY <1>3, <4>1 DEF CircleRight
      <4> QED
        BY <1>4, <3>2, <3>3, <3>4, <4>1, <4>2, <4>3 DEF WalkPos
    <3>6. Ahead(n, pos, num) = IF at # 0 /\ pos[at] <= pos[tailBlock] THEN sent - num[at] ELSE 0
      BY <3>2, <3>3, <3>5 DEF Ahead, Live
    <3>7. Ahead(n, pos, num)' = IF at # 0 /\ pos[at] <= pos[t] THEN sent + 1 - num[at] ELSE 0
      <4>1. Ahead(n, pos, num)' = IF walk'.at = 0 THEN 0
                                  ELSE IF WalkPos(n, pos)' < pos[frontBlock'] THEN sent' - received'
                                  ELSE IF pos[walk'.at] <= pos[tailBlock'] THEN sent' - num[walk'.at] ELSE 0
        BY DEF Ahead, Live
      <4>2. CASE at = 0
        BY <3>2, <4>1, <4>2
      <4>3. CASE at # 0
        <5>1. ~(WalkPos(n, pos)' < pos[frontBlock'])
          BY <3>3, <3>5, <4>3
        <5>2. Ahead(n, pos, num)' = IF pos[at] <= pos[t] THEN sent' - num[at] ELSE 0
          BY <3>2, <3>3, <4>1, <4>3, <5>1, Zenon
        <5> QED
          BY <1>1, <1>6, <3>5, <4>3, <5>2
      <4> QED
        BY <4>2, <4>3
    <3>8. walk.result + Ahead(n, pos, num)' >= walk.begin
      <4>1. walk.result + Ahead(n, pos, num) >= walk.begin
        BY <3>1 DEF ConsumerWalk
      <4>2. Ahead(n, pos, num)' >= Ahead(n, pos, num) /\ Ahead(n, pos, num)' \in Int /\ Ahead(n, pos, num) \in Int
        BY <1>4, <1>6, <3>5, <3>6, <3>7
      <4> QED
        BY <3>1, <4>1, <4>2
    <3>9. IF at # 0 /\ pos[at] <= pos[t] THEN walk.result <= num[at] - received ELSE walk.result <= sent + 1 - received
      <4>1. IF at # 0 /\ pos[at] <= pos[tailBlock] THEN walk.result <= num[at] - received
            ELSE walk.result <= sent - received + (IF at # t THEN 1 ELSE 0)
        BY <1>1, <1>2, <3>1, <3>2 DEF ConsumerWalk, Live
      <4> QED
        BY <1>4, <1>6, <3>1, <3>5, <4>1
    <3> QED
      BY <1>1, <1>6, <3>1, <3>2, <3>3, <3>8, <3>9 DEF ConsumerWalk, Live
  <2> QED
    BY <1>1, <1>3, <2>1, <2>2 DEF WalkRight
<1> QED
  BY <1>8, <1>10, <1>11, <1>12, <1>13, <1>14, <1>15, <1>16 DEF QueueWith
(* Queue counts with the same operator as this module.                     *)
LEMMA SameCardinality == \A S : Queue!Cardinality(S) = Cardinality(S)
  BY DEF Queue!Cardinality, Cardinality

(* The blocks in memory are those of the circle, and the one to link.      *)
LEMMA AllocatedBlocks ==
  ASSUME NEW n, NEW pos, NEW num, NEW K, QueueWith(n, pos, num, K)
  PROVE  /\ Queue!Allocated = 1 .. (IF queuePpc = "link" THEN n + 1 ELSE n)
         /\ Cardinality(Queue!Allocated) = IF queuePpc = "link" THEN n + 1 ELSE n
<1> DEFINE top == IF queuePpc = "link" THEN n + 1 ELSE n
<1>1. /\ CircleRight(n, pos) /\ MemoryRight(n, K) /\ n \in Nat /\ n <= MaxBlocks /\ MaxBlocks \in Nat
      /\ (queuePpc = "link" => n < MaxBlocks)
  BY NumbersKnown DEF QueueWith, CircleRight, MemoryRight, FreshRight
<1>2. \A b \in 1 .. n : blk[b].size > 0
  <2> TAKE b \in 1 .. n
  <2>1. blk[b].size \in Nat /\ blk[b].size >= 2
    BY BlockFacts
  <2> QED
    BY <2>1
<1>3. queuePpc = "link" => blk[n + 1].size > 0
  <2> HAVE queuePpc = "link"
  <2>1. blk[n + 1].size \in Nat /\ blk[n + 1].size >= 2
    BY <1>1 DEF MemoryRight, FreshRight, BlockRight
  <2> QED
    BY <2>1
<1>4. \A b \in 1 .. MaxBlocks : b > top => ~(blk[b].size > 0)
  <2> TAKE b \in 1 .. MaxBlocks
  <2> HAVE b > top
  <2>1. b > n /\ ~(queuePpc = "link" /\ b = n + 1)
    BY <1>1
  <2>2. blk[b] = Queue!Unused
    BY <1>1, <2>1 DEF MemoryRight
  <2> QED
    BY <2>2 DEF Queue!Unused
<1>5. top \in Nat /\ top <= MaxBlocks
  BY <1>1
<1>6. \A b \in 1 .. MaxBlocks : blk[b].size > 0 <=> b <= top
  <2> TAKE b \in 1 .. MaxBlocks
  <2>1. CASE b > top
    BY <1>4, <1>5, <2>1
  <2>2. CASE b <= top
    <3>1. b \in 1 .. n \/ (queuePpc = "link" /\ b = n + 1)
      BY <1>1, <2>2
    <3> QED
      BY <1>2, <1>3, <2>2, <3>1
  <2> QED
    BY <1>5, <2>1, <2>2
<1>7. Queue!Allocated = 1 .. top
  <2> HIDE DEF top
  <2> QED
    BY <1>1, <1>5, <1>6 DEF Queue!Allocated, Queue!Blocks
<1>8. Cardinality(1 .. top) = top
  <2> HIDE DEF top
  <2>1. Cardinality(1 .. top) = IF 1 > top THEN 0 ELSE top - 1 + 1
    BY <1>5, FS_Interval
  <2> QED
    BY <1>5, <2>1
<1> QED
  BY <1>7, <1>8

(* A record with four fields set.                                          *)
LEMMA RecordFields ==
  ASSUME NEW s, NEW x, NEW next, NEW d, NEW M,
         M = [front |-> 0, localTail |-> 0, tail |-> 0, localFront |-> 0, next |-> 0, size |-> s, data |-> d],
         NEW F, F = [M EXCEPT !.data[0] = x, !.tail = 1, !.localTail = 1, !.next = next]
  PROVE  F = [front |-> 0, localTail |-> 1, tail |-> 1, localFront |-> 0, next |-> next, size |-> s,
              data |-> [d EXCEPT ![0] = x]]
<1>1. PICK A : A = [M EXCEPT !.data = [d EXCEPT ![0] = x]]
  OBVIOUS
<1>2. A = [front |-> 0, localTail |-> 0, tail |-> 0, localFront |-> 0, next |-> 0, size |-> s, data |-> [d EXCEPT ![0] = x]]
  BY <1>1
<1>3. F = [A EXCEPT !.tail = 1, !.localTail = 1, !.next = next]
  BY <1>1
<1>4. PICK A2 : A2 = [A EXCEPT !.tail = 1]
  OBVIOUS
<1>5. A2 = [front |-> 0, localTail |-> 0, tail |-> 1, localFront |-> 0, next |-> 0, size |-> s, data |-> [d EXCEPT ![0] = x]]
  BY <1>2, <1>4
<1>6. PICK A3 : A3 = [A2 EXCEPT !.localTail = 1]
  OBVIOUS
<1>7. A3 = [front |-> 0, localTail |-> 1, tail |-> 1, localFront |-> 0, next |-> 0, size |-> s, data |-> [d EXCEPT ![0] = x]]
  BY <1>5, <1>6
<1>8. F = [A3 EXCEPT !.next = next]
  BY <1>3, <1>4, <1>6
<1> QED
  BY <1>7, <1>8

(* make_block(), and what inner_enqueue() puts into the new block.         *)
FreshBlock(s, x, next) == [Queue!make_block(s) EXCEPT !.data[0] = x, !.tail = 1, !.localTail = 1, !.next = next]

(* The fields of the new block.                                            *)
LEMMA MadeBlock ==
  ASSUME NEW s \in Nat, s >= 2, NEW x, NEW next,
         NEW F, F = FreshBlock(s, x, next)
  PROVE  /\ F.front = 0 /\ F.localTail = 1 /\ F.tail = 1 /\ F.localFront = 0 /\ F.next = next /\ F.size = s
         /\ F.data = OnlyFirst(s, x) /\ IsBlock(F)
<1>1. PICK d : d = [i \in 0 .. s - 1 |-> 0]
  OBVIOUS
<1>2. Queue!Unused = [front |-> 0, localTail |-> 0, tail |-> 0, localFront |-> 0, next |-> 0, size |-> 0, data |-> << >>]
  BY DEF Queue!Unused, Queue!Null
<1>3. Queue!make_block(s) = [Queue!Unused EXCEPT !.size = s, !.data = d]
  BY <1>1 DEF Queue!make_block, Queue!None
<1>4. PICK M : M = Queue!make_block(s)
  OBVIOUS
<1>5. M = [front |-> 0, localTail |-> 0, tail |-> 0, localFront |-> 0, next |-> 0, size |-> s, data |-> d]
  BY <1>2, <1>3, <1>4
<1>6. F = [front |-> 0, localTail |-> 1, tail |-> 1, localFront |-> 0, next |-> next, size |-> s, data |-> [d EXCEPT ![0] = x]]
  <2>1. F = [M EXCEPT !.data[0] = x, !.tail = 1, !.localTail = 1, !.next = next]
    BY <1>4 DEF FreshBlock
  <2> QED
    BY <1>5, <2>1, RecordFields, Zenon
<1>7. [d EXCEPT ![0] = x] = OnlyFirst(s, x)
  BY <1>1 DEF OnlyFirst
<1>8. PICK e : e = [d EXCEPT ![0] = x]
  OBVIOUS
<1>9. /\ F.front = 0 /\ F.localTail = 1 /\ F.tail = 1 /\ F.localFront = 0 /\ F.next = next /\ F.size = s /\ F.data = e
      /\ F = [front |-> 0, localTail |-> 1, tail |-> 1, localFront |-> 0, next |-> next, size |-> s, data |-> e]
  <2>1. F = [front |-> 0, localTail |-> 1, tail |-> 1, localFront |-> 0, next |-> next, size |-> s, data |-> e]
    BY <1>6, <1>8, Zenon
  <2> QED
    BY <2>1
<1>10. IsBlock(F)
  BY <1>9 DEF IsBlock
<1> QED
  BY <1>7, <1>8, <1>9, <1>10

(* malloc() gives a block for the element, which nobody can see yet, or    *)
(* none.                                                                   *)
LEMMA GrowKeeps ==
  ASSUME NEW n, NEW pos, NEW num, NEW K, QueueWith(n, pos, num, K), Queue!Grow
  PROVE  QueueWith(n, pos, num, K)'
<1> DEFINE s == IF largestBlockSize >= MAX_BLOCK_SIZE THEN largestBlockSize ELSE largestBlockSize * 2
<1>1. /\ CircleRight(n, pos) /\ OrderRight(n, pos, num) /\ RoomRight(n, pos, num, K) /\ WalkRight(n, pos, num)
      /\ MemoryRight(n, K) /\ ProducerRight(n, pos, num, K) /\ ConsumerRight /\ BlocksRight(n, num)
  BY DEF QueueWith
<1>2. /\ queuePpc = "grow"
      /\ UNCHANGED <<size, frontBlock, tailBlock, mode, sent, room, refused, queueCpc, received, before,
                     queuePeeked, walk>>
  BY DEF Queue!Grow, Queue!consumerVars
<1>3. /\ n \in Nat /\ n <= MaxBlocks /\ MaxBlocks \in Nat /\ tailBlock \in 1 .. n /\ frontBlock \in 1 .. n
      /\ Queue!Fresh = n + 1
  <2>1. Cardinality(Queue!Allocated) = n
    BY <1>2, AllocatedBlocks
  <2> QED
    <3>1. Queue!Fresh = n + 1
      BY <2>1, SameCardinality DEF Queue!Fresh
    <3> QED
      BY <1>1, <3>1, NumbersKnown DEF CircleRight
<1>4. CASE n + 1 > MaxBlocks
  <2>1. queuePpc' = "idle" /\ UNCHANGED <<blk, largestBlockSize>>
    BY <1>3, <1>4 DEF Queue!Grow
  <2>2. CircleRight(n, pos)' /\ OrderRight(n, pos, num)' /\ RoomRight(n, pos, num, K)' /\ WalkRight(n, pos, num)'
    BY <1>2, <2>1, CircleKept
  <2>3. BlocksRight(n, num)'
    BY <1>2, <2>1, BlocksKept DEF Extra, InPlace, Taken
  <2>4. MemoryRight(n, K)'
    BY <1>1, <1>2, <2>1 DEF MemoryRight
  <2>5. ProducerRight(n, pos, num, K)'
    BY <1>1, <1>2, <2>1 DEF ProducerRight, ProducerPlaces, Leaving
  <2>6. ConsumerRight'
    BY <1>1, <1>2, <2>1 DEF ConsumerRight
  <2> QED
    BY <2>2, <2>3, <2>4, <2>5, <2>6 DEF QueueWith
<1>5. CASE ~(n + 1 > MaxBlocks)
  <2>1. /\ queuePpc' = "link" /\ largestBlockSize' = s
        /\ blk' = [blk EXCEPT ![n + 1] = FreshBlock(s, sent + 1, NextTailBlock)]
    BY <1>3, <1>5 DEF FreshBlock, Queue!Grow, Queue!NewBlockSize, Queue!TB, NextTailBlock
  <2>2. s \in Nat /\ s >= 2 /\ s > K /\ K \in Nat
    <3>1. largestBlockSize \in Nat /\ largestBlockSize > K /\ K \in Nat /\ K >= 1
      BY <1>1 DEF RoomRight
    <3>2. largestBlockSize * 2 \in Nat /\ largestBlockSize * 2 >= largestBlockSize
      BY <3>1
    <3> QED
      BY <3>1, <3>2
  <2> HIDE DEF s
  <2>3. PICK F : F = FreshBlock(s, sent + 1, NextTailBlock)
    OBVIOUS
  <2>4. /\ F = blk'[n + 1]
        /\ \A b \in 1 .. MaxBlocks : b # n + 1 => blk'[b] = blk[b]
        /\ blk' = [b \in 1 .. MaxBlocks |-> blk'[b]]
    <3>1. blk = [b \in 1 .. MaxBlocks |-> blk[b]] /\ n + 1 \in 1 .. MaxBlocks
      BY <1>1, <1>3, <1>5 DEF MemoryRight
    <3>2. blk' = [blk EXCEPT ![n + 1] = F]
      BY <2>1, <2>3, Zenon
    <3> QED
      BY <3>1, <3>2
  <2>5. /\ F.front = 0 /\ F.localTail = 1 /\ F.tail = 1 /\ F.localFront = 0 /\ F.next = NextTailBlock /\ F.size = s
        /\ F.data = OnlyFirst(s, sent + 1) /\ IsBlock(F)
    BY <2>2, <2>3, MadeBlock
  <2>6. BlockRight(F, sent, 0, 0) /\ Filled(F) = 1
    <3>1. sent \in Int
      BY <1>1 DEF ProducerRight
    <3> QED
      BY <2>2, <2>5, <3>1, NewBlock
  <2>7. \A b \in 1 .. n : blk'[b] = blk[b]
    BY <1>3, <2>4
  <2>8. CircleRight(n, pos)' /\ NextTailBlock' = NextTailBlock /\ \A b : Live(pos, b)' <=> Live(pos, b)
    BY <1>1, <1>2, <1>3, <2>7 DEF CircleRight, NextTailBlock, Live
  <2>9. OrderRight(n, pos, num)'
    BY <1>1, <1>2, <1>3, <2>1, <2>7, <2>8 DEF OrderRight
  <2>10. RoomRight(n, pos, num, K)'
    BY <1>1, <1>2, <2>1, <2>2, <2>7, <2>8 DEF RoomRight
  <2>11. WalkRight(n, pos, num)'
    <3>1. Ahead(n, pos, num)' = Ahead(n, pos, num)
      BY <1>2, <2>8 DEF Ahead, WalkPos, WalkFrom
    <3> QED
      BY <1>1, <1>2, <2>1, <2>8, <3>1 DEF WalkRight, ProducerWalk, ConsumerWalk
  <2>12. BlocksRight(n, num)'
    <3>1. \A b \in 1 .. n : Extra(b)' = Extra(b) /\ Taken(b)' = Taken(b)
      BY <1>2, <2>1 DEF Extra, InPlace, Taken
    <3> QED
      BY <1>1, <2>7, <3>1 DEF BlocksRight
  <2>13. MemoryRight(n, K)'
    <3>1. FreshRight(n, K)'
      <4>1. F.localFront = F.front /\ F.next = NextTailBlock' /\ F.size > K /\ n < MaxBlocks /\ sent' = sent
        BY <1>2, <1>3, <1>5, <2>2, <2>5, <2>8
      <4> QED
        BY <2>4, <2>6, <4>1 DEF FreshRight
    <3>2. \A b \in 1 .. MaxBlocks : b > n /\ b # n + 1 => blk'[b] = Queue!Unused
      BY <1>1, <1>2, <2>4 DEF MemoryRight
    <3> QED
      BY <2>1, <2>4, <3>1, <3>2 DEF MemoryRight
  <2>14. ProducerRight(n, pos, num, K)'
    BY <1>1, <1>2, <1>3, <2>1, <2>7 DEF ProducerRight, ProducerPlaces, Leaving
  <2>15. ConsumerRight'
    BY <1>1, <1>2, <1>3, <2>7 DEF ConsumerRight
  <2> QED
    BY <2>8, <2>9, <2>10, <2>11, <2>12, <2>13, <2>14, <2>15 DEF QueueWith
<1> QED
  BY <1>4, <1>5
(* A block gets another next one.                                          *)
LEMMA NextChanged ==
  ASSUME NEW B, NEW first \in Int, NEW e \in 0 .. 1, NEW t \in 0 .. 1, BlockRight(B, first, e, t), NEW x,
         NEW C, C = [B EXCEPT !.next = x]
  PROVE  /\ BlockRight(C, first, e, t) /\ Filled(C) = Filled(B) /\ C.next = x /\ C.size = B.size
         /\ C.front = B.front /\ C.tail = B.tail /\ C.localTail = B.localTail
<1>1. /\ IsBlock(C) /\ C.front = B.front /\ C.tail = B.tail /\ C.localTail = B.localTail
      /\ C.localFront = B.localFront /\ C.next = x /\ C.size = B.size /\ C.data = B.data
  BY DEF BlockRight, IsBlock
<1>2. Contents(C, first, e, t) = Contents(B, first, e, t) /\ Filled(C) = Filled(B) /\ Round(C) = Round(B)
  BY <1>1 DEF Contents, Filled, Round
<1>3. Indices(C)
  BY <1>1 DEF BlockRight, Indices
<1> QED
  BY <1>1, <1>2, <1>3 DEF BlockRight

(* The positions once the new block is linked behind the tail block.       *)
PosLinked(n, pos) == [b \in 1 .. n + 1 |-> IF b = n + 1 THEN pos[tailBlock] + 1
                                           ELSE IF pos[b] > pos[tailBlock] THEN pos[b] + 1 ELSE pos[b]]
NumLinked(n, num) == [b \in 1 .. n + 1 |-> IF b = n + 1 THEN sent ELSE num[b]]

(* The circle with the new block in it.                                    *)
LEMMA CircleLinked ==
  ASSUME NEW n, NEW pos, CircleRight(n, pos), n < MaxBlocks, MaxBlocks \in Nat,
         NEW pos2, pos2 = PosLinked(n, pos),
         frontBlock' = frontBlock, tailBlock' = tailBlock,
         blk[n + 1].next = blk[tailBlock].next,
         blk'[tailBlock].next = n + 1, blk'[n + 1].next = blk[n + 1].next,
         \A b \in 1 .. n : b # tailBlock => blk'[b].next = blk[b].next
  PROVE  /\ CircleRight(n + 1, pos2)'
         /\ pos2[frontBlock] = pos[frontBlock] /\ pos2[tailBlock] = pos[tailBlock]
         /\ pos2[n + 1] = pos[tailBlock] + 1
         /\ \A b \in 1 .. n : /\ pos[b] <= pos[tailBlock] <=> pos2[b] <= pos[tailBlock]
                              /\ pos[b] <= pos[tailBlock] => pos2[b] = pos[b]
<1>1. /\ n \in Nat /\ n <= MaxBlocks /\ frontBlock \in 1 .. n /\ tailBlock \in 1 .. n
      /\ \A b \in 1 .. n : pos[b] \in Int
      /\ \A a, b \in 1 .. n : pos[a] = pos[b] => a = b
      /\ \A b \in 1 .. n : pos[frontBlock] <= pos[b] /\ pos[b] < pos[frontBlock] + n
      /\ \A b \in 1 .. n : /\ blk[b].next \in 1 .. n
                           /\ pos[blk[b].next] = IF pos[b] = pos[frontBlock] + n - 1 THEN pos[frontBlock] ELSE pos[b] + 1
  BY DEF CircleRight
<1>2. /\ pos2[n + 1] = pos[tailBlock] + 1
      /\ \A b \in 1 .. n : pos2[b] = IF pos[b] > pos[tailBlock] THEN pos[b] + 1 ELSE pos[b]
      /\ pos2 \in [1 .. n + 1 -> Int]
  BY <1>1, SMTT(40) DEF PosLinked
<1>3. pos2[frontBlock] = pos[frontBlock] /\ pos2[tailBlock] = pos[tailBlock]
  BY <1>1, <1>2, SMTT(40)
<1>4. \A b \in 1 .. n : /\ pos[b] <= pos[tailBlock] <=> pos2[b] <= pos[tailBlock]
                        /\ pos[b] <= pos[tailBlock] => pos2[b] = pos[b]
  BY <1>1, <1>2, SMTT(40)
<1>5. \A b \in 1 .. n + 1 : b \in 1 .. n \/ b = n + 1
  BY <1>1
<1>6. \A b \in 1 .. n : /\ pos2[b] # pos2[n + 1]
                        /\ pos[frontBlock] <= pos2[b] /\ pos2[b] < pos[frontBlock] + (n + 1)
  <2> TAKE b \in 1 .. n
  <2>1. /\ pos[b] \in Int /\ pos[tailBlock] \in Int /\ pos[frontBlock] \in Int
        /\ pos[frontBlock] <= pos[b] /\ pos[b] < pos[frontBlock] + n
    BY <1>1
  <2>2. pos2[b] = (IF pos[b] > pos[tailBlock] THEN pos[b] + 1 ELSE pos[b]) /\ pos2[n + 1] = pos[tailBlock] + 1
    BY <1>2
  <2> QED
    BY <1>1, <2>1, <2>2
<1>7. /\ \A a, b \in 1 .. n + 1 : pos2[a] = pos2[b] => a = b
      /\ \A b \in 1 .. n + 1 : pos2[frontBlock] <= pos2[b] /\ pos2[b] < pos2[frontBlock] + (n + 1)
  <2>1. \A a, b \in 1 .. n : pos2[a] = pos2[b] => a = b
    <3> TAKE a \in 1 .. n, b \in 1 .. n
    <3> HAVE pos2[a] = pos2[b]
    <3>1. pos[a] \in Int /\ pos[b] \in Int /\ pos[tailBlock] \in Int
      BY <1>1
    <3>2. /\ pos2[a] = IF pos[a] > pos[tailBlock] THEN pos[a] + 1 ELSE pos[a]
          /\ pos2[b] = IF pos[b] > pos[tailBlock] THEN pos[b] + 1 ELSE pos[b]
      BY <1>2
    <3>3. \A x, y, t \in Int : (IF x > t THEN x + 1 ELSE x) = (IF y > t THEN y + 1 ELSE y) => x = y
      OBVIOUS
    <3>4. (IF pos[a] > pos[tailBlock] THEN pos[a] + 1 ELSE pos[a]) = (IF pos[b] > pos[tailBlock] THEN pos[b] + 1 ELSE pos[b])
      BY <3>2, Zenon
    <3>5. pos[a] = pos[b]
      BY <3>1, <3>3, <3>4
    <3> QED
      BY <1>1, <3>5
  <2>2. pos[frontBlock] <= pos2[n + 1] /\ pos2[n + 1] < pos[frontBlock] + (n + 1)
    <3>1. pos[tailBlock] \in Int /\ pos[frontBlock] \in Int /\ n \in Int
          /\ pos[frontBlock] <= pos[tailBlock] /\ pos[tailBlock] < pos[frontBlock] + n
      BY <1>1
    <3> QED
      BY <1>2, <3>1
  <2> QED
    BY <1>3, <1>5, <1>6, <2>1, <2>2
<1>8. ASSUME NEW b \in 1 .. n + 1
      PROVE  /\ blk'[b].next \in 1 .. n + 1
             /\ pos2[blk'[b].next] = IF pos2[b] = pos2[frontBlock] + (n + 1) - 1 THEN pos2[frontBlock] ELSE pos2[b] + 1
  <2>1. CASE b = tailBlock
    <3>1. pos2[b] < pos[frontBlock] + n /\ pos2[b] = pos[tailBlock] /\ pos[frontBlock] \in Int /\ pos2[b] \in Int
      BY <1>1, <1>3, <2>1
    <3>2. blk'[b].next = n + 1 /\ n + 1 \in 1 .. n + 1 /\ pos2[n + 1] = pos2[b] + 1
      BY <1>1, <1>2, <2>1, <3>1
    <3>3. pos2[b] # pos2[frontBlock] + (n + 1) - 1
      BY <1>1, <1>3, <3>1
    <3> QED
      BY <3>2, <3>3
  <2>2. CASE b = n + 1
    <3>1. PICK c \in 1 .. n : c = blk[tailBlock].next /\ c = blk'[b].next
      BY <1>1, <2>2
    <3>2. pos[c] = IF pos[tailBlock] = pos[frontBlock] + n - 1 THEN pos[frontBlock] ELSE pos[tailBlock] + 1
      BY <1>1, <3>1
    <3>3. pos2[b] = pos[tailBlock] + 1 /\ pos[tailBlock] \in Int /\ pos[frontBlock] \in Int /\ pos[c] \in Int
      BY <1>1, <1>2, <2>2
    <3>4. CASE pos[tailBlock] = pos[frontBlock] + n - 1
      <4>1. pos[c] = pos[frontBlock] /\ c = frontBlock
        BY <1>1, <3>2, <3>4
      <4> QED
        BY <1>1, <1>3, <3>1, <3>3, <3>4, <4>1
    <3>5. CASE pos[tailBlock] # pos[frontBlock] + n - 1
      <4>1. pos2[c] = pos[tailBlock] + 2
        BY <1>2, <3>2, <3>3, <3>5
      <4>2. pos2[b] # pos[frontBlock] + (n + 1) - 1
        BY <1>1, <3>3, <3>5
      <4> QED
        BY <1>1, <1>3, <3>1, <3>3, <4>1, <4>2
    <3> QED
      BY <3>4, <3>5
  <2>3. CASE b # tailBlock /\ b # n + 1
    <3>1. PICK c \in 1 .. n : c = blk[b].next /\ c = blk'[b].next
      BY <1>1, <1>5, <2>3
    <3>2. /\ pos[c] = IF pos[b] = pos[frontBlock] + n - 1 THEN pos[frontBlock] ELSE pos[b] + 1
          /\ pos[b] # pos[tailBlock] /\ b \in 1 .. n
      BY <1>1, <1>5, <2>3, <3>1
    <3>3. /\ pos[b] \in Int /\ pos[c] \in Int /\ pos[tailBlock] \in Int /\ pos[frontBlock] \in Int
          /\ pos[b] < pos[frontBlock] + n /\ pos[tailBlock] < pos[frontBlock] + n /\ pos[frontBlock] <= pos[tailBlock]
      BY <1>1, <3>2
    <3>4. pos2[b] = (IF pos[b] > pos[tailBlock] THEN pos[b] + 1 ELSE pos[b])
          /\ pos2[c] = (IF pos[c] > pos[tailBlock] THEN pos[c] + 1 ELSE pos[c])
      BY <1>2, <3>2
    <3>5. pos2[c] = IF pos2[b] = pos[frontBlock] + (n + 1) - 1 THEN pos[frontBlock] ELSE pos2[b] + 1
      BY <1>1, <3>2, <3>3, <3>4
    <3> QED
      BY <1>1, <1>3, <3>1, <3>5
  <2> QED
    BY <2>1, <2>2, <2>3
<1>9. n + 1 \in Nat /\ n + 1 <= MaxBlocks /\ frontBlock \in 1 .. n + 1 /\ tailBlock \in 1 .. n + 1
  BY <1>1
<1>10. CircleRight(n + 1, pos2)'
  BY <1>2, <1>7, <1>8, <1>9 DEF CircleRight
<1> QED
  BY <1>2, <1>3, <1>4, <1>10

(* A walk of the consumer begins at the front block, and is never behind   *)
(* it.                                                                     *)
LEMMA ConsumerAhead ==
  ASSUME NEW n, NEW pos, NEW num, n \in Nat, frontBlock \in 1 .. n, tailBlock \in 1 .. n,
         \A b \in 1 .. n : pos[b] \in Int, \A b \in 1 .. n : pos[frontBlock] <= pos[b] /\ pos[b] < pos[frontBlock] + n,
         walk.first = frontBlock, walk.at \in 0 .. n
  PROVE  Ahead(n, pos, num) = IF walk.at # 0 /\ Live(pos, walk.at) THEN sent - num[walk.at] ELSE 0
<1>1. WalkFrom(n, pos) = pos[frontBlock]
  BY DEF WalkFrom
<1>2. CASE walk.at = 0
  BY <1>2 DEF Ahead
<1>3. CASE walk.at # 0
  <2>1. PICK a \in 1 .. n : a = walk.at
    BY <1>3
  <2>2. pos[a] \in Int /\ pos[frontBlock] <= pos[a] /\ pos[a] < pos[frontBlock] + n /\ pos[frontBlock] \in Int
    OBVIOUS
  <2>3. WalkPos(n, pos) = pos[a]
    BY <1>1, <2>1, <2>2 DEF WalkPos
  <2>4. ~(WalkPos(n, pos) < pos[frontBlock])
    BY <2>2, <2>3
  <2> QED
    BY <1>3, <2>1, <2>4 DEF Ahead
<1> QED
  BY <1>2, <1>3

(* The new block is linked behind the tail block.                          *)
LEMMA LinkBlockKeeps ==
  ASSUME NEW n, NEW pos, NEW num, NEW K, QueueWith(n, pos, num, K), Queue!LinkBlock
  PROVE  \E pos2, num2 \in [1 .. n + 1 -> Int] : QueueWith(n + 1, pos2, num2, K)'
<1>1. /\ CircleRight(n, pos) /\ OrderRight(n, pos, num) /\ RoomRight(n, pos, num, K) /\ WalkRight(n, pos, num)
      /\ MemoryRight(n, K) /\ ProducerRight(n, pos, num, K) /\ ConsumerRight /\ BlocksRight(n, num)
  BY DEF QueueWith
<1>2. /\ queuePpc = "link" /\ queuePpc' = "publish"
      /\ UNCHANGED <<size, frontBlock, tailBlock, largestBlockSize, mode, sent, room, refused,
                     queueCpc, received, before, queuePeeked, walk>>
  BY DEF Queue!LinkBlock, Queue!consumerVars
<1>3. FreshRight(n, K)
  BY <1>1, <1>2 DEF MemoryRight
<1>4. /\ n \in Nat /\ n < MaxBlocks /\ MaxBlocks \in Nat /\ frontBlock \in 1 .. n /\ tailBlock \in 1 .. n
      /\ \A b \in 1 .. n : pos[b] \in Int /\ num[b] \in Int /\ pos[frontBlock] <= pos[b] /\ pos[b] < pos[frontBlock] + n
      /\ sent \in Nat /\ K \in Nat
  BY <1>1, <1>3, Positions, NumbersKnown DEF FreshRight, ProducerRight
<1>5. blk' = [blk EXCEPT ![tailBlock].next = n + 1]
  <2>1. Cardinality(Queue!Allocated) = n + 1
    BY <1>2, AllocatedBlocks
  <2>2. Queue!Cardinality(Queue!Allocated) = n + 1
    BY <2>1, SameCardinality
  <2> QED
    BY <2>2 DEF Queue!LinkBlock
<1>6. PICK t \in 1 .. n : t = tailBlock
  BY <1>4
<1>7. PICK B : B = blk[t]
  OBVIOUS
<1>8. PICK C : C = blk'[t]
  OBVIOUS
<1>9. /\ C = [B EXCEPT !.next = n + 1] /\ \A b \in 1 .. MaxBlocks : b # t => blk'[b] = blk[b]
      /\ blk' = [b \in 1 .. MaxBlocks |-> blk'[b]]
  <2>1. blk = [b \in 1 .. MaxBlocks |-> blk[b]] /\ t \in 1 .. MaxBlocks
    BY <1>1, <1>4 DEF MemoryRight
  <2> QED
    BY <1>5, <1>6, <1>7, <1>8, <2>1
<1>10. /\ BlockRight(C, num[t], Extra(t), Taken(t)) /\ Filled(C) = Filled(B) /\ C.next = n + 1 /\ C.size = B.size
       /\ C.front = B.front /\ C.tail = B.tail /\ C.localTail = B.localTail
  <2>1. BlockRight(B, num[t], Extra(t), Taken(t)) /\ num[t] \in Int /\ Extra(t) \in 0 .. 1 /\ Taken(t) \in 0 .. 1
    BY <1>7, BlockFacts
  <2>2. PICK x : x = n + 1
    OBVIOUS
  <2>3. C = [B EXCEPT !.next = x]
    BY <1>9, <2>2
  <2>4. /\ BlockRight(C, num[t], Extra(t), Taken(t)) /\ Filled(C) = Filled(B) /\ C.next = x /\ C.size = B.size
        /\ C.front = B.front /\ C.tail = B.tail /\ C.localTail = B.localTail
    BY <2>1, <2>3, NextChanged
  <2> QED
    BY <2>2, <2>4
<1>11. \A b \in 1 .. n + 1 : b # t => blk'[b] = blk[b]
  BY <1>4, <1>9
<1>12. PICK pos2 : pos2 = PosLinked(n, pos)
  OBVIOUS
<1>13. PICK num2 : num2 = NumLinked(n, num)
  OBVIOUS
<1>14. /\ CircleRight(n + 1, pos2)'
       /\ pos2[frontBlock] = pos[frontBlock] /\ pos2[tailBlock] = pos[tailBlock]
       /\ pos2[n + 1] = pos[tailBlock] + 1
       /\ \A b \in 1 .. n : /\ pos[b] <= pos[tailBlock] <=> pos2[b] <= pos[tailBlock]
                            /\ pos[b] <= pos[tailBlock] => pos2[b] = pos[b]
  <2>1. blk[n + 1].next = blk[tailBlock].next
    BY <1>3 DEF FreshRight, NextTailBlock
  <2>2. blk'[tailBlock].next = n + 1 /\ n + 1 # t
    BY <1>4, <1>6, <1>8, <1>10
  <2>3. blk'[n + 1].next = blk[n + 1].next
    BY <1>4, <1>11, <2>2
  <2>4. \A b \in 1 .. n : b # tailBlock => blk'[b].next = blk[b].next
    BY <1>4, <1>6, <1>11
  <2> QED
    BY <1>1, <1>2, <1>4, <1>12, <2>1, <2>2, <2>3, <2>4, CircleLinked
<1>15. pos2 \in [1 .. n + 1 -> Int] /\ num2 \in [1 .. n + 1 -> Int]
       /\ num2[n + 1] = sent /\ \A b \in 1 .. n : num2[b] = num[b]
  BY <1>4, <1>12, <1>13 DEF PosLinked, NumLinked
<1>16. /\ \A b \in 1 .. n : Live(pos2, b)' <=> Live(pos, b)
       /\ \A b \in 1 .. n : Live(pos, b) => pos2[b] = pos[b]
       /\ ~Live(pos2, n + 1)'
  BY <1>2, <1>4, <1>14 DEF Live
<1>17. NextTailBlock' = n + 1
  BY <1>2, <1>6, <1>8, <1>10 DEF NextTailBlock
<1>18. /\ \A b \in 1 .. n + 1 : Filled(blk'[b]) = Filled(blk[b]) /\ blk'[b].size = blk[b].size
       /\ \A b \in 1 .. n : b # tailBlock => blk'[b].next = blk[b].next
       /\ Filled(blk'[n + 1]) = 1 /\ blk'[n + 1].size > K
  <2>1. \A b \in 1 .. n + 1 : Filled(blk'[b]) = Filled(blk[b]) /\ blk'[b].size = blk[b].size
    <3> TAKE b \in 1 .. n + 1
    <3> QED
      BY <1>7, <1>8, <1>10, <1>11
  <2> QED
    BY <1>3, <1>4, <1>6, <1>11, <2>1 DEF FreshRight
<1>19. \A b \in 1 .. n + 1 : b \in 1 .. n \/ b = n + 1
  BY <1>4
<1>20. BlocksRight(n + 1, num2)'
  <2>1. \A b \in 1 .. n + 1 : Extra(b)' = 0 /\ Extra(b) = 0 /\ Taken(b)' = Taken(b)
    BY <1>2 DEF Extra, InPlace, Taken
  <2>2. Taken(n + 1)' = 0
    BY <1>2, <1>4 DEF Taken
  <2>3. ASSUME NEW b \in 1 .. n + 1 PROVE BlockRight(blk'[b], num2[b], Extra(b)', Taken(b)')
    <3>1. CASE b = t
      BY <1>8, <1>10, <1>15, <2>1, <3>1
    <3>2. CASE b = n + 1
      <4>1. n + 1 # t
        BY <1>4
      <4> QED
        BY <1>3, <1>11, <1>15, <2>1, <2>2, <3>2, <4>1 DEF FreshRight
    <3>3. CASE b # t /\ b # n + 1
      BY <1>1, <1>11, <1>15, <1>19, <2>1, <3>3 DEF BlocksRight
    <3> QED
      BY <3>1, <3>2, <3>3
  <2> QED
    BY <2>3 DEF BlocksRight
<1>21. OrderRight(n + 1, pos2, num2)'
  <2>1. /\ num2[frontBlock'] = received' /\ num2[tailBlock'] + Filled(blk'[tailBlock']) = sent'
    BY <1>1, <1>2, <1>4, <1>15, <1>18 DEF OrderRight
  <2>2. ASSUME NEW b \in 1 .. n + 1, Live(pos2, b)'
        PROVE  b \in 1 .. n /\ Live(pos, b) /\ Filled(blk'[b]) = Filled(blk[b]) /\ blk'[b].size = blk[b].size
               /\ num2[b] = num[b]
    BY <1>15, <1>16, <1>18, <1>19, <2>2
  <2>3. \A b \in 1 .. n + 1 : Live(pos2, b)' /\ b # tailBlock => num2[blk'[b].next] = num2[b] + Filled(blk'[b])
    <3> TAKE b \in 1 .. n + 1
    <3> HAVE Live(pos2, b)' /\ b # tailBlock
    <3>1. blk'[b].next = blk[b].next
      BY <1>18, <2>2
    <3>2. blk[b].next \in 1 .. n /\ num[blk[b].next] = num[b] + Filled(blk[b])
      BY <2>2, NextLive
    <3> QED
      BY <1>15, <2>2, <3>1, <3>2
  <2>4. \A b \in 1 .. n + 1 : Live(pos2, b)' /\ b # frontBlock => Filled(blk'[b]) >= 1
    BY <1>1, <2>2 DEF OrderRight
  <2>5. \A b \in 1 .. n + 1 : Live(pos2, b)' /\ b # frontBlock /\ b # tailBlock => Filled(blk'[b]) = blk'[b].size - 1
    BY <1>1, <2>2 DEF OrderRight
  <2>6. \A b \in 1 .. n + 1 : ~Live(pos2, b)' => Filled(blk'[b]) = IF b = n + 1 THEN 1 ELSE 0
    <3> TAKE b \in 1 .. n + 1
    <3> HAVE ~Live(pos2, b)'
    <3>1. CASE b = n + 1
      BY <1>18, <3>1
    <3>2. CASE b \in 1 .. n
      <4>1. Filled(blk[b]) = 0 /\ b # n + 1
        BY <1>1, <1>2, <1>4, <1>16, <3>2 DEF OrderRight
      <4> QED
        BY <1>18, <4>1
    <3> QED
      BY <1>19, <3>1, <3>2
  <2> QED
    BY <1>2, <1>15, <1>17, <2>1, <2>3, <2>4, <2>5, <2>6 DEF OrderRight
<1>22. RoomRight(n + 1, pos2, num2, K)'
  <2>1. n + 1 > 1 /\ n + 1 # 1 /\ ((n + 1) - 1) * K >= size
    <3>1. n \in Nat /\ n >= 1 /\ size \in Nat /\ K \in Nat /\ (n = 1 => K >= size) /\ (n > 1 => (n - 1) * K >= size)
      BY <1>1, <1>4 DEF RoomRight
    <3>2. ((n - 1) + 1) * K = (n - 1) * K + K /\ (n - 1) * K \in Nat /\ n - 1 \in Nat
      <4>1. n - 1 \in Nat
        BY <3>1
      <4> QED
        BY <3>1, <4>1, Products
    <3>3. (n - 1) + 1 = n /\ (n + 1) - 1 = n
      BY <3>1
    <3>4. n * K = (n - 1) * K + K
      BY <3>2, <3>3
    <3>5. n * K >= size
      BY <3>1, <3>2, <3>4
    <3> QED
      BY <3>1, <3>3, <3>5
  <2>2. \A b \in 1 .. n + 1 : blk'[b].size > K
    BY <1>1, <1>18, <1>19 DEF RoomRight
  <2>3. \A a, b \in 1 .. n + 1 : Live(pos2, b)' /\ a # frontBlock /\ pos2[a] <= pos2[b]
                                   => num2[b] - num2[a] >= (pos2[b] - pos2[a]) * K
    <3> TAKE a \in 1 .. n + 1, b \in 1 .. n + 1
    <3> HAVE Live(pos2, b)' /\ a # frontBlock /\ pos2[a] <= pos2[b]
    <3>1. b \in 1 .. n /\ Live(pos, b) /\ pos2[b] = pos[b]
      BY <1>16, <1>19
    <3>2. pos2[a] <= pos[tailBlock]
      <4>1. pos2[a] \in Int /\ pos2[b] \in Int /\ pos[tailBlock] \in Int /\ pos2[b] <= pos[tailBlock]
        BY <1>4, <1>15, <3>1 DEF Live
      <4> QED
        BY <4>1
    <3>3. a \in 1 .. n /\ Live(pos, a) /\ pos2[a] = pos[a]
      BY <1>2, <1>14, <1>16, <1>19, <3>2 DEF Live
    <3> QED
      BY <1>1, <1>15, <3>1, <3>3 DEF RoomRight
  <2> QED
    BY <1>1, <1>2, <2>1, <2>2, <2>3 DEF RoomRight
<1>23. MemoryRight(n + 1, K)'
  <2>1. \A b \in 1 .. MaxBlocks : b > n + 1 => b > n /\ b # n + 1 /\ b # t
    BY <1>4
  <2> QED
    BY <1>1, <1>2, <1>9, <2>1 DEF MemoryRight
<1>24. ProducerRight(n + 1, pos2, num2, K)'
  <2>1. /\ Filled(blk'[tailBlock]) = Filled(blk[tailBlock]) /\ blk'[tailBlock].size = blk[tailBlock].size
        /\ pos2[NextTailBlock'] = pos2[tailBlock] + 1 /\ num2[NextTailBlock'] = sent
    <3>1. tailBlock \in 1 .. n + 1
      BY <1>4
    <3>2. Filled(blk'[tailBlock]) = Filled(blk[tailBlock]) /\ blk'[tailBlock].size = blk[tailBlock].size
      BY <1>18, <3>1, Zenon
    <3>3. pos2[n + 1] = pos2[tailBlock] + 1 /\ num2[n + 1] = sent
      BY <1>14, <1>15, Zenon
    <3> QED
      BY <1>17, <3>2, <3>3, Zenon
  <2> QED
    BY <1>1, <1>2, <2>1 DEF ProducerRight, ProducerPlaces, Leaving
<1>25. ConsumerRight'
  <2>1. /\ Filled(blk'[frontBlock]) = Filled(blk[frontBlock]) /\ blk'[frontBlock].front = blk[frontBlock].front
        /\ blk'[frontBlock].localTail = blk[frontBlock].localTail
    BY <1>4, <1>7, <1>8, <1>10, <1>11
  <2> QED
    BY <1>1, <1>2, <2>1 DEF ConsumerRight
<1>26. WalkRight(n + 1, pos2, num2)'
  <2>1. walk.who # "producer"
    BY <1>1, <1>2 DEF WalkRight, ProducerWalk
  <2>2. walk.who = "consumer" => ConsumerWalk(n + 1, pos2, num2)'
    <3> HAVE walk.who = "consumer"
    <3>1. /\ ConsumerWalk(n, pos, num) /\ walk.at \in 0 .. n /\ walk.first = frontBlock /\ walk.result \in Int
          /\ received \in Nat
      BY <1>1 DEF WalkRight, ConsumerWalk, ProducerRight
    <3>2. Ahead(n, pos, num) = IF walk.at # 0 /\ Live(pos, walk.at) THEN sent - num[walk.at] ELSE 0
      BY <1>4, <3>1, ConsumerAhead
    <3>3. \A b \in 1 .. n + 1 : pos2[b] \in Int /\ pos2[frontBlock] <= pos2[b] /\ pos2[b] < pos2[frontBlock] + (n + 1)
      BY <1>2, <1>14, <1>15 DEF CircleRight
    <3>4. Ahead(n + 1, pos2, num2)' = (IF walk.at # 0 /\ Live(pos2, walk.at) THEN sent - num2[walk.at] ELSE 0)'
      <4>1. walk'.first = frontBlock' /\ frontBlock' \in 1 .. n + 1
        BY <1>2, <1>4, <3>1
      <4>2. WalkFrom(n + 1, pos2)' = pos2[frontBlock']
        BY <1>2, <1>4, <1>14, <4>1 DEF WalkFrom
      <4>3. CASE walk.at = 0
        BY <1>2, <4>3 DEF Ahead
      <4>4. CASE walk.at # 0
        <5>1. PICK a \in 1 .. n + 1 : a = walk.at /\ a = walk'.at
          BY <1>2, <1>4, <3>1, <4>4
        <5>2. /\ pos2[a] \in Int /\ pos2[frontBlock'] <= pos2[a] /\ pos2[a] < pos2[frontBlock'] + (n + 1)
              /\ pos2[frontBlock'] \in Int
          BY <1>2, <3>3, <4>1
        <5>3. WalkPos(n + 1, pos2)' = pos2[a]
          BY <4>2, <5>1, <5>2 DEF WalkPos
        <5>4. ~(WalkPos(n + 1, pos2)' < pos2[frontBlock'])
          BY <5>2, <5>3
        <5> QED
          BY <1>2, <4>4, <5>1, <5>4 DEF Ahead
      <4> QED
        BY <4>3, <4>4
    <3>5. ASSUME walk.at # 0
          PROVE  (Live(pos2, walk.at)' <=> Live(pos, walk.at)) /\ num2[walk.at] = num[walk.at] /\ walk.at # n + 1
      <4>1. PICK a \in 1 .. n : a = walk.at /\ a = walk'.at
        BY <1>2, <1>4, <3>1, <3>5
      <4>2. a # n + 1 /\ num2[a] = num[a] /\ (Live(pos2, a)' <=> Live(pos, a))
        BY <1>4, <1>15, <1>16
      <4>3. Live(pos2, walk.at)' <=> Live(pos2, a)'
        BY <4>1 DEF Live
      <4> QED
        BY <4>1, <4>2, <4>3
    <3>6. Ahead(n + 1, pos2, num2)' = Ahead(n, pos, num)
      BY <1>2, <3>2, <3>4, <3>5
    <3>7. walk'.at # 0 /\ Live(pos2, walk.at)' <=> walk.at # 0 /\ Live(pos, walk.at)
      BY <1>2, <3>5
    <3> QED
      BY <1>2, <1>4, <1>17, <3>1, <3>5, <3>6, <3>7 DEF ConsumerWalk
  <2> QED
    BY <1>1, <1>2, <1>4, <2>1, <2>2 DEF WalkRight
<1>27. QueueWith(n + 1, pos2, num2, K)'
  BY <1>14, <1>20, <1>21, <1>22, <1>23, <1>24, <1>25, <1>26 DEF QueueWith
<1> QED
  BY <1>15, <1>27

(* A step of the consumer that changes no block and no number.             *)
LEMMA ConsumerMoves ==
  ASSUME NEW n, NEW pos, NEW num, NEW K, QueueWith(n, pos, num, K), UNCHANGED Queue!queueVars,
         UNCHANGED Queue!producerVars, received' = received, walk' = walk,
         queueCpc # "walk", queueCpc' # "walk", queueCpc # "setfront", queueCpc' # "setfront", ConsumerRight'
  PROVE  QueueWith(n, pos, num, K)'
<1>1. UNCHANGED <<size, blk, frontBlock, tailBlock, largestBlockSize, queuePpc, mode, sent, room, refused>>
  BY DEF Queue!queueVars, Queue!producerVars
<1>2. CircleRight(n, pos)' /\ OrderRight(n, pos, num)' /\ RoomRight(n, pos, num, K)' /\ WalkRight(n, pos, num)'
  BY <1>1, CircleKept
<1>3. BlocksRight(n, num)'
  BY <1>1, BlocksKept DEF Extra, InPlace, Taken, NextTailBlock
<1>4. MemoryRight(n, K)'
  BY <1>1 DEF QueueWith, MemoryRight, FreshRight, NextTailBlock
<1>5. ProducerRight(n, pos, num, K)'
  <2>1. NextTailBlock' = NextTailBlock
    BY <1>1 DEF NextTailBlock
  <2> QED
    BY <1>1, <2>1 DEF QueueWith, ProducerRight
<1> QED
  BY <1>2, <1>3, <1>4, <1>5 DEF QueueWith

(* A dequeue begins.                                                       *)
LEMMA DequeueKeeps ==
  ASSUME NEW n, NEW pos, NEW num, NEW K, QueueWith(n, pos, num, K), NEW o, Queue!Dequeue(o)
  PROVE  QueueWith(n, pos, num, K)'
<1>1. /\ queueCpc = "idle" /\ UNCHANGED Queue!queueVars /\ UNCHANGED Queue!producerVars
      /\ received' = received /\ walk' = walk /\ queuePeeked' = queuePeeked /\ before' = (sent > received)
      /\ queueCpc' = IF blk[frontBlock].front # blk[frontBlock].localTail THEN "take" ELSE "reload"
  BY DEF Queue!Dequeue, Queue!FB
<1>2. ConsumerRight /\ blk' = blk /\ frontBlock' = frontBlock /\ tailBlock' = tailBlock /\ sent' = sent
  BY <1>1 DEF QueueWith, Queue!queueVars, Queue!producerVars
<1>3. ConsumerRight'
  BY <1>1, <1>2 DEF ConsumerRight, ConsumerPlaces
<1> QED
  BY <1>1, <1>3, ConsumerMoves

(* The front block seemed empty: is it the tail block?                     *)
LEMMA CheckTailBlockKeeps ==
  ASSUME NEW n, NEW pos, NEW num, NEW K, QueueWith(n, pos, num, K), Queue!CheckTailBlock
  PROVE  QueueWith(n, pos, num, K)'
<1>1. /\ queueCpc = "checktail" /\ UNCHANGED Queue!queueVars /\ UNCHANGED Queue!producerVars
      /\ UNCHANGED <<received, walk, queuePeeked, before>>
      /\ queueCpc' = IF frontBlock # tailBlock THEN "recheck" ELSE "empty"
  BY DEF Queue!CheckTailBlock
<1>2. ConsumerRight /\ blk' = blk /\ frontBlock' = frontBlock /\ tailBlock' = tailBlock /\ sent' = sent
  BY <1>1 DEF QueueWith, Queue!queueVars, Queue!producerVars
<1>3. ConsumerRight'
  BY <1>1, <1>2 DEF ConsumerRight, ConsumerPlaces
<1> QED
  BY <1>1, <1>3, ConsumerMoves

(* The dequeue reports that the queue is empty.                            *)
LEMMA ReturnEmptyKeeps ==
  ASSUME NEW n, NEW pos, NEW num, NEW K, QueueWith(n, pos, num, K), Queue!ReturnEmpty
  PROVE  QueueWith(n, pos, num, K)'
<1>1. /\ queueCpc = "empty" /\ UNCHANGED Queue!queueVars /\ UNCHANGED Queue!producerVars
      /\ UNCHANGED <<received, walk, queuePeeked, before>> /\ queueCpc' = "idle"
  BY DEF Queue!ReturnEmpty
<1>2. ConsumerRight /\ blk' = blk /\ frontBlock' = frontBlock /\ tailBlock' = tailBlock /\ sent' = sent
  BY <1>1 DEF QueueWith, Queue!queueVars, Queue!producerVars
<1>3. ConsumerRight'
  BY <1>1, <1>2 DEF ConsumerRight, ConsumerPlaces
<1> QED
  BY <1>1, <1>3, ConsumerMoves

(* The first element of a block is in the slot at its front.               *)
LEMMA FirstElement ==
  ASSUME NEW B, NEW first \in Int, NEW e \in 0 .. 1, BlockRight(B, first, e, 0), Filled(B) >= 1
  PROVE  B.data[B.front] = first + 1
<1>1. /\ B.size \in Nat /\ B.front \in 0 .. B.size - 1 /\ Gap(B.front, B.front, B.size) = 0 /\ Filled(B) \in Int
  BY RoundOfBlock DEF Indices
<1>2. Gap(B.front, B.front, B.size) < Filled(B) + e
  BY <1>1
<1>3. Contents(B, first, e, 0)[B.front] = first + 0 + 1
  BY <1>1, <1>2 DEF Contents
<1> QED
  BY <1>3 DEF BlockRight

(* What the consumer is about to take, in this block or the next.          *)
LEMMA NextElement ==
  ASSUME NEW n, NEW pos, NEW num, NEW K, QueueWith(n, pos, num, K)
  PROVE  /\ queueCpc = "take" => blk[frontBlock].data[blk[frontBlock].front] = received + 1
         /\ queueCpc = "advance" => /\ blk[blk[frontBlock].next].data[blk[blk[frontBlock].next].front] = received + 1
                                    /\ blk[blk[frontBlock].next].front # blk[blk[frontBlock].next].tail
         /\ queueCpc \in {"take", "advance"} => received < sent
<1>1. PICK f \in 1 .. n : f = frontBlock
  BY Positions
<1>2. num[f] = received /\ received \in Int /\ Live(pos, f) /\ sent \in Int
  BY <1>1, Positions, BlockFacts
<1>3. CASE queueCpc = "take"
  <2>1. Taken(f) = 0
    BY <1>3 DEF Taken
  <2>2. BlockRight(blk[f], num[f], Extra(f), 0) /\ Extra(f) \in 0 .. 1 /\ num[f] \in Int
    BY <2>1, BlockFacts
  <2>3. Filled(blk[f]) >= 1 /\ Filled(blk[f]) \in Int
    <3>1. blk[f].front # blk[f].localTail
      BY <1>1, <1>3 DEF QueueWith, ConsumerRight
    <3>2. Filled(blk[f]) >= 1
      BY <3>1, BlockFacts
    <3>3. Filled(blk[f]) \in 0 .. blk[f].size - 1 - Extra(f)
      BY BlockFacts
    <3> QED
      BY <3>2, <3>3
  <2>4. blk[f].data[blk[f].front] = num[f] + 1
    BY <2>2, <2>3, FirstElement
  <2>5. num[f] + Filled(blk[f]) <= sent
    BY <1>2, LiveNumbers
  <2> QED
    BY <1>1, <1>2, <1>3, <2>3, <2>4, <2>5
<1>4. CASE queueCpc = "advance"
  <2>1. f # tailBlock /\ Filled(blk[f]) = 0
    BY <1>1, <1>4 DEF QueueWith, ConsumerRight
  <2>2. PICK m \in 1 .. n : m = blk[f].next
    BY <1>2, <2>1, NextLive
  <2>3. Live(pos, m) /\ m # frontBlock /\ num[m] = received + 0
    BY <1>2, <2>1, <2>2, NextLive
  <2>4. Taken(m) = 0
    BY <2>3 DEF Taken
  <2>5. BlockRight(blk[m], num[m], Extra(m), 0) /\ Extra(m) \in 0 .. 1 /\ num[m] \in Int
    BY <2>4, BlockFacts
  <2>6. Filled(blk[m]) >= 1 /\ Filled(blk[m]) \in Int
    <3>1. Filled(blk[m]) \in 0 .. blk[m].size - 1 - Extra(m)
      BY BlockFacts
    <3> QED
      BY <2>3, <3>1 DEF QueueWith, OrderRight
  <2>7. blk[m].data[blk[m].front] = num[m] + 1
    BY <2>5, <2>6, FirstElement
  <2>8. num[m] + Filled(blk[m]) <= sent
    BY <2>3, LiveNumbers
  <2>9. blk[m].front # blk[m].tail
    <3>1. Filled(blk[m]) # 0
      BY <2>6
    <3> QED
      BY <3>1, BlockFacts
  <2> QED
    BY <1>1, <1>2, <1>4, <2>2, <2>3, <2>6, <2>7, <2>8, <2>9
<1> QED
  BY <1>3, <1>4

(* peek() points at it.                                                    *)
LEMMA PeekKeeps ==
  ASSUME NEW n, NEW pos, NEW num, NEW K, QueueWith(n, pos, num, K), Queue!PeekFront \/ Queue!PeekNext
  PROVE  QueueWith(n, pos, num, K)'
<1>1. /\ queueCpc \in {"take", "advance"} /\ UNCHANGED Queue!queueVars /\ UNCHANGED Queue!producerVars
      /\ UNCHANGED <<received, walk, before>> /\ queueCpc' = "idle"
  BY DEF Queue!PeekFront, Queue!PeekNext, Queue!PeekAt
<1>2. ConsumerRight /\ blk' = blk /\ frontBlock' = frontBlock /\ tailBlock' = tailBlock /\ sent' = sent
  BY <1>1 DEF QueueWith, Queue!queueVars, Queue!producerVars
<1>3. queuePeeked' = received + 1 /\ received < sent
  BY <1>1, NextElement DEF Queue!PeekFront, Queue!PeekNext, Queue!PeekAt, Queue!FB
<1>4. ConsumerRight'
  BY <1>1, <1>2, <1>3 DEF ConsumerRight, ConsumerPlaces
<1> QED
  BY <1>1, <1>4, ConsumerMoves

(* The producer's localTail says whether the front block has an element.   *)
LEMMA ReloadTailKeeps ==
  ASSUME NEW n, NEW pos, NEW num, NEW K, QueueWith(n, pos, num, K),
         NEW from \in {"reload", "recheck"}, Queue!ReloadTail(from)
  PROVE  QueueWith(n, pos, num, K)'
<1>1. /\ queueCpc = from /\ queueCpc \in {"reload", "recheck"}
      /\ blk' = [blk EXCEPT ![frontBlock].localTail = blk[frontBlock].tail]
      /\ queueCpc' = IF blk[frontBlock].front # blk[frontBlock].tail THEN "take"
                     ELSE IF from = "reload" THEN "checktail" ELSE "advance"
      /\ UNCHANGED <<size, frontBlock, tailBlock, largestBlockSize, queuePpc, mode, sent, room, refused,
                     received, before, queuePeeked, walk>>
  BY DEF Queue!ReloadTail, Queue!FB, Queue!producerVars
<1>2. PICK t \in 1 .. n : t = frontBlock
  BY Positions
<1>3. PICK B : B = blk[t]
  OBVIOUS
<1>4. PICK C : C = blk'[t]
  OBVIOUS
<1>5. \A b : Taken(b) = 0 /\ Taken(b)' = 0
  BY <1>1 DEF Taken
<1>6. /\ BlockRight(B, num[t], Extra(t), 0) /\ num[t] \in Int /\ Extra(t) \in 0 .. 1
      /\ B.size \in Nat /\ t \in 1 .. MaxBlocks /\ n <= MaxBlocks /\ n \in Nat /\ MaxBlocks \in Nat
      /\ Filled(B) \in 0 .. B.size - 1 - Extra(t) /\ (Filled(B) = 0 <=> B.front = B.tail)
  <2>1. BlockRight(blk[t], num[t], Extra(t), Taken(t)) /\ Taken(t) = 0
    BY <1>5, BlockFacts
  <2> QED
    BY <1>3, <2>1, BlockFacts
<1>7. /\ C = [B EXCEPT !.localTail = B.tail] /\ \A b \in 1 .. MaxBlocks : b # t => blk'[b] = blk[b]
      /\ blk' = [b \in 1 .. MaxBlocks |-> blk'[b]]
  <2>1. blk = [b \in 1 .. MaxBlocks |-> blk[b]]
    BY DEF QueueWith, MemoryRight
  <2> QED
    BY <1>1, <1>2, <1>3, <1>4, <1>6, <2>1
<1>8. /\ BlockRight(C, num[t], Extra(t), 0) /\ Filled(C) = Filled(B) /\ C.next = B.next /\ C.size = B.size
      /\ C.front = B.front /\ C.tail = B.tail /\ C.localTail = B.tail /\ Round(C) = Round(B)
  BY <1>6, <1>7, LocalTailReloaded
<1>9. \A b \in 1 .. n : /\ blk'[b].next = blk[b].next /\ blk'[b].size = blk[b].size
                        /\ Filled(blk'[b]) = Filled(blk[b]) /\ Round(blk'[b]) = Round(blk[b])
                        /\ (b # t => blk'[b] = blk[b])
  <2> TAKE b \in 1 .. n
  <2>1. CASE b = t
    BY <1>3, <1>4, <1>8, <2>1
  <2>2. CASE b # t
    <3>1. blk'[b] = blk[b]
      BY <1>6, <1>7, <2>2
    <3> QED
      BY <2>2, <3>1
  <2> QED
    BY <2>1, <2>2
<1>10. CircleRight(n, pos)' /\ OrderRight(n, pos, num)' /\ RoomRight(n, pos, num, K)' /\ WalkRight(n, pos, num)'
  BY <1>1, <1>9, CircleKept
<1>11. tailBlock \in 1 .. n /\ NextTailBlock' = NextTailBlock
  BY <1>1, <1>9, Positions DEF NextTailBlock
<1>12. BlocksRight(n, num)'
  <2>1. \A b : Extra(b)' = Extra(b)
    BY <1>1, <1>11 DEF Extra, InPlace
  <2>2. BlockRight(blk'[t], num[t], Extra(t)', Taken(t)')
    BY <1>4, <1>5, <1>8, <2>1
  <2>3. BlocksRight(n, num)
    BY DEF QueueWith
  <2> QED
    BY <1>5, <1>9, <2>1, <2>2, <2>3, OneBlock
<1>13. MemoryRight(n, K)'
  <2>1. \A b \in 1 .. MaxBlocks : b > n => blk'[b] = blk[b]
    BY <1>6, <1>7
  <2>2. MemoryRight(n, K)
    BY DEF QueueWith
  <2>3. queuePpc = "link" => FreshRight(n, K)'
    <3> HAVE queuePpc = "link"
    <3>1. FreshRight(n, K) /\ n + 1 \in 1 .. MaxBlocks
      BY <1>6, <2>2 DEF MemoryRight, FreshRight
    <3>2. blk'[n + 1] = blk[n + 1]
      BY <1>6, <2>1, <3>1
    <3> QED
      BY <1>1, <1>11, <3>1, <3>2 DEF FreshRight
  <2> QED
    BY <1>1, <1>7, <2>1, <2>2, <2>3 DEF MemoryRight
<1>14. ProducerRight(n, pos, num, K)'
  BY <1>1, <1>9, <1>11 DEF QueueWith, ProducerRight
<1>15. ConsumerRight'
  <2>1. ConsumerRight
    BY DEF QueueWith
  <2>2. B.front = B.tail /\ frontBlock = tailBlock => ~(sent > received)
    <3> HAVE B.front = B.tail /\ frontBlock = tailBlock
    <3>1. num[frontBlock] = received /\ num[frontBlock] + Filled(blk[frontBlock]) = sent /\ received \in Int
      BY Positions, BlockFacts
    <3> QED
      BY <1>2, <1>3, <1>6, <3>1
  <2>3. CASE B.front # B.tail
    <3>1. queueCpc' = "take"
      BY <1>1, <1>2, <1>3, <2>3
    <3>2. blk'[frontBlock].front # blk'[frontBlock].localTail
      BY <1>2, <1>4, <1>8, <2>3
    <3> QED
      BY <1>1, <2>1, <3>1, <3>2 DEF ConsumerRight, ConsumerPlaces
  <2>4. CASE B.front = B.tail
    <3>1. queueCpc' = IF from = "reload" THEN "checktail" ELSE "advance"
      BY <1>1, <1>2, <1>3, <2>4
    <3>2. Filled(blk'[frontBlock]) = 0
      BY <1>2, <1>3, <1>6, <1>9, <2>4
    <3>3. CASE from = "reload"
      BY <1>1, <2>1, <2>2, <2>4, <3>1, <3>2, <3>3 DEF ConsumerRight, ConsumerPlaces
    <3>4. CASE from = "recheck"
      BY <1>1, <2>1, <3>1, <3>2, <3>4 DEF ConsumerRight, ConsumerPlaces
    <3> QED
      BY <3>3, <3>4
  <2> QED
    BY <2>3, <2>4
<1> QED
  BY <1>10, <1>12, <1>13, <1>14, <1>15 DEF QueueWith

(* The element at front is moved out of its slot.                          *)
LEMMA TakeKeeps ==
  ASSUME NEW n, NEW pos, NEW num, NEW K, QueueWith(n, pos, num, K), Queue!Take
  PROVE  QueueWith(n, pos, num, K)'
<1>1. /\ queueCpc = "take" /\ queueCpc' = "setfront" /\ queuePeeked' = 0
      /\ blk' = [blk EXCEPT ![frontBlock].data[blk[frontBlock].front] = 0]
      /\ UNCHANGED <<size, frontBlock, tailBlock, largestBlockSize, queuePpc, mode, sent, room, refused,
                     received, before, walk>>
  BY DEF Queue!Take, Queue!FB, Queue!producerVars, Queue!None
<1>2. PICK t \in 1 .. n : t = frontBlock
  BY Positions
<1>3. PICK B : B = blk[t]
  OBVIOUS
<1>4. PICK C : C = blk'[t]
  OBVIOUS
<1>5. Taken(t) = 0 /\ Taken(t)' = 1
  BY <1>1, <1>2 DEF Taken
<1>6. /\ BlockRight(B, num[t], Extra(t), 0) /\ num[t] \in Int /\ Extra(t) \in 0 .. 1
      /\ B.size \in Nat /\ t \in 1 .. MaxBlocks /\ n <= MaxBlocks /\ n \in Nat /\ MaxBlocks \in Nat
      /\ B.front # B.localTail
  <2>1. BlockRight(blk[t], num[t], Extra(t), Taken(t)) /\ blk[t].front # blk[t].localTail
    BY <1>1, <1>2, BlockFacts DEF QueueWith, ConsumerRight
  <2> QED
    BY <1>3, <1>5, <2>1, BlockFacts
<1>7. /\ C = [B EXCEPT !.data[B.front] = 0] /\ \A b \in 1 .. MaxBlocks : b # t => blk'[b] = blk[b]
      /\ blk' = [b \in 1 .. MaxBlocks |-> blk'[b]]
  <2>1. blk = [b \in 1 .. MaxBlocks |-> blk[b]]
    BY DEF QueueWith, MemoryRight
  <2> QED
    BY <1>1, <1>2, <1>3, <1>4, <1>6, <2>1
<1>8. /\ BlockRight(C, num[t], Extra(t), 1) /\ Filled(C) = Filled(B) /\ C.next = B.next /\ C.size = B.size
      /\ C.front = B.front /\ C.tail = B.tail /\ C.localTail = B.localTail /\ Round(C) = Round(B)
  BY <1>6, <1>7, ElementTaken
<1>9. \A b \in 1 .. n : /\ blk'[b].next = blk[b].next /\ blk'[b].size = blk[b].size
                        /\ Filled(blk'[b]) = Filled(blk[b]) /\ Round(blk'[b]) = Round(blk[b])
                        /\ (b # t => blk'[b] = blk[b])
  <2> TAKE b \in 1 .. n
  <2>1. CASE b = t
    BY <1>3, <1>4, <1>8, <2>1
  <2>2. CASE b # t
    <3>1. blk'[b] = blk[b]
      BY <1>6, <1>7, <2>2
    <3> QED
      BY <2>2, <3>1
  <2> QED
    BY <2>1, <2>2
<1>10. CircleRight(n, pos)' /\ OrderRight(n, pos, num)' /\ RoomRight(n, pos, num, K)' /\ WalkRight(n, pos, num)'
  BY <1>1, <1>9, CircleKept
<1>11. tailBlock \in 1 .. n /\ NextTailBlock' = NextTailBlock
  BY <1>1, <1>9, Positions DEF NextTailBlock
<1>12. BlocksRight(n, num)'
  <2>1. \A b : Extra(b)' = Extra(b)
    BY <1>1, <1>11 DEF Extra, InPlace
  <2>2. BlockRight(blk'[t], num[t], Extra(t)', Taken(t)')
    BY <1>4, <1>5, <1>8, <2>1
  <2>3. BlocksRight(n, num)
    BY DEF QueueWith
  <2>4. \A b \in 1 .. n : b # t => Taken(b)' = Taken(b)
    BY <1>1, <1>2, SMTT(40) DEF Taken
  <2> QED
    BY <1>9, <2>1, <2>2, <2>3, <2>4, OneBlock
<1>13. MemoryRight(n, K)'
  <2>1. \A b \in 1 .. MaxBlocks : b > n => blk'[b] = blk[b]
    BY <1>6, <1>7
  <2>2. MemoryRight(n, K)
    BY DEF QueueWith
  <2>3. queuePpc = "link" => FreshRight(n, K)'
    <3> HAVE queuePpc = "link"
    <3>1. FreshRight(n, K) /\ n + 1 \in 1 .. MaxBlocks
      BY <1>6, <2>2 DEF MemoryRight, FreshRight
    <3>2. blk'[n + 1] = blk[n + 1]
      BY <1>6, <2>1, <3>1
    <3> QED
      BY <1>1, <1>11, <3>1, <3>2 DEF FreshRight
  <2> QED
    BY <1>1, <1>7, <2>1, <2>2, <2>3 DEF MemoryRight
<1>14. ProducerRight(n, pos, num, K)'
  BY <1>1, <1>9, <1>11 DEF QueueWith, ProducerRight
<1>15. ConsumerRight'
  BY <1>1 DEF QueueWith, ConsumerRight, ConsumerPlaces
<1> QED
  BY <1>10, <1>12, <1>13, <1>14, <1>15 DEF QueueWith

(* Front moves over it: the element is received.                           *)
LEMMA SetFrontKeeps ==
  ASSUME NEW n, NEW pos, NEW num, NEW K, QueueWith(n, pos, num, K), Queue!SetFront
  PROVE  \E num2 \in [1 .. n -> Int] : QueueWith(n, pos, num2, K)'
<1>1. /\ queueCpc = "setfront" /\ queueCpc' = "idle" /\ received' = received + 1
      /\ blk' = [blk EXCEPT ![frontBlock].front = (blk[frontBlock].front + 1) % blk[frontBlock].size]
      /\ UNCHANGED <<size, frontBlock, tailBlock, largestBlockSize, queuePpc, mode, sent, room, refused,
                     before, queuePeeked, walk>>
  BY DEF Queue!SetFront, Queue!producerVars, Queue!Wrap
<1>2. PICK t \in 1 .. n : t = frontBlock
  BY Positions
<1>3. PICK B : B = blk[t]
  OBVIOUS
<1>4. PICK C : C = blk'[t]
  OBVIOUS
<1>5. Taken(t) = 1 /\ \A b : Taken(b)' = 0
  BY <1>1, <1>2 DEF Taken
<1>6. /\ BlockRight(B, num[t], Extra(t), 1) /\ num[t] \in Int /\ Extra(t) \in 0 .. 1
      /\ B.size \in Nat /\ B.size >= 1 /\ B.front \in 0 .. B.size - 1
      /\ t \in 1 .. MaxBlocks /\ n <= MaxBlocks /\ n \in Nat /\ MaxBlocks \in Nat
      /\ Filled(B) \in Int /\ Filled(B) >= 1
  <2>1. /\ BlockRight(blk[t], num[t], Extra(t), Taken(t)) /\ Filled(blk[t]) \in 0 .. blk[t].size - 1 - Extra(t)
        /\ (Taken(t) = 1 => Filled(blk[t]) >= 1) /\ blk[t].size \in Nat /\ blk[t].size >= 2 /\ Indices(blk[t])
        /\ Extra(t) \in 0 .. 1
    BY BlockFacts
  <2> QED
    BY <1>3, <1>5, <2>1, BlockFacts DEF Indices
<1>7. /\ C = [B EXCEPT !.front = After(B.front, B.size)] /\ \A b \in 1 .. MaxBlocks : b # t => blk'[b] = blk[b]
      /\ blk' = [b \in 1 .. MaxBlocks |-> blk'[b]]
  <2>1. blk = [b \in 1 .. MaxBlocks |-> blk[b]]
    BY DEF QueueWith, MemoryRight
  <2>2. (B.front + 1) % B.size = After(B.front, B.size)
    BY <1>6, WrapIsAfter
  <2> QED
    BY <1>1, <1>2, <1>3, <1>4, <1>6, <2>1, <2>2
<1>8. /\ BlockRight(C, num[t] + 1, Extra(t), 0) /\ Filled(C) = Filled(B) - 1 /\ C.next = B.next /\ C.size = B.size
      /\ Round(C) = Round(B)
  BY <1>6, <1>7, FrontMoved
<1>9. \A b \in 1 .. n : /\ blk'[b].next = blk[b].next /\ blk'[b].size = blk[b].size
                        /\ Round(blk'[b]) = Round(blk[b]) /\ (b # t => blk'[b] = blk[b])
  <2> TAKE b \in 1 .. n
  <2>1. CASE b = t
    BY <1>3, <1>4, <1>8, <2>1
  <2>2. CASE b # t
    <3>1. blk'[b] = blk[b]
      BY <1>6, <1>7, <2>2
    <3> QED
      BY <2>2, <3>1
  <2> QED
    BY <2>1, <2>2
<1>10. /\ CircleRight(n, pos) /\ OrderRight(n, pos, num) /\ RoomRight(n, pos, num, K) /\ WalkRight(n, pos, num)
       /\ MemoryRight(n, K) /\ ProducerRight(n, pos, num, K) /\ ConsumerRight /\ BlocksRight(n, num)
  BY DEF QueueWith
<1>11. /\ tailBlock \in 1 .. n /\ NextTailBlock' = NextTailBlock /\ sent \in Nat /\ received \in Nat
       /\ \A b \in 1 .. n : pos[b] \in Int /\ num[b] \in Int /\ pos[t] <= pos[b]
  BY <1>1, <1>2, <1>9, <1>10, Positions DEF NextTailBlock, ProducerRight
<1>12. PICK num2 : num2 = [num EXCEPT ![t] = received + 1]
  OBVIOUS
<1>13. num2 \in [1 .. n -> Int] /\ num2[t] = received + 1 /\ (\A b \in 1 .. n : b # t => num2[b] = num[b])
  BY <1>10, <1>11, <1>12 DEF OrderRight
<1>14. num[t] = received /\ received + 1 <= sent /\ received + 1 \in Nat
  <2>1. num[t] = received /\ Live(pos, t)
    BY <1>2, Positions
  <2>2. num[t] + Filled(blk[t]) <= sent
    BY <2>1, LiveNumbers
  <2> QED
    BY <1>3, <1>6, <1>11, <2>1, <2>2
<1>15. CircleRight(n, pos)'
  <2>1. \A b \in 1 .. n : blk'[b].next = blk[b].next
    BY <1>9
  <2> QED
    BY <1>1, <1>10, <2>1 DEF CircleRight
<1>16. (\A b : Live(pos, b)' <=> Live(pos, b)) /\ (\A b : Extra(b)' = Extra(b))
  BY <1>1, <1>11 DEF Live, Extra, InPlace
<1>17. BlocksRight(n, num2)'
  <2>1. BlockRight(blk'[t], num2[t], Extra(t)', Taken(t)')
    BY <1>4, <1>5, <1>8, <1>13, <1>14, <1>16
  <2>2. \A b \in 1 .. n : b # t => Taken(b)' = Taken(b)
    BY <1>1, <1>2 DEF Taken
  <2>3. \A b \in 1 .. n : b # t => /\ blk'[b] = blk[b] /\ num2[b] = num[b]
                                   /\ Extra(b)' = Extra(b) /\ Taken(b)' = Taken(b)
    BY <1>9, <1>13, <1>16, <2>2, SMTT(40)
  <2> QED
    BY <1>10, <2>1, <2>3, OneBlock
<1>18. OrderRight(n, pos, num2)'
  <2>1. /\ \A b \in 1 .. n : b # t => Filled(blk'[b]) = Filled(blk[b])
        /\ num2[t] + Filled(blk'[t]) = num[t] + Filled(blk[t])
    <3>1. num2[t] + Filled(blk'[t]) = num[t] + Filled(blk[t])
      BY <1>3, <1>4, <1>6, <1>8, <1>11, <1>13, <1>14
    <3> QED
      BY <1>9, <3>1
  <2>2. num2[tailBlock] + Filled(blk'[tailBlock]) = sent
    <3>1. num[tailBlock] + Filled(blk[tailBlock]) = sent
      BY Positions
    <3> QED
      BY <1>11, <1>13, <2>1, <3>1
  <2>3. ASSUME NEW b \in 1 .. n, Live(pos, b), b # tailBlock
        PROVE  num2[blk'[b].next] = num2[b] + Filled(blk'[b])
    <3>1. blk[b].next \in 1 .. n /\ blk[b].next # t /\ num[blk[b].next] = num[b] + Filled(blk[b])
      BY <1>2, <2>3, NextLive
    <3>2. num2[blk'[b].next] = num[b] + Filled(blk[b])
      BY <1>9, <1>13, <3>1
    <3> QED
      BY <1>13, <2>1, <3>2
  <2>4. ~(\E b \in 1 .. n : b = t /\ ~Live(pos, b))
    BY <1>2, Positions
  <2> QED
    BY <1>1, <1>2, <1>9, <1>10, <1>11, <1>13, <1>16, <2>1, <2>2, <2>3, <2>4 DEF OrderRight
<1>19. RoomRight(n, pos, num2, K)'
  <2>1. ASSUME NEW a \in 1 .. n, NEW b \in 1 .. n, a # frontBlock, pos[a] <= pos[b]
        PROVE  num2[a] = num[a] /\ num2[b] = num[b]
    <3>1. pos[a] # pos[t]
      BY <1>2, <2>1, Positions
    <3>2. b # t
      BY <1>11, <2>1, <3>1, SMTT(40)
    <3> QED
      BY <1>2, <1>13, <2>1, <3>2
  <2> QED
    BY <1>1, <1>9, <1>10, <1>16, <2>1 DEF RoomRight
<1>20. MemoryRight(n, K)'
  <2>1. \A b \in 1 .. MaxBlocks : b > n => blk'[b] = blk[b]
    BY <1>6, <1>7
  <2>2. queuePpc = "link" => FreshRight(n, K)'
    <3> HAVE queuePpc = "link"
    <3>1. FreshRight(n, K) /\ n + 1 \in 1 .. MaxBlocks
      BY <1>6, <1>10 DEF MemoryRight, FreshRight
    <3>2. blk'[n + 1] = blk[n + 1]
      BY <1>6, <2>1, <3>1
    <3> QED
      BY <1>1, <1>11, <3>1, <3>2 DEF FreshRight
  <2> QED
    BY <1>1, <1>7, <1>10, <2>1, <2>2 DEF MemoryRight
<1>21. ProducerRight(n, pos, num2, K)'
  <2>1. queuePpc \in {"advance", "nexttail", "publish"} => NextTailBlock \in 1 .. n /\ NextTailBlock # t
    <3> HAVE queuePpc \in {"advance", "nexttail", "publish"}
    <3>1. pos[NextTailBlock] = pos[tailBlock] + 1 /\ NextTailBlock \in 1 .. n
      BY <1>10, <1>11 DEF ProducerRight, NextTailBlock, CircleRight
    <3> QED
      BY <1>11, <3>1
  <2>2. Round(blk'[tailBlock]) = Round(blk[tailBlock]) /\ blk'[tailBlock].size = blk[tailBlock].size
        /\ (frontBlock # tailBlock => Filled(blk'[tailBlock]) = Filled(blk[tailBlock]))
    BY <1>2, <1>9, <1>11
  <2>3. received' \in 0 .. sent /\ sent - received' <= sent - received
    BY <1>1, <1>11, <1>14
  <2>4. queuePpc \notin {"idle", "walk"} /\ mode = "CannotAlloc" => room >= sent - received'
    BY <1>1, <1>10, <1>11 DEF ProducerRight
  <2>5. queuePpc \in {"nexttail", "publish"} => num2[NextTailBlock] = sent
    BY <1>10, <1>13, <2>1 DEF ProducerRight
  <2> QED
    BY <1>1, <1>10, <1>11, <2>2, <2>3, <2>4, <2>5 DEF ProducerRight
<1>22. ConsumerRight'
  BY <1>1, <1>10 DEF ConsumerRight, ConsumerPlaces
<1>23. WalkRight(n, pos, num2)'
  <2>1. walk.who # "consumer"
    BY <1>1, <1>10 DEF WalkRight, ConsumerWalk
  <2>2. walk.who = "producer" => ProducerWalk(n, pos, num2)'
    <3> HAVE walk.who = "producer"
    <3>1. /\ ProducerWalk(n, pos, num) /\ walk.at \in 0 .. n /\ walk.first \in 1 .. n /\ walk.result \in Int
          /\ walk.begin \in Int
      BY <1>10 DEF WalkRight
    <3>2. Ahead(n, pos, num) \in Int /\ Ahead(n, pos, num2)' \in Ahead(n, pos, num) - 1 .. Ahead(n, pos, num)
      <4>1. WalkFrom(n, pos)' = WalkFrom(n, pos) /\ WalkPos(n, pos)' = WalkPos(n, pos)
        BY <1>1 DEF WalkFrom, WalkPos
      <4>2. walk.at # 0 => num2[walk.at] \in num[walk.at] .. num[walk.at] + 1 /\ num[walk.at] \in Int
        BY <1>11, <1>13, <1>14, <3>1, SMTT(40)
      <4> QED
        BY <1>1, <1>11, <1>16, <4>1, <4>2 DEF Ahead
    <3> QED
      BY <1>1, <1>11, <1>16, <3>1, <3>2 DEF ProducerWalk
  <2> QED
    BY <1>1, <1>10, <2>1, <2>2 DEF WalkRight
<1>24. QueueWith(n, pos, num2, K)'
  BY <1>15, <1>17, <1>18, <1>19, <1>20, <1>21, <1>22, <1>23 DEF QueueWith
<1> QED
  BY <1>13, <1>24

(* The consumer leaves its block, which becomes the last of the next lap.  *)
LEMMA CircleTurned ==
  ASSUME NEW n, NEW pos, NEW pos2, CircleRight(n, pos), frontBlock # tailBlock, tailBlock' = tailBlock,
         frontBlock' = blk[frontBlock].next, pos[frontBlock'] = pos[frontBlock] + 1,
         pos2 \in [1 .. n -> Int], pos2[frontBlock] = pos[frontBlock] + n,
         \A b \in 1 .. n : b # frontBlock => pos2[b] = pos[b],
         \A b \in 1 .. n : blk'[b].next = blk[b].next
  PROVE  /\ CircleRight(n, pos2)'
         /\ (\A b \in 1 .. n : b # frontBlock => (Live(pos2, b)' <=> Live(pos, b)))
<1>a. PICK f : f = frontBlock
  OBVIOUS
<1>b. PICK m : m = frontBlock'
  OBVIOUS
<1>1. /\ n \in Nat /\ n <= MaxBlocks /\ f \in 1 .. n /\ tailBlock \in 1 .. n /\ pos \in [1 .. n -> Int]
      /\ \A b \in 1 .. n : pos[b] \in Int
      /\ \A a, b \in 1 .. n : pos[a] = pos[b] => a = b
      /\ \A b \in 1 .. n : pos[f] <= pos[b] /\ pos[b] < pos[f] + n
      /\ \A b \in 1 .. n : /\ blk[b].next \in 1 .. n
                           /\ pos[blk[b].next] = IF pos[b] = pos[f] + n - 1 THEN pos[f] ELSE pos[b] + 1
  BY <1>a DEF CircleRight
<1>2. PICK p \in Int : p = pos[f]
  BY <1>1
<1>3. pos2 \in [1 .. n -> Int] /\ pos2[f] = p + n /\ \A b \in 1 .. n : b # f => pos2[b] = pos[b]
  BY <1>a, <1>1, <1>2
<1>4. m \in 1 .. n /\ m # f /\ pos2[m] = p + 1 /\ m = blk[f].next
  <2>1. m = blk[f].next /\ pos[m] = p + 1
    BY <1>a, <1>b, <1>2
  <2>2. m \in 1 .. n /\ m # f
    BY <1>1, <1>2, <2>1, SMTT(40)
  <2> QED
    BY <1>3, <2>1, <2>2
<1>5. \A b \in 1 .. n : b # f => pos2[b] \in Int /\ p + 1 <= pos2[b] /\ pos2[b] < p + n
  <2> TAKE b \in 1 .. n
  <2> HAVE b # f
  <2>1. pos[b] \in Int /\ p <= pos[b] /\ pos[b] < p + n /\ pos[b] # p
    BY <1>1, <1>2
  <2> QED
    BY <1>3, <2>1
<1>6. \A a, b \in 1 .. n : pos2[a] = pos2[b] => a = b
  <2> TAKE a \in 1 .. n, b \in 1 .. n
  <2> HAVE pos2[a] = pos2[b]
  <2>4. p + n \in Int
    BY <1>1
  <2>1. CASE a = f /\ b # f
    <3>1. pos2[b] \in Int /\ pos2[b] < p + n /\ pos2[a] = p + n
      BY <1>3, <1>5, <2>1
    <3> QED
      BY <2>4, <3>1
  <2>2. CASE a # f /\ b = f
    <3>1. pos2[a] \in Int /\ pos2[a] < p + n /\ pos2[b] = p + n
      BY <1>3, <1>5, <2>2
    <3> QED
      BY <2>4, <3>1
  <2>3. CASE a # f /\ b # f
    BY <1>1, <1>3, <2>3
  <2> QED
    BY <2>1, <2>2, <2>3
<1>7. \A b \in 1 .. n : pos2[m] <= pos2[b] /\ pos2[b] < pos2[m] + n
  <2> TAKE b \in 1 .. n
  <2>1. n \in Int /\ n >= 1
    BY <1>1
  <2>2. CASE b = f
    BY <1>2, <1>3, <1>4, <2>1, <2>2
  <2>3. CASE b # f
    BY <1>2, <1>4, <1>5, <2>1, <2>3, SMTT(40)
  <2> QED
    BY <2>2, <2>3
<1>8. \A b \in 1 .. n : /\ blk'[b].next \in 1 .. n
                        /\ pos2[blk'[b].next] = IF pos2[b] = pos2[m] + n - 1 THEN pos2[m] ELSE pos2[b] + 1
  <2> TAKE b \in 1 .. n
  <2>1. PICK c \in 1 .. n : c = blk[b].next /\ c = blk'[b].next
    BY <1>1
  <2>2. pos[c] = IF pos[b] = p + n - 1 THEN p ELSE pos[b] + 1
    BY <1>1, <1>2, <2>1
  <2>3. pos2[c] = IF pos2[b] = pos2[m] + n - 1 THEN pos2[m] ELSE pos2[b] + 1
    <3>1. CASE b = f
      <4>1. c = m
        BY <1>4, <2>1, <3>1
      <4> QED
        BY <1>1, <1>2, <1>3, <1>4, <3>1, <4>1
    <3>2. CASE b # f /\ pos[b] = p + n - 1
      <4>1. c = f
        BY <1>1, <1>2, <2>2, <3>2
      <4>2. pos2[b] = p + n - 1 /\ pos2[c] = p + n /\ pos2[m] = p + 1 /\ n \in Int
        BY <1>1, <1>3, <1>4, <3>2, <4>1
      <4> QED
        BY <1>2, <4>2, SMTT(40)
    <3>3. CASE b # f /\ pos[b] # p + n - 1
      <4>1. pos[c] = pos[b] + 1 /\ pos[b] \in Int /\ p <= pos[b] /\ pos[b] < p + n /\ n \in Int
        BY <1>1, <1>2, <2>2, <3>3
      <4>2. pos[c] # p
        BY <1>2, <4>1
      <4>3. c # f
        BY <1>2, <4>2
      <4>4. pos2[c] = pos[b] + 1 /\ pos2[b] = pos[b]
        BY <1>3, <3>3, <4>1, <4>3
      <4> QED
        BY <1>2, <1>4, <4>1, <4>4
    <3> QED
      BY <3>1, <3>2, <3>3
  <2> QED
    BY <2>1, <2>3
<1>9. CircleRight(n, pos2)'
  BY <1>b, <1>1, <1>3, <1>4, <1>6, <1>7, <1>8 DEF CircleRight
<1>10. pos2[tailBlock'] = pos[tailBlock]
  BY <1>a, <1>1, <1>3
<1>11. ASSUME NEW b \in 1 .. n, b # frontBlock
       PROVE  Live(pos2, b)' <=> Live(pos, b)
  <2>1. pos2[b] = pos[b]
    BY <1>a, <1>3, <1>11
  <2> QED
    BY <1>10, <2>1 DEF Live
<1> QED
  BY <1>9, <1>11

(* A walk of the producer sees as much ahead of it as before.              *)
LEMMA WalkTurned ==
  ASSUME NEW n \in Nat, NEW p \in Int, NEW first \in Int, NEW first2 \in Int, NEW at \in Int, NEW at2 \in Int,
         NEW tail \in Int, p < tail, tail < p + n,
         p <= first, first < p + n, p <= at, at < p + n,
         first2 = IF first = p THEN p + n ELSE first, at2 = IF at = p THEN p + n ELSE at,
         first = p \/ first > tail,
         NEW w, w = IF first <= tail THEN first ELSE first - n,
         NEW w2, w2 = IF first2 <= tail THEN first2 ELSE first2 - n
  PROVE  /\ w2 = w
         /\ (IF at2 < w2 + n THEN at2 ELSE at2 - n) = (IF at < w + n THEN at ELSE at - n)
         /\ at = p => (IF at < w + n THEN at ELSE at - n) = p
         /\ at # p => ((IF at < w + n THEN at ELSE at - n) < p <=> (IF at < w + n THEN at ELSE at - n) < p + 1)
<1>1. w2 = w /\ w \in Int
  OBVIOUS
<1>2. at = p => p < w + n /\ ~(at2 < w + n)
  OBVIOUS
<1> QED
  BY <1>1, <1>2

(* The consumer moves on to the next block.                                *)
LEMMA NextBlockKeeps ==
  ASSUME NEW n, NEW pos, NEW num, NEW K, QueueWith(n, pos, num, K), Queue!NextBlock
  PROVE  \E pos2 \in [1 .. n -> Int] : QueueWith(n, pos2, num, K)'
<1>1. PICK f \in 1 .. n : f = frontBlock
  BY Positions
<1>2. PICK m : m = blk[f].next
  OBVIOUS
<1>3. /\ queueCpc = "advance" /\ queueCpc' = "take" /\ frontBlock' = m
      /\ blk' = [blk EXCEPT ![m].localTail = blk[m].tail]
      /\ UNCHANGED <<size, tailBlock, largestBlockSize, queuePpc, mode, sent, room, refused,
                     received, before, queuePeeked, walk>>
  BY <1>1, <1>2 DEF Queue!NextBlock, Queue!FB, Queue!producerVars
<1>4. /\ CircleRight(n, pos) /\ OrderRight(n, pos, num) /\ RoomRight(n, pos, num, K) /\ WalkRight(n, pos, num)
      /\ MemoryRight(n, K) /\ ProducerRight(n, pos, num, K) /\ ConsumerRight /\ BlocksRight(n, num)
  BY DEF QueueWith
<1>5. f # tailBlock /\ Filled(blk[f]) = 0 /\ Live(pos, f)
  BY <1>1, <1>3, <1>4, Positions DEF ConsumerRight
<1>6. /\ m \in 1 .. n /\ pos[m] = pos[f] + 1 /\ Live(pos, m) /\ m # f /\ num[m] = num[f] + Filled(blk[f])
  BY <1>1, <1>2, <1>5, NextLive
<1>7. /\ tailBlock \in 1 .. n /\ sent \in Nat /\ received \in Nat /\ num[f] = received /\ num[m] = received
      /\ \A b \in 1 .. n : pos[b] \in Int /\ num[b] \in Int /\ pos[f] <= pos[b] /\ pos[b] < pos[f] + n
      /\ \A b \in 1 .. n : pos[b] = pos[f] <=> b = f
  <2>1. /\ tailBlock \in 1 .. n /\ num[f] = received
        /\ \A b \in 1 .. n : pos[b] \in Int /\ num[b] \in Int /\ pos[f] <= pos[b] /\ pos[b] < pos[f] + n
        /\ \A b \in 1 .. n : pos[b] = pos[f] <=> b = f
    BY <1>1, Positions
  <2>2. sent \in Nat /\ received \in Nat
    BY <1>4 DEF ProducerRight
  <2> QED
    BY <1>5, <1>6, <2>1, <2>2
<1>8. \A b : Taken(b) = 0 /\ Taken(b)' = 0
  BY <1>3 DEF Taken
<1>9. PICK B : B = blk[m]
  OBVIOUS
<1>10. PICK C : C = blk'[m]
  OBVIOUS
<1>11. /\ BlockRight(B, num[m], Extra(m), 0) /\ num[m] \in Int /\ Extra(m) \in 0 .. 1
       /\ B.size \in Nat /\ m \in 1 .. MaxBlocks /\ n <= MaxBlocks /\ n \in Nat /\ MaxBlocks \in Nat
       /\ Filled(B) >= 1 /\ B.front # B.tail
  <2>1. BlockRight(blk[m], num[m], Extra(m), Taken(m)) /\ Taken(m) = 0 /\ m \in 1 .. n
    BY <1>6, <1>8, BlockFacts
  <2>2. Filled(B) >= 1
    BY <1>1, <1>4, <1>6, <1>9 DEF OrderRight
  <2>3. Filled(B) = 0 <=> B.front = B.tail
    BY <1>6, <1>9, BlockFacts
  <2>4. B.front # B.tail
    BY <2>2, <2>3
  <2> QED
    BY <1>6, <1>9, <2>1, <2>2, <2>4, BlockFacts
<1>12. /\ C = [B EXCEPT !.localTail = B.tail] /\ \A b \in 1 .. MaxBlocks : b # m => blk'[b] = blk[b]
       /\ blk' = [b \in 1 .. MaxBlocks |-> blk'[b]]
  <2>1. blk = [b \in 1 .. MaxBlocks |-> blk[b]]
    BY <1>4 DEF MemoryRight
  <2> QED
    BY <1>3, <1>9, <1>10, <1>11, <2>1
<1>13. /\ BlockRight(C, num[m], Extra(m), 0) /\ Filled(C) = Filled(B) /\ C.next = B.next /\ C.size = B.size
       /\ C.front = B.front /\ C.tail = B.tail /\ C.localTail = B.tail /\ Round(C) = Round(B)
  BY <1>11, <1>12, LocalTailReloaded
<1>14. \A b \in 1 .. n : /\ blk'[b].next = blk[b].next /\ blk'[b].size = blk[b].size
                         /\ Filled(blk'[b]) = Filled(blk[b]) /\ Round(blk'[b]) = Round(blk[b])
                         /\ (b # m => blk'[b] = blk[b])
  <2> TAKE b \in 1 .. n
  <2>1. CASE b = m
    BY <1>9, <1>10, <1>13, <2>1
  <2>2. CASE b # m
    <3>1. blk'[b] = blk[b]
      BY <1>11, <1>12, <2>2
    <3> QED
      BY <2>2, <3>1
  <2> QED
    BY <2>1, <2>2
<1>15. \A b \in 1 .. n : blk'[b].next = blk[b].next
  BY <1>14
<1>16. NextTailBlock' = NextTailBlock
  BY <1>3, <1>7, <1>15 DEF NextTailBlock
<1>17. PICK pos2 : pos2 = [pos EXCEPT ![f] = pos[f] + n]
  OBVIOUS
<1>18. /\ CircleRight(n, pos2)' /\ pos2 \in [1 .. n -> Int] /\ (\A b \in 1 .. n : b # f => pos2[b] = pos[b])
       /\ pos2[f] = pos[f] + n /\ ~Live(pos2, f)' /\ (\A b \in 1 .. n : b # f => (Live(pos2, b)' <=> Live(pos, b)))
  <2>1. pos2 \in [1 .. n -> Int] /\ pos2[f] = pos[f] + n /\ \A b \in 1 .. n : b # f => pos2[b] = pos[b]
    <3>1. pos \in [1 .. n -> Int] /\ pos[f] + n \in Int
      BY <1>4, <1>7, <1>11, SMTT(40) DEF CircleRight
    <3> QED
      BY <1>17, <3>1
  <2>2. frontBlock # tailBlock /\ tailBlock' = tailBlock /\ frontBlock' = blk[frontBlock].next
        /\ pos[frontBlock'] = pos[frontBlock] + 1
    BY <1>1, <1>2, <1>3, <1>5, <1>6
  <2>3. /\ CircleRight(n, pos2)'
        /\ (\A b \in 1 .. n : b # frontBlock => (Live(pos2, b)' <=> Live(pos, b)))
    <3>1. pos2[frontBlock] = pos[frontBlock] + n /\ \A b \in 1 .. n : b # frontBlock => pos2[b] = pos[b]
      BY <1>1, <2>1
    <3> QED
      BY <1>4, <1>15, <2>1, <2>2, <3>1, CircleTurned
  <2>4. ~Live(pos2, f)'
    <3>1. pos2[tailBlock'] = pos[tailBlock] /\ pos[tailBlock] < pos2[f] /\ pos[tailBlock] \in Int /\ pos2[f] \in Int
      BY <1>3, <1>5, <1>7, <1>11, <2>1
    <3> QED
      BY <3>1 DEF Live
  <2> QED
    BY <1>1, <2>1, <2>3, <2>4
<1>19. ASSUME NEW b \in 1 .. n, Live(pos2, b)'
       PROVE  b # f /\ Live(pos, b) /\ pos2[b] = pos[b]
  BY <1>18, <1>19
<1>20. queuePpc \in {"advance", "nexttail", "publish"} =>
          NextTailBlock \in 1 .. n /\ NextTailBlock # f /\ pos2[NextTailBlock] = pos2[tailBlock] + 1
  <2> HAVE queuePpc \in {"advance", "nexttail", "publish"}
  <2>1. pos[NextTailBlock] = pos[tailBlock] + 1 /\ NextTailBlock \in 1 .. n
    BY <1>4, <1>7 DEF ProducerRight, NextTailBlock, CircleRight
  <2>2. NextTailBlock # f
    BY <1>7, <2>1
  <2> QED
    BY <1>5, <1>7, <1>18, <2>1, <2>2
<1>21. BlocksRight(n, num)'
  <2>1. \A b : Extra(b)' = Extra(b)
    BY <1>3, <1>16 DEF Extra, InPlace
  <2>2. BlockRight(blk'[m], num[m], Extra(m)', Taken(m)')
    BY <1>8, <1>10, <1>13, <2>1
  <2>3. \A b \in 1 .. n : b # m => /\ blk'[b] = blk[b] /\ num[b] = num[b]
                                   /\ Extra(b)' = Extra(b) /\ Taken(b)' = Taken(b)
    BY <1>8, <1>14, <2>1
  <2> QED
    BY <1>4, <2>2, <2>3, OneBlock
<1>22. OrderRight(n, pos2, num)'
  <2>1. num[m] = received /\ num[tailBlock] + Filled(blk'[tailBlock]) = sent
    BY <1>7, <1>14, Positions
  <2>2. \A b \in 1 .. n : Live(pos2, b)' /\ b # tailBlock => num[blk'[b].next] = num[b] + Filled(blk'[b])
    <3> TAKE b \in 1 .. n
    <3> HAVE Live(pos2, b)' /\ b # tailBlock
    <3>1. num[blk[b].next] = num[b] + Filled(blk[b])
      BY <1>19, NextLive
    <3> QED
      BY <1>14, <3>1
  <2>3. \A b \in 1 .. n : Live(pos2, b)' /\ b # m => Filled(blk'[b]) >= 1
    <3> TAKE b \in 1 .. n
    <3> HAVE Live(pos2, b)' /\ b # m
    <3>1. Filled(blk[b]) >= 1
      BY <1>1, <1>4, <1>19 DEF OrderRight
    <3> QED
      BY <1>14, <3>1
  <2>4. \A b \in 1 .. n : Live(pos2, b)' /\ b # m /\ b # tailBlock => Filled(blk'[b]) = blk'[b].size - 1
    <3> TAKE b \in 1 .. n
    <3> HAVE Live(pos2, b)' /\ b # m /\ b # tailBlock
    <3>1. Filled(blk[b]) = blk[b].size - 1
      BY <1>1, <1>4, <1>19 DEF OrderRight
    <3> QED
      BY <1>14, <3>1
  <2>5. \A b \in 1 .. n : ~Live(pos2, b)' => Filled(blk'[b]) = IF queuePpc = "publish" /\ b = NextTailBlock THEN 1 ELSE 0
    <3> TAKE b \in 1 .. n
    <3> HAVE ~Live(pos2, b)'
    <3>1. CASE b = f
      BY <1>5, <1>14, <1>20, <3>1
    <3>2. CASE b # f
      <4>1. ~Live(pos, b)
        BY <1>18, <3>2
      <4> QED
        BY <1>4, <1>14, <4>1 DEF OrderRight
    <3> QED
      BY <3>1, <3>2
  <2> QED
    BY <1>3, <1>4, <1>16, <2>1, <2>2, <2>3, <2>4, <2>5 DEF OrderRight
<1>23. RoomRight(n, pos2, num, K)'
  <2>1. \A a, b \in 1 .. n : Live(pos2, b)' /\ a # m /\ pos2[a] <= pos2[b]
                                   => num[b] - num[a] >= (pos2[b] - pos2[a]) * K
    <3> TAKE a \in 1 .. n, b \in 1 .. n
    <3> HAVE Live(pos2, b)' /\ a # m /\ pos2[a] <= pos2[b]
    <3>1. b # f /\ Live(pos, b) /\ pos2[b] = pos[b]
      BY <1>19
    <3>2. pos[b] < pos[f] + n /\ pos[b] \in Int /\ pos[f] \in Int /\ n \in Int
      BY <1>7, <1>11
    <3>3. a # f
      BY <1>18, <3>1, <3>2
    <3> QED
      BY <1>1, <1>4, <1>18, <3>1, <3>3 DEF RoomRight
  <2>2. \A b \in 1 .. n : blk'[b].size > K
    BY <1>4, <1>14 DEF RoomRight
  <2> QED
    BY <1>3, <1>4, <2>1, <2>2 DEF RoomRight
<1>24. MemoryRight(n, K)'
  <2>1. \A b \in 1 .. MaxBlocks : b > n => blk'[b] = blk[b]
    BY <1>6, <1>11, <1>12
  <2>2. queuePpc = "link" => FreshRight(n, K)'
    <3> HAVE queuePpc = "link"
    <3>1. FreshRight(n, K) /\ n + 1 \in 1 .. MaxBlocks
      BY <1>4, <1>11 DEF MemoryRight, FreshRight
    <3>2. blk'[n + 1] = blk[n + 1]
      BY <1>11, <2>1, <3>1
    <3> QED
      BY <1>3, <1>16, <3>1, <3>2 DEF FreshRight
  <2> QED
    BY <1>3, <1>4, <1>12, <2>1, <2>2 DEF MemoryRight
<1>25. ProducerRight(n, pos2, num, K)'
  <2>1. /\ Round(blk'[tailBlock]) = Round(blk[tailBlock]) /\ Filled(blk'[tailBlock]) = Filled(blk[tailBlock])
        /\ blk'[tailBlock].size = blk[tailBlock].size
    BY <1>7, <1>14
  <2>2. queuePpc \in Leaving => Filled(blk[tailBlock]) = blk[tailBlock].size - 1
    BY <1>1, <1>4, <1>5 DEF ProducerRight
  <2> QED
    BY <1>3, <1>4, <1>16, <1>20, <2>1, <2>2 DEF ProducerRight
<1>26. ConsumerRight'
  <2>1. blk'[m].front # blk'[m].localTail
    BY <1>10, <1>11, <1>13
  <2> QED
    BY <1>3, <1>4, <2>1 DEF ConsumerRight, ConsumerPlaces
<1>27. WalkRight(n, pos2, num)'
  <2>1. walk.who # "consumer"
    BY <1>3, <1>4 DEF WalkRight, ConsumerWalk
  <2>2. walk.who = "producer" => ProducerWalk(n, pos2, num)'
    <3> HAVE walk.who = "producer"
    <3>1. /\ ProducerWalk(n, pos, num) /\ walk.at \in 0 .. n /\ walk.first \in 1 .. n /\ walk.result \in Int
          /\ walk.begin \in Int /\ (walk.first = f \/ ~Live(pos, walk.first))
      BY <1>1, <1>4 DEF WalkRight, ProducerWalk
    <3>2. ~Live(pos2, walk.first)'
      <4>1. PICK b \in 1 .. n : b = walk.first
        BY <3>1
      <4>2. ~Live(pos2, b)'
        BY <1>18, <3>1, <4>1
      <4> QED
        BY <1>3, <4>1, <4>2 DEF Live
    <3>3. Ahead(n, pos2, num)' = Ahead(n, pos, num)
      <4>1. CASE walk.at = 0
        BY <1>3, <4>1 DEF Ahead
      <4>2. CASE walk.at # 0
        <5>1. PICK a \in 1 .. n : a = walk.at
          BY <3>1, <4>2
        <5>2. PICK b \in 1 .. n : b = walk.first
          BY <3>1
        <5>3. /\ n \in Nat /\ pos[f] \in Int /\ pos[a] \in Int /\ pos[b] \in Int /\ pos2[a] \in Int /\ pos2[b] \in Int
              /\ pos[f] <= pos[a] /\ pos[a] < pos[f] + n /\ pos[f] <= pos[b] /\ pos[b] < pos[f] + n
              /\ pos[tailBlock] \in Int /\ pos[f] < pos[tailBlock] /\ pos[tailBlock] < pos[f] + n
          BY <1>5, <1>7, <1>11, <1>18, SMTT(40)
        <5>4. /\ pos2[a] = (IF pos[a] = pos[f] THEN pos[f] + n ELSE pos[a])
              /\ pos2[b] = (IF pos[b] = pos[f] THEN pos[f] + n ELSE pos[b])
          BY <1>7, <1>18
        <5>5. pos[b] = pos[f] \/ pos[b] > pos[tailBlock]
          BY <3>1, <5>2, <5>3 DEF Live
        <5>6. PICK w : w = WalkFrom(n, pos)
          OBVIOUS
        <5>7. PICK w2 : w2 = WalkFrom(n, pos2)'
          OBVIOUS
        <5>8. w = (IF pos[b] <= pos[tailBlock] THEN pos[b] ELSE pos[b] - n)
          BY <5>2, <5>6 DEF WalkFrom
        <5>9. w2 = (IF pos2[b] <= pos[tailBlock] THEN pos2[b] ELSE pos2[b] - n)
          <6>1. pos2[tailBlock'] = pos[tailBlock]
            BY <1>3, <1>5, <1>7, <1>18
          <6> QED
            BY <1>3, <5>2, <5>7, <6>1 DEF WalkFrom
        <5>10. /\ WalkPos(n, pos) = (IF pos[a] < w + n THEN pos[a] ELSE pos[a] - n)
               /\ WalkPos(n, pos2)' = (IF pos2[a] < w2 + n THEN pos2[a] ELSE pos2[a] - n)
          BY <1>3, <5>1, <5>6, <5>7 DEF WalkPos
        <5>11. /\ (IF pos2[a] < w2 + n THEN pos2[a] ELSE pos2[a] - n) = (IF pos[a] < w + n THEN pos[a] ELSE pos[a] - n)
               /\ (pos[a] = pos[f] => (IF pos[a] < w + n THEN pos[a] ELSE pos[a] - n) = pos[f])
               /\ (pos[a] # pos[f] => ((IF pos[a] < w + n THEN pos[a] ELSE pos[a] - n) < pos[f] <=>
                                       (IF pos[a] < w + n THEN pos[a] ELSE pos[a] - n) < pos[f] + 1))
          BY <5>3, <5>4, <5>5, <5>8, <5>9, WalkTurned
        <5>12. PICK x : x = WalkPos(n, pos)
          OBVIOUS
        <5>13. /\ WalkPos(n, pos2)' = x /\ (a = f => x = pos[f]) /\ (a # f => (x < pos[f] <=> x < pos[f] + 1))
          BY <1>7, <5>10, <5>11, <5>12
        <5>14. pos2[frontBlock'] = pos[f] + 1
          BY <1>3, <1>6, <1>18
        <5>15. walk'.at = a
          BY <1>3, <5>1
        <5>16. Ahead(n, pos2, num)' = IF x < pos[f] + 1 THEN sent - received ELSE IF Live(pos2, a)' THEN sent - num[a] ELSE 0
          BY <1>3, <4>2, <5>1, <5>13, <5>14, <5>15 DEF Ahead, Live
        <5>17. Ahead(n, pos, num) = IF x < pos[f] THEN sent - received ELSE IF Live(pos, a) THEN sent - num[a] ELSE 0
          BY <1>1, <4>2, <5>1, <5>12 DEF Ahead
        <5>18. CASE a = f
          <6>1. x < pos[f] + 1 /\ ~(x < pos[f])
            BY <5>3, <5>13, <5>18
          <6> QED
            BY <1>5, <1>7, <5>16, <5>17, <5>18, <6>1
        <5>19. CASE a # f
          <6>1. (Live(pos2, a)' <=> Live(pos, a)) /\ (x < pos[f] <=> x < pos[f] + 1)
            BY <1>18, <5>13, <5>19
          <6>2. CASE x < pos[f]
            BY <5>16, <5>17, <6>1, <6>2
          <6>3. CASE ~(x < pos[f]) /\ Live(pos, a)
            BY <5>16, <5>17, <6>1, <6>3
          <6>4. CASE ~(x < pos[f]) /\ ~Live(pos, a)
            BY <5>16, <5>17, <6>1, <6>4
          <6> QED
            BY <6>2, <6>3, <6>4
        <5> QED
          BY <5>18, <5>19
      <4> QED
        BY <4>1, <4>2
    <3> QED
      BY <1>3, <3>1, <3>2, <3>3 DEF ProducerWalk
  <2> QED
    BY <1>3, <1>4, <2>1, <2>2 DEF WalkRight
<1>28. QueueWith(n, pos2, num, K)'
  BY <1>18, <1>21, <1>22, <1>23, <1>24, <1>25, <1>26, <1>27 DEF QueueWith
<1> QED
  BY <1>18, <1>28

(* A walk of either thread comes to a block and goes on to the next one:   *)
(* pa and pc are their positions, x and y where they lie on this walk.     *)
LEMMA WalkNumbers ==
  ASSUME NEW n \in Nat, NEW p \in Int, NEW w \in Int, w <= p, p < w + n,
         NEW pa \in Int, p <= pa, pa < p + n,
         NEW pc \in Int, pc = IF pa = p + n - 1 THEN p ELSE pa + 1,
         NEW x, x = IF pa < w + n THEN pa ELSE pa - n,
         NEW y, y = IF pc < w + n THEN pc ELSE pc - n
  PROVE  /\ x \in Int /\ y \in Int /\ x >= w /\ x < w + n
         /\ x >= p => x = pa
         /\ x < p => pa >= w + n
         /\ x # w + n - 1 => y = x + 1
         /\ x = w + n - 1 => y = w
         /\ y >= p => y = pc
         /\ x < p => y = x + 1
<1>1. CASE pa < w + n
  <2>1. x = pa
    BY <1>1
  <2>2. CASE pa = p + n - 1
    BY <2>1, <2>2
  <2>3. CASE pa # p + n - 1
    <3>1. pc = pa + 1
      BY <2>3
    <3> QED
      BY <1>1, <2>1, <3>1
  <2> QED
    BY <2>2, <2>3
<1>2. CASE pa >= w + n
  <2>1. x = pa - n
    BY <1>2
  <2>2. CASE pa = p + n - 1
    BY <1>2, <2>1, <2>2
  <2>3. CASE pa # p + n - 1
    <3>1. pc = pa + 1 /\ y = pc - n
      BY <1>2, <2>3
    <3> QED
      BY <1>2, <2>1, <3>1
  <2> QED
    BY <2>2, <2>3
<1> QED
  BY <1>1, <1>2

(* Where a walk is, and where it goes.                                     *)
LEMMA WalkNext ==
  ASSUME NEW n, NEW pos, NEW num, NEW K, QueueWith(n, pos, num, K),
         NEW first \in 1 .. n, first = walk.first, first = frontBlock \/ ~Live(pos, first),
         NEW a \in 1 .. n, a = walk.at, NEW w, w = WalkFrom(n, pos), NEW x, x = WalkPos(n, pos),
         NEW c, c = blk[a].next, NEW y, y = IF pos[c] < w + n THEN pos[c] ELSE pos[c] - n
  PROVE  /\ c \in 1 .. n /\ x \in Int /\ y \in Int /\ pos[frontBlock] \in Int
         /\ x >= pos[frontBlock] => x = pos[a]
         /\ x < pos[frontBlock] => ~Live(pos, a) /\ c # first /\ y = x + 1
         /\ c # first => y = x + 1
         /\ y >= pos[frontBlock] => y = pos[c]
<1>1. PICK p \in Int : p = pos[frontBlock]
  BY Positions
<1>2. /\ n \in Nat /\ c \in 1 .. n /\ pos[c] \in Int /\ pos[a] \in Int /\ pos[first] \in Int /\ pos[tailBlock] \in Int
      /\ p <= pos[a] /\ pos[a] < p + n /\ p <= pos[first] /\ pos[first] < p + n /\ p <= pos[tailBlock]
      /\ pos[c] = (IF pos[a] = p + n - 1 THEN p ELSE pos[a] + 1) /\ p <= pos[c] /\ pos[c] < p + n
      /\ (pos[c] = pos[first] => c = first) /\ (first = frontBlock => pos[first] = p)
  <2>1. c \in 1 .. n /\ pos[c] = IF pos[a] = p + n - 1 THEN p ELSE pos[a] + 1
    BY <1>1 DEF QueueWith, CircleRight
  <2>2. pos[c] = pos[first] => c = first
    BY <2>1 DEF QueueWith, CircleRight
  <2>3. tailBlock \in 1 .. n
    BY Positions
  <2> QED
    BY <1>1, <2>1, <2>2, <2>3, Positions
<1>3. w = (IF pos[first] <= pos[tailBlock] THEN pos[first] ELSE pos[first] - n)
  BY DEF WalkFrom
<1>4. pos[first] = p \/ pos[first] > pos[tailBlock]
  <2>1. CASE first = frontBlock
    BY <1>2, <2>1
  <2>2. CASE ~Live(pos, first)
    BY <1>2, <2>2 DEF Live
  <2> QED
    BY <2>1, <2>2
<1>5. w \in Int /\ w <= p /\ p < w + n /\ (pos[first] = w \/ pos[first] = w + n)
      /\ (w < p => w + n = pos[first] /\ pos[first] > pos[tailBlock])
  BY <1>2, <1>3, <1>4
<1>6. x = (IF pos[a] < w + n THEN pos[a] ELSE pos[a] - n)
  BY DEF WalkPos
<1>7. /\ x \in Int /\ y \in Int /\ x >= w /\ x < w + n
      /\ (x >= p => x = pos[a])
      /\ (x < p => pos[a] >= w + n)
      /\ (x # w + n - 1 => y = x + 1)
      /\ (x = w + n - 1 => y = w)
      /\ (y >= p => y = pos[c])
      /\ (x < p => y = x + 1)
  BY <1>2, <1>5, <1>6, WalkNumbers
<1>8. c # first => y # w
  <2> SUFFICES ASSUME y = w PROVE pos[c] = pos[first]
    BY <1>2
  <2>1. CASE w = p
    <3>1. pos[c] = p /\ p = pos[first]
      BY <1>2, <1>4, <1>5, <1>7, <2>1
    <3> QED
      BY <3>1
  <2>2. CASE w < p
    BY <1>2, <1>5, <2>2
  <2> QED
    BY <1>5, <2>1, <2>2
<1>9. c # first => y = x + 1
  BY <1>7, <1>8
<1>10. x < p => ~Live(pos, a) /\ c # first
  <2> HAVE x < p
  <2>1. w < p
    BY <1>5, <1>7
  <2>2. pos[a] >= pos[first] /\ pos[first] > pos[tailBlock]
    BY <1>5, <1>7, <2>1
  <2>3. ~Live(pos, a)
    BY <1>2, <2>2 DEF Live
  <2>4. pos[c] # pos[first]
    <3>1. y = x + 1 /\ y # w
      BY <1>5, <1>7
    <3> QED
      BY <1>2, <1>5, <2>1, <3>1
  <2> QED
    BY <2>3, <2>4
<1> QED
  BY <1>1, <1>2, <1>7, <1>9, <1>10

(* A step into or out of a walk, or of one, changes nothing else.          *)
LEMMA WalkMoves ==
  ASSUME NEW n, NEW pos, NEW num, NEW K, QueueWith(n, pos, num, K), UNCHANGED Queue!queueVars,
         UNCHANGED <<mode, sent, room, refused, received, before, queuePeeked>>,
         queuePpc' = queuePpc \/ (queuePpc \in {"idle", "walk"} /\ queuePpc' \in {"idle", "walk"}),
         queueCpc' = queueCpc \/ (queueCpc \in {"idle", "walk"} /\ queueCpc' \in {"idle", "walk"}),
         WalkRight(n, pos, num)'
  PROVE  QueueWith(n, pos, num, K)'
<1>1. UNCHANGED <<size, blk, frontBlock, tailBlock, largestBlockSize>>
  BY DEF Queue!queueVars
<1>2. /\ CircleRight(n, pos) /\ OrderRight(n, pos, num) /\ RoomRight(n, pos, num, K)
      /\ MemoryRight(n, K) /\ ProducerRight(n, pos, num, K) /\ ConsumerRight /\ BlocksRight(n, num)
  BY DEF QueueWith
<1>3. NextTailBlock' = NextTailBlock /\ (\A b : Live(pos, b)' <=> Live(pos, b))
      /\ (\A b : Extra(b)' = Extra(b)) /\ (\A b : Taken(b)' = Taken(b))
  BY <1>1 DEF NextTailBlock, Live, Extra, InPlace, Taken
<1>4. CircleRight(n, pos)' /\ OrderRight(n, pos, num)' /\ RoomRight(n, pos, num, K)'
  BY <1>1, <1>2, <1>3 DEF CircleRight, OrderRight, RoomRight
<1>5. BlocksRight(n, num)'
  BY <1>1, <1>2, <1>3 DEF BlocksRight
<1>6. MemoryRight(n, K)'
  BY <1>1, <1>2, <1>3 DEF MemoryRight, FreshRight
<1>7. ProducerRight(n, pos, num, K)'
  BY <1>1, <1>2, <1>3 DEF ProducerRight, ProducerPlaces, Leaving
<1>8. ConsumerRight'
  BY <1>1, <1>2, <1>3 DEF ConsumerRight, ConsumerPlaces
<1> QED
  BY <1>4, <1>5, <1>6, <1>7, <1>8 DEF QueueWith

(* size_approx() begins at the front block.                                *)
LEMMA WalkBeginKeeps ==
  ASSUME NEW n, NEW pos, NEW num, NEW K, QueueWith(n, pos, num, K),
         NEW t \in {"producer", "consumer"}, Queue!WalkBegin(t)
  PROVE  QueueWith(n, pos, num, K)'
<1>1. /\ walk = Queue!Idle
      /\ walk' = [who |-> t, first |-> frontBlock, at |-> frontBlock, result |-> 0, begin |-> sent - received]
      /\ (t = "producer" => queuePpc = "idle" /\ queuePpc' = "walk" /\ queueCpc' = queueCpc)
      /\ (t = "consumer" => queueCpc = "idle" /\ queueCpc' = "walk" /\ queuePpc' = queuePpc)
      /\ UNCHANGED Queue!queueVars /\ UNCHANGED <<mode, sent, room, refused, received, before, queuePeeked>>
  BY DEF Queue!WalkBegin
<1>2. UNCHANGED <<size, blk, frontBlock, tailBlock, largestBlockSize>>
  BY <1>1 DEF Queue!queueVars
<1>3. walk.who = "nobody" /\ queuePpc # "walk" /\ queueCpc # "walk"
  BY <1>1 DEF QueueWith, WalkRight, Queue!Idle
<1>4. /\ walk'.who = t /\ walk'.first = frontBlock /\ walk'.at = frontBlock /\ walk'.result = 0
      /\ walk'.begin = sent - received
  BY <1>1
<1>5. /\ n \in Nat /\ frontBlock \in 1 .. n /\ sent \in Nat /\ received \in Nat /\ num[frontBlock] = received
      /\ pos[frontBlock] \in Int /\ pos[tailBlock] \in Int /\ Live(pos, frontBlock)
  BY Positions DEF QueueWith, ProducerRight
<1>6. Ahead(n, pos, num)' = sent - received
  <2>1. WalkFrom(n, pos)' = pos[frontBlock]
    BY <1>2, <1>4, <1>5 DEF WalkFrom, Live
  <2>2. WalkPos(n, pos)' = pos[frontBlock] /\ n >= 1
    BY <1>2, <1>4, <1>5, <2>1 DEF WalkPos
  <2>3. frontBlock # 0 /\ ~(WalkPos(n, pos)' < pos[frontBlock]) /\ Live(pos, frontBlock)'
    BY <1>2, <1>5, <2>2 DEF Live
  <2> QED
    BY <1>1, <1>2, <1>4, <1>5, <2>3 DEF Ahead, Live
<1>7. WalkRight(n, pos, num)'
  <2>1. walk' = [who |-> walk'.who, first |-> walk'.first, at |-> walk'.at, result |-> walk'.result, begin |-> walk'.begin]
    BY <1>1
  <2>2. t # "nobody" /\ walk' # Queue!Idle
    BY <1>4 DEF Queue!Idle
  <2>3. t = "producer" => ProducerWalk(n, pos, num)'
    BY <1>1, <1>2, <1>3, <1>4, <1>5, <1>6 DEF ProducerWalk
  <2>4. t = "consumer" => ConsumerWalk(n, pos, num)'
    <3> HAVE t = "consumer"
    <3>1. walk'.at # 0 /\ Live(pos, walk.at)' /\ num[walk'.at] - received = 0
      BY <1>2, <1>4, <1>5 DEF Live
    <3> QED
      BY <1>1, <1>2, <1>3, <1>4, <1>5, <1>6, <3>1 DEF ConsumerWalk, Live
  <2>5. walk'.first \in 1 .. n /\ walk'.at \in 0 .. n /\ walk'.result \in Int /\ walk'.begin \in Int
    BY <1>4, <1>5
  <2> QED
    BY <1>4, <2>1, <2>2, <2>3, <2>4, <2>5 DEF WalkRight, Queue!Idle
<1> QED
  <2>1. /\ queuePpc' = queuePpc \/ (queuePpc \in {"idle", "walk"} /\ queuePpc' \in {"idle", "walk"})
        /\ queueCpc' = queueCpc \/ (queueCpc \in {"idle", "walk"} /\ queueCpc' \in {"idle", "walk"})
    BY <1>1
  <2> QED
    BY <1>1, <1>7, <2>1, WalkMoves

(* It ends.                                                                *)
LEMMA WalkEndKeeps ==
  ASSUME NEW n, NEW pos, NEW num, NEW K, QueueWith(n, pos, num, K), Queue!WalkEnd
  PROVE  QueueWith(n, pos, num, K)'
<1>1. /\ walk.who # "nobody" /\ walk' = Queue!Idle
      /\ (walk.who = "producer" => queuePpc' = "idle" /\ queueCpc' = queueCpc)
      /\ (walk.who # "producer" => queueCpc' = "idle" /\ queuePpc' = queuePpc)
      /\ UNCHANGED Queue!queueVars /\ UNCHANGED <<mode, sent, room, refused, received, before, queuePeeked>>
  BY DEF Queue!WalkEnd
<1>2. /\ (walk.who = "producer" => queuePpc = "walk" /\ queueCpc # "walk")
      /\ (walk.who # "producer" => queueCpc = "walk" /\ queuePpc # "walk")
  BY <1>1 DEF QueueWith, WalkRight, ProducerWalk, ConsumerWalk
<1>3. WalkRight(n, pos, num)'
  <2>1. walk'.who = "nobody"
    BY <1>1 DEF Queue!Idle
  <2>2. queuePpc' # "walk" /\ queueCpc' # "walk"
    BY <1>1, <1>2
  <2>3. walk' = [who |-> walk'.who, first |-> walk'.first, at |-> walk'.at, result |-> walk'.result, begin |-> walk'.begin]
    BY <1>1 DEF Queue!Idle
  <2>4. walk' = Queue!Idle'
    BY <1>1 DEF Queue!Idle
  <2> QED
    BY <2>1, <2>2, <2>3, <2>4 DEF WalkRight
<1> QED
  <2>1. /\ queuePpc' = queuePpc \/ (queuePpc \in {"idle", "walk"} /\ queuePpc' \in {"idle", "walk"})
        /\ queueCpc' = queueCpc \/ (queueCpc \in {"idle", "walk"} /\ queueCpc' \in {"idle", "walk"})
    BY <1>1, <1>2
  <2> QED
    BY <1>1, <1>3, <2>1, WalkMoves

(* It adds the elements of a block and goes on to the next one.            *)
LEMMA WalkStepKeeps ==
  ASSUME NEW n, NEW pos, NEW num, NEW K, QueueWith(n, pos, num, K), Queue!WalkStep
  PROVE  QueueWith(n, pos, num, K)'
<1>1. /\ walk.who # "nobody" /\ walk.at # 0 /\ UNCHANGED Queue!queueVars
      /\ UNCHANGED <<queuePpc, queueCpc, mode, sent, room, refused, received, before, queuePeeked>>
      /\ walk' = [walk EXCEPT !.result = @ + ((blk[walk.at].tail - blk[walk.at].front) % blk[walk.at].size),
                              !.at = IF blk[@].next = walk.first THEN 0 ELSE blk[@].next]
  <2>1. /\ walk.who # "nobody" /\ walk.at # Queue!Null /\ UNCHANGED Queue!queueVars
        /\ UNCHANGED Queue!producerVars /\ UNCHANGED Queue!consumerVars
        /\ walk' = [walk EXCEPT !.result = @ + Queue!Held(walk.at),
                                !.at = IF blk[@].next = walk.first THEN Queue!Null ELSE blk[@].next]
    BY DEF Queue!WalkStep
  <2>2. UNCHANGED <<queuePpc, queueCpc, mode, sent, room, refused, received, before, queuePeeked>>
    BY <2>1 DEF Queue!producerVars, Queue!consumerVars
  <2>3. Queue!Held(walk.at) = (blk[walk.at].tail - blk[walk.at].front) % blk[walk.at].size /\ Queue!Null = 0
    BY DEF Queue!Held, Queue!Null
  <2> QED
    BY <2>1, <2>2, <2>3
<1>2. UNCHANGED <<size, blk, frontBlock, tailBlock, largestBlockSize>>
  BY <1>1 DEF Queue!queueVars
<1>3. /\ CircleRight(n, pos) /\ OrderRight(n, pos, num) /\ WalkRight(n, pos, num) /\ ProducerRight(n, pos, num, K)
  BY DEF QueueWith
<1>4. /\ walk = [who |-> walk.who, first |-> walk.first, at |-> walk.at, result |-> walk.result, begin |-> walk.begin]
      /\ walk.who \in {"producer", "consumer"} /\ walk.first \in 1 .. n /\ walk.at \in 1 .. n
      /\ walk.result \in Int /\ walk.begin \in Int
      /\ walk.first = frontBlock \/ ~Live(pos, walk.first)
  <2>1. /\ walk = [who |-> walk.who, first |-> walk.first, at |-> walk.at, result |-> walk.result, begin |-> walk.begin]
        /\ walk.who \in {"producer", "consumer"} /\ walk.first \in 1 .. n /\ walk.at \in 0 .. n
        /\ walk.result \in Int /\ walk.begin \in Int
    BY <1>1, <1>3 DEF WalkRight
  <2>2. walk.first = frontBlock \/ ~Live(pos, walk.first)
    BY <1>3, <2>1 DEF WalkRight, ProducerWalk, ConsumerWalk
  <2>3. n \in Nat
    BY Positions
  <2> QED
    BY <1>1, <2>1, <2>2, <2>3
<1>5. PICK first \in 1 .. n : first = walk.first
  BY <1>4
<1>6. PICK a \in 1 .. n : a = walk.at
  BY <1>4
<1>7. PICK c : c = blk[a].next
  OBVIOUS
<1>8. PICK w : w = WalkFrom(n, pos)
  OBVIOUS
<1>9. PICK x : x = WalkPos(n, pos)
  OBVIOUS
<1>10. PICK y : y = IF pos[c] < w + n THEN pos[c] ELSE pos[c] - n
  OBVIOUS
<1>11. PICK p : p = pos[frontBlock]
  OBVIOUS
<1>12. /\ c \in 1 .. n /\ x \in Int /\ y \in Int /\ p \in Int
       /\ (x >= p => x = pos[a])
       /\ (x < p => ~Live(pos, a) /\ c # first /\ y = x + 1)
       /\ (c # first => y = x + 1)
       /\ (y >= p => y = pos[c])
  <2>1. first = frontBlock \/ ~Live(pos, first)
    BY <1>4, <1>5
  <2> QED
    BY <1>5, <1>6, <1>7, <1>8, <1>9, <1>10, <1>11, <2>1, WalkNext
<1>13. /\ sent \in Nat /\ received \in Nat /\ n \in Nat /\ frontBlock \in 1 .. n /\ tailBlock \in 1 .. n
       /\ \A b \in 1 .. n : pos[b] \in Int /\ num[b] \in Int
       /\ \A b \in 1 .. n : pos[b] = p <=> b = frontBlock
       /\ \A b \in 1 .. n : pos[b] = pos[tailBlock] <=> b = tailBlock
       /\ num[frontBlock] = received /\ num[tailBlock] + Filled(blk[tailBlock]) = sent
       /\ Live(pos, frontBlock)
  BY <1>3, <1>11, Positions DEF ProducerRight
<1>14. PICK k \in Int : k = Filled(blk[a]) /\ k >= 0
  BY BlockFacts
<1>15. PICK d : d = IF c = first THEN 0 ELSE c
  OBVIOUS
<1>16. /\ walk' = [who |-> walk.who, first |-> walk.first, at |-> d, result |-> walk.result + k, begin |-> walk.begin]
       /\ walk'.who = walk.who /\ walk'.first = first /\ walk'.at = d /\ walk'.result = walk.result + k
       /\ walk'.begin = walk.begin
  <2>1. (blk[a].tail - blk[a].front) % blk[a].size = k
    <3>1. blk[a].size \in Nat /\ blk[a].size >= 2 /\ Indices(blk[a])
      BY BlockFacts
    <3>2. blk[a].size >= 1
      BY <3>1
    <3> QED
      BY <1>14, <3>1, <3>2, ModIsGap DEF Indices, Filled
  <2>2. walk' = [walk EXCEPT !.result = walk.result + k, !.at = d]
    <3>1. walk' = [walk EXCEPT !.result = @ + k, !.at = IF blk[@].next = walk.first THEN 0 ELSE blk[@].next]
      BY <1>1, <1>6, <2>1
    <3>2. d = IF blk[walk.at].next = walk.first THEN 0 ELSE blk[walk.at].next
      BY <1>5, <1>6, <1>7, <1>15
    <3> QED
      BY <1>4, <3>1, <3>2
  <2> QED
    BY <1>4, <1>5, <2>2
<1>17. c # first => WalkPos(n, pos)' = y /\ WalkFrom(n, pos)' = w
  BY <1>2, <1>5, <1>8, <1>10, <1>15, <1>16 DEF WalkPos, WalkFrom
<1>18. Ahead(n, pos, num) = IF x < p THEN sent - received ELSE IF Live(pos, a) THEN sent - num[a] ELSE 0
  BY <1>1, <1>6, <1>9, <1>11 DEF Ahead
<1>19. /\ c = first => Ahead(n, pos, num)' = 0
       /\ c # first => Ahead(n, pos, num)' = IF y < p THEN sent - received ELSE IF Live(pos, c) THEN sent - num[c] ELSE 0
  <2>1. CASE c = first
    BY <1>15, <1>16, <2>1 DEF Ahead
  <2>2. CASE c # first
    <3>1. walk'.at = c /\ c # 0
      BY <1>12, <1>15, <1>16, <2>2
    <3>2. Live(pos, walk.at)' <=> Live(pos, c)
      BY <1>2, <3>1 DEF Live
    <3> QED
      BY <1>1, <1>2, <1>11, <1>17, <2>2, <3>1, <3>2 DEF Ahead
  <2> QED
    BY <2>1, <2>2
<1>20. ASSUME x >= p, Live(pos, a), a # tailBlock
       PROVE  /\ c # first /\ Live(pos, c) /\ num[c] = num[a] + k
              /\ Ahead(n, pos, num) = k + Ahead(n, pos, num)'
  <2>1. Live(pos, c) /\ c # frontBlock /\ num[c] = num[a] + k /\ pos[c] = pos[a] + 1
    BY <1>7, <1>14, <1>20, NextLive
  <2>2. c # first
    BY <1>4, <1>5, <2>1
  <2>3. y >= p
    BY <1>12, <1>20, <2>2
  <2> QED
    BY <1>12, <1>13, <1>14, <1>18, <1>19, <1>20, <2>1, <2>2, <2>3
<1>21. ASSUME x >= p, c # first, ~Live(pos, a) \/ a = tailBlock
       PROVE  ~Live(pos, c) /\ y >= p /\ pos[c] = pos[a] + 1
  <2>1. y = x + 1 /\ x = pos[a] /\ y = pos[c] /\ y >= p
    BY <1>12, <1>21
  <2>2. pos[a] >= pos[tailBlock] /\ pos[a] \in Int /\ pos[tailBlock] \in Int
    BY <1>13, <1>21 DEF Live
  <2> QED
    BY <2>1, <2>2 DEF Live
<1>22. ASSUME x >= p, a = tailBlock
       PROVE  Ahead(n, pos, num)' = 0 /\ Ahead(n, pos, num) = k /\ num[a] + k = sent
              /\ (c # first => ~Live(pos, c))
  <2>1. num[a] + k = sent /\ Live(pos, a)
    BY <1>13, <1>14, <1>22 DEF Live
  <2>2. Ahead(n, pos, num) = k
    BY <1>12, <1>13, <1>18, <1>22, <2>1
  <2>3. c # first => ~Live(pos, c) /\ y >= p
    BY <1>21, <1>22
  <2> QED
    BY <1>12, <1>19, <2>1, <2>2, <2>3
<1>23. ASSUME x >= p, ~Live(pos, a)
       PROVE  Ahead(n, pos, num)' = 0 /\ Ahead(n, pos, num) = 0 /\ (c # first => ~Live(pos, c))
  <2>1. Ahead(n, pos, num) = 0
    BY <1>12, <1>18, <1>23
  <2>2. c # first => ~Live(pos, c) /\ y >= p
    BY <1>21, <1>23
  <2> QED
    BY <1>12, <1>19, <2>1, <2>2
<1>24. x < p => Ahead(n, pos, num)' = Ahead(n, pos, num) /\ ~Live(pos, a)
  <2> HAVE x < p
  <2>1. c # first /\ y = x + 1 /\ Ahead(n, pos, num) = sent - received
    BY <1>12, <1>18
  <2>2. CASE y < p
    BY <1>12, <1>19, <2>1, <2>2
  <2>3. CASE y >= p
    <3>1. y = p /\ pos[c] = p
      BY <1>12, <2>1, <2>3
    <3>2. c = frontBlock
      BY <1>12, <1>13, <3>1
    <3> QED
      BY <1>12, <1>13, <1>19, <2>1, <2>3, <3>2
  <2> QED
    BY <1>12, <2>1, <2>2, <2>3
<1>25. ~Live(pos, a) => k = IF queuePpc = "publish" /\ a = NextTailBlock THEN 1 ELSE 0
  BY <1>3, <1>14 DEF OrderRight
<1>26. Ahead(n, pos, num) \in Int /\ Ahead(n, pos, num)' \in Int
  BY <1>12, <1>13, <1>18, <1>19
<1>27. Ahead(n, pos, num) <= k + Ahead(n, pos, num)'
       /\ (queuePpc = "walk" => Ahead(n, pos, num) = k + Ahead(n, pos, num)')
  <2>1. CASE x < p
    BY <1>14, <1>24, <1>25, <1>26, <2>1
  <2>2. CASE x >= p /\ Live(pos, a) /\ a # tailBlock
    BY <1>14, <1>20, <1>26, <2>2
  <2>3. CASE x >= p /\ a = tailBlock
    BY <1>14, <1>22, <1>26, <2>3
  <2>4. CASE x >= p /\ ~Live(pos, a)
    BY <1>14, <1>23, <1>25, <1>26, <2>4, SMTT(40)
  <2> QED
    BY <1>12, <2>1, <2>2, <2>3, <2>4
<1>28. walk.who = "producer" => ProducerWalk(n, pos, num)'
  <2> HAVE walk.who = "producer"
  <2>1. ProducerWalk(n, pos, num)
    BY <1>3 DEF WalkRight
  <2>2. Ahead(n, pos, num) = k + Ahead(n, pos, num)'
    BY <1>27, <2>1 DEF ProducerWalk
  <2>3. walk'.first = frontBlock' \/ ~Live(pos, walk.first)'
    <3>1. Live(pos, walk.first)' <=> Live(pos, walk.first)
      BY <1>2, <1>5, <1>16 DEF Live
    <3> QED
      BY <1>2, <1>4, <1>5, <1>16, <3>1
  <2>4. walk.result + k + Ahead(n, pos, num)' = walk.result + Ahead(n, pos, num)
    BY <1>4, <1>14, <1>26, <2>2, SMTT(40)
  <2> QED
    BY <1>1, <1>16, <2>1, <2>3, <2>4 DEF ProducerWalk
<1>29. walk.who = "consumer" => ConsumerWalk(n, pos, num)'
  <2> HAVE walk.who = "consumer"
  <2>1. ConsumerWalk(n, pos, num)
    BY <1>3 DEF WalkRight
  <2>2. first = frontBlock /\ x >= p
    <3>1. first = frontBlock
      BY <1>5, <2>1 DEF ConsumerWalk
    <3>2. ASSUME x < p PROVE FALSE
      <4>1. WalkFrom(n, pos) = p
        BY <1>5, <1>11, <1>13, <3>1 DEF WalkFrom, Live
      <4>2. pos[a] < p + n /\ p <= pos[a] /\ pos[a] \in Int
        BY <1>11, Positions
      <4>3. x = pos[a]
        BY <1>6, <1>9, <1>12, <1>13, <4>1, <4>2 DEF WalkPos
      <4> QED
        BY <1>12, <3>2, <4>2, <4>3
    <3> QED
      BY <1>12, <3>1, <3>2
  <2>3. walk.result + k + Ahead(n, pos, num)' >= walk.begin
    <3>1. walk.result + Ahead(n, pos, num) >= walk.begin
      BY <2>1 DEF ConsumerWalk
    <3> QED
      BY <1>4, <1>14, <1>26, <1>27, <3>1
  <2>4. IF walk.at # 0 /\ Live(pos, walk.at) THEN walk.result <= num[a] - received
        ELSE walk.result <= sent - received + (IF queuePpc = "publish" /\ a # NextTailBlock THEN 1 ELSE 0)
    BY <1>6, <2>1 DEF ConsumerWalk
  <2>5. IF d # 0 /\ Live(pos, d) THEN walk.result + k <= num[d] - received
        ELSE walk.result + k <= sent - received + (IF queuePpc = "publish" /\ d # NextTailBlock THEN 1 ELSE 0)
    <3>1. CASE Live(pos, a) /\ a # tailBlock
      <4>1. d = c /\ d # 0 /\ Live(pos, d) /\ num[d] = num[a] + k
        BY <1>12, <1>15, <1>20, <2>2, <3>1
      <4>2. walk.result <= num[a] - received /\ num[a] \in Int
        BY <1>1, <1>6, <1>13, <2>4, <3>1
      <4>3. walk.result + k <= num[a] + k - received
        BY <1>4, <1>13, <1>14, <4>2
      <4>5. num[d] = num[a] + k
        BY <4>1
      <4>4. walk.result + k <= num[d] - received
        BY <1>4, <1>13, <1>14, <4>2, <4>3, <4>5
      <4> QED
        BY <4>1, <4>4
    <3>2. CASE a = tailBlock
      <4>1. Live(pos, a) /\ ~(d # 0 /\ Live(pos, d)) /\ num[a] + k = sent
        BY <1>13, <1>15, <1>22, <2>2, <3>2 DEF Live
      <4>2. walk.result <= num[a] - received /\ num[a] \in Int
        BY <1>1, <1>6, <1>13, <2>4, <4>1
      <4>3. walk.result + k <= sent - received
        BY <1>4, <1>13, <1>14, <4>1, <4>2
      <4>4. walk.result + k <= sent - received + 1
        BY <1>4, <1>13, <1>14, <4>3
      <4>5. walk.result + k <= sent - received + (IF queuePpc = "publish" /\ d # NextTailBlock THEN 1 ELSE 0)
        <5>1. CASE queuePpc = "publish" /\ d # NextTailBlock
          BY <4>4, <5>1
        <5>2. CASE ~(queuePpc = "publish" /\ d # NextTailBlock)
          <6>1. walk.result + k <= sent - received + 0
            BY <1>13, <4>3
          <6> QED
            BY <5>2, <6>1
        <5> QED
          BY <5>1, <5>2
      <4> QED
        BY <4>1, <4>5
    <3>3. CASE ~Live(pos, a)
      <4>1. ~(d # 0 /\ Live(pos, d))
        BY <1>15, <1>23, <2>2, <3>3
      <4>2. walk.result <= sent - received + (IF queuePpc = "publish" /\ a # NextTailBlock THEN 1 ELSE 0)
        BY <1>6, <2>4, <3>3
      <4>3. queuePpc = "publish" => d # NextTailBlock
        <5> HAVE queuePpc = "publish"
        <5>1. pos[NextTailBlock] = pos[tailBlock] + 1 /\ NextTailBlock \in 1 .. n
          BY <1>3, <1>13 DEF ProducerRight, CircleRight, NextTailBlock
        <5>2. c # first => pos[c] = pos[a] + 1
          BY <1>21, <2>2, <3>3
        <5>3. ~(pos[a] <= pos[tailBlock]) /\ pos[a] \in Int /\ pos[tailBlock] \in Int
          BY <1>13, <3>3 DEF Live
        <5>4. c # first => c # NextTailBlock
          BY <5>1, <5>2, <5>3
        <5> QED
          BY <1>13, <1>15, <5>1, <5>4
      <4>4. CASE queuePpc = "publish" /\ a = NextTailBlock
        <5>1. k = 1 /\ walk.result <= sent - received
          BY <1>13, <1>25, <3>3, <4>2, <4>4
        <5>2. walk.result + k <= sent - received + 1
          BY <1>4, <1>13, <5>1
        <5> QED
          BY <4>1, <4>3, <4>4, <5>2
      <4>5. CASE queuePpc = "publish" /\ a # NextTailBlock
        <5>1. k = 0 /\ walk.result <= sent - received + 1
          BY <1>13, <1>25, <3>3, <4>2, <4>5
        <5>2. walk.result + k <= sent - received + 1
          BY <1>4, <1>13, <5>1
        <5> QED
          BY <4>1, <4>3, <4>5, <5>2
      <4>6. CASE queuePpc # "publish"
        <5>1. k = 0 /\ walk.result <= sent - received
          BY <1>13, <1>25, <3>3, <4>2, <4>6
        <5>2. walk.result + k <= sent - received + 0
          BY <1>4, <1>13, <5>1
        <5> QED
          BY <4>1, <4>6, <5>2
      <4> QED
        BY <4>4, <4>5, <4>6
    <3> QED
      BY <3>1, <3>2, <3>3
  <2>6. /\ walk'.at = d /\ walk'.result = walk.result + k /\ (Live(pos, walk.at)' <=> Live(pos, d))
        /\ NextTailBlock' = NextTailBlock
    BY <1>2, <1>16 DEF Live, NextTailBlock
  <2>7. IF walk'.at # 0 /\ Live(pos, walk.at)' THEN walk'.result <= num[walk'.at] - received
        ELSE walk'.result <= sent - received + (IF queuePpc = "publish" /\ walk'.at # NextTailBlock THEN 1 ELSE 0)
    BY <2>5, <2>6, SMTT(40)
  <2>8. /\ queueCpc' # "walk" <=> queueCpc # "walk"
        /\ walk'.first = frontBlock' /\ walk'.result + Ahead(n, pos, num)' >= walk'.begin
        /\ queueCpc = "walk" /\ queuePpc # "walk"
    BY <1>1, <1>2, <1>16, <2>1, <2>2, <2>3 DEF ConsumerWalk
  <2> QED
    BY <1>1, <2>6, <2>7, <2>8 DEF ConsumerWalk
<1>30. WalkRight(n, pos, num)'
  <2>1. d \in 0 .. n
    BY <1>12, <1>13, <1>15
  <2>2. walk' # Queue!Idle /\ walk'.who # "nobody"
    BY <1>4, <1>16 DEF Queue!Idle
  <2>3. walk' = [who |-> walk'.who, first |-> walk'.first, at |-> walk'.at, result |-> walk'.result, begin |-> walk'.begin]
    BY <1>16
  <2> QED
    BY <1>4, <1>5, <1>14, <1>16, <1>28, <1>29, <2>1, <2>2, <2>3 DEF WalkRight, Queue!Idle
<1> QED
  BY <1>1, <1>30, WalkMoves

(* Going round from the front block, the destructor comes to every block.  *)
LEMMA ReachesAll ==
  ASSUME NEW n, NEW pos, NEW num, NEW K, QueueWith(n, pos, num, K), NEW b \in 1 .. n
  PROVE  b \in Queue!Reach
<1>1. /\ n \in Nat /\ n <= MaxBlocks /\ MaxBlocks \in Nat /\ frontBlock \in 1 .. n
      /\ \A c \in 1 .. n : pos[c] \in Int /\ pos[frontBlock] <= pos[c] /\ pos[c] < pos[frontBlock] + n
      /\ \A c, d \in 1 .. n : pos[c] = pos[d] => c = d
      /\ \A c \in 1 .. n : /\ blk[c].next \in 1 .. n
                           /\ pos[blk[c].next] = IF pos[c] = pos[frontBlock] + n - 1 THEN pos[frontBlock] ELSE pos[c] + 1
  BY NumbersKnown, Positions DEF QueueWith, CircleRight
<1>2. SUFFICES ASSUME NEW S, frontBlock \in S, \A c \in S : blk[c].next \in S
               PROVE  b \in S
  BY <1>1 DEF Queue!Reach, Queue!Blocks
<1> DEFINE Missed == {k \in Nat : k <= n - 1 /\ ~\E c \in 1 .. n : c \in S /\ pos[c] = pos[frontBlock] + k}
<1>3. Missed = {}
  <2> SUFFICES ASSUME Missed # {} PROVE FALSE
    OBVIOUS
  <2>1. PICK k \in Missed : \A y \in Missed : ~(<<y, k>> \in OpToRel(<, Nat))
    <3>1. Missed \subseteq Nat
      OBVIOUS
    <3> HIDE DEF Missed
    <3> QED
      BY <3>1, WFMin, NatLessThanWellFounded
  <2>2. k \in Nat /\ k <= n - 1 /\ ~\E c \in 1 .. n : c \in S /\ pos[c] = pos[frontBlock] + k
    OBVIOUS
  <2>3. k # 0
    BY <1>1, <1>2, <2>2
  <2>4. k - 1 \notin Missed
    <3> SUFFICES ASSUME k - 1 \in Missed PROVE FALSE
      OBVIOUS
    <3>1. k - 1 \in Nat /\ k - 1 < k
      BY <2>2, <2>3
    <3>2. <<k - 1, k>> \in OpToRel(<, Nat)
      BY <2>2, <3>1 DEF OpToRel
    <3> QED
      BY <2>1, <3>2
  <2>5. PICK c \in 1 .. n : c \in S /\ pos[c] = pos[frontBlock] + (k - 1)
    BY <1>1, <2>2, <2>3, <2>4
  <2>6. pos[c] # pos[frontBlock] + n - 1 /\ pos[c] + 1 = pos[frontBlock] + k
    BY <1>1, <2>2, <2>5
  <2>7. blk[c].next \in 1 .. n /\ blk[c].next \in S /\ pos[blk[c].next] = pos[frontBlock] + k
    BY <1>1, <1>2, <2>5, <2>6
  <2> QED
    BY <2>2, <2>7
<1>4. PICK k \in Nat : k <= n - 1 /\ pos[b] = pos[frontBlock] + k
  <2>1. pos[b] - pos[frontBlock] \in Nat /\ pos[b] - pos[frontBlock] <= n - 1
        /\ pos[b] = pos[frontBlock] + (pos[b] - pos[frontBlock])
    BY <1>1
  <2> QED
    BY <2>1
<1>5. PICK c \in 1 .. n : c \in S /\ pos[c] = pos[frontBlock] + k
  BY <1>3, <1>4
<1>6. b = c
  BY <1>1, <1>4, <1>5
<1> QED
  BY <1>5, <1>6

(* The destructor frees every block.                                       *)
LEMMA DestroyFrees ==
  ASSUME NEW n, NEW pos, NEW num, NEW K, QueueWith(n, pos, num, K), Queue!Destroy
  PROVE  Gone'
<1>1. /\ queuePpc = "idle" /\ queueCpc = "idle" /\ queuePpc' = "destroyed" /\ queueCpc' = "destroyed"
      /\ blk' = [b \in 1 .. MaxBlocks |-> IF b \in Queue!Reach THEN Queue!Unused ELSE blk[b]]
      /\ UNCHANGED <<size, frontBlock, tailBlock, sent, refused, received, queuePeeked, walk>>
  BY DEF Queue!Destroy, Queue!Blocks
<1>2. n \in Nat /\ n <= MaxBlocks /\ MaxBlocks \in Nat /\ frontBlock \in 1 .. n /\ tailBlock \in 1 .. n
  BY NumbersKnown, Positions DEF QueueWith, CircleRight
<1>3. \A b \in 1 .. MaxBlocks : blk'[b] = Queue!Unused
  <2> TAKE b \in 1 .. MaxBlocks
  <2>1. CASE b \in 1 .. n
    BY <1>1, <2>1, ReachesAll
  <2>2. CASE b \notin 1 .. n
    <3>1. blk[b] = Queue!Unused
      BY <1>1, <1>2, <2>2 DEF QueueWith, MemoryRight
    <3> QED
      BY <1>1, <3>1
  <2> QED
    BY <2>1, <2>2
<1>4. Queue!Allocated' = {}
  BY <1>3 DEF Queue!Allocated, Queue!Blocks, Queue!Unused
<1>5. walk = Queue!Idle
  BY <1>1 DEF QueueWith, WalkRight, ProducerWalk, ConsumerWalk
<1>6. walk' = Queue!Idle'
  BY <1>1, <1>5 DEF Queue!Idle
<1>7. /\ sent \in 0 .. QueueItems /\ received \in 0 .. sent
      /\ (queuePeeked # 0 => queuePeeked = received + 1 /\ received < sent)
      /\ refused \in Int /\ refused <= QueueItems /\ refused >= -1 /\ (refused # -1 => refused >= size)
  BY DEF QueueWith, ProducerRight, ConsumerRight
<1> QED
  BY <1>1, <1>2, <1>4, <1>6, <1>7 DEF Gone

(* Enough blocks of D slots for an element each: a division rounded up.    *)
LEMMA BlocksNeeded ==
  ASSUME NEW s \in Nat, s >= 1, NEW D \in Nat, D >= 1, NEW q, q = (s + 2 * D - 1) \div D
  PROVE  q \in Nat /\ q > 1 /\ (q - 1) * D >= s
<1> DEFINE a == s + 2 * D - 1
<1>1. a \in Nat /\ q = a \div D
  OBVIOUS
<1> HIDE DEF a
<1>2. q \in Int /\ D * q + (a % D) = a /\ a % D \in 0 .. D - 1
  BY <1>1, Z3
<1>3. D * q > a - D
  BY <1>1, <1>2
<1>4. PICK z : z = D * q
  OBVIOUS
<1>5. z \in Int /\ z > s + D - 1
  BY <1>2, <1>3, <1>4 DEF a
<1>6. q > 1
  <2> SUFFICES ASSUME q <= 1 PROVE FALSE
    BY <1>2
  <2>1. D * q <= D
    BY <1>2
  <2> QED
    BY <1>4, <1>5, <2>1
<1>7. (q - 1) * D = z - D
  BY <1>2, <1>4
<1> QED
  BY <1>2, <1>5, <1>6, <1>7

(* The power of two beyond the constructor's argument.                     *)
LEMMA NextPowerFound ==
  ASSUME NEW s \in Sizes
  PROVE  s \in Nat /\ Queue!ceilToPow2(s + 1) \in Nat /\ Queue!ceilToPow2(s + 1) >= s + 1
         /\ MAX_BLOCK_SIZE \in Nat /\ MAX_BLOCK_SIZE >= 2
<1>1. /\ MAX_BLOCK_SIZE \in Nat \ {0, 1} /\ Sizes \subseteq Nat
      /\ \E p \in Queue!PowersOf2(s + 1) : p \in Nat /\ Queue!NextPower(s + 1, p)
  BY PartsAssumption DEF Queue!SizeAssumption
<1>2. Queue!ceilToPow2(s + 1) \in Nat /\ Queue!NextPower(s + 1, Queue!ceilToPow2(s + 1))
  BY <1>1 DEF Queue!ceilToPow2
<1> QED
  BY <1>1, <1>2 DEF Queue!NextPower

(* make_block(), linked to the next one.                                   *)
LinkedBlock(s, next) == [Queue!make_block(s) EXCEPT !.next = next]

(* Such a block is empty.                                                  *)
LEMMA BlockMade ==
  ASSUME NEW s \in Nat, s >= 2, NEW x, NEW B, B = LinkedBlock(s, x)
  PROVE  BlockRight(B, 0, 0, 0) /\ Filled(B) = 0 /\ B.next = x /\ B.size = s
<1>1. PICK d : d = [i \in 0 .. s - 1 |-> 0]
  OBVIOUS
<1>2. Queue!Unused = [front |-> 0, localTail |-> 0, tail |-> 0, localFront |-> 0, next |-> 0, size |-> 0, data |-> << >>]
  BY DEF Queue!Unused, Queue!Null
<1>3. Queue!make_block(s) = [Queue!Unused EXCEPT !.size = s, !.data = d]
  BY <1>1 DEF Queue!make_block, Queue!None
<1>4. PICK M : M = Queue!make_block(s)
  OBVIOUS
<1>5. M = [front |-> 0, localTail |-> 0, tail |-> 0, localFront |-> 0, next |-> 0, size |-> s, data |-> d]
  BY <1>2, <1>3, <1>4
<1>6. B = [front |-> 0, localTail |-> 0, tail |-> 0, localFront |-> 0, next |-> x, size |-> s, data |-> d]
  <2>1. B = [M EXCEPT !.next = x]
    BY <1>4 DEF LinkedBlock
  <2> QED
    BY <1>5, <2>1
<1>7. /\ B.front = 0 /\ B.localTail = 0 /\ B.tail = 0 /\ B.localFront = 0 /\ B.next = x /\ B.size = s /\ B.data = d
      /\ IsBlock(B)
  BY <1>6 DEF IsBlock
<1>8. 0 \in Int
  OBVIOUS
<1> QED
  BY <1>1, <1>7, <1>8, NewBlock

(* The constructor makes a circle that holds what it was asked for.        *)
LEMMA QueueInit ==
  ASSUME 0 \notin Sizes, Queue!Init
  PROVE  QueueInv
<1> DEFINE one == Queue!ceilToPow2(size + 1)
           many == one > MAX_BLOCK_SIZE * 2
           n == IF many THEN (size + MAX_BLOCK_SIZE * 2 - 3) \div (MAX_BLOCK_SIZE - 1) ELSE 1
           K == largestBlockSize - 1
           pos == [b \in 1 .. n |-> b - 1]
           num == [b \in 1 .. n |-> 0]
<1>1. /\ size \in Sizes /\ Queue!Construct(size)
      /\ frontBlock = 1 /\ tailBlock = 1 /\ queuePpc = "idle" /\ mode = "CanAlloc" /\ queueCpc = "idle"
      /\ sent = 0 /\ received = 0 /\ before = FALSE /\ room = 0 /\ queuePeeked = 0 /\ refused = -1
      /\ walk = Queue!Idle
  BY DEF Queue!Init, Queue!None
<1>2. /\ size \in Nat /\ size >= 1 /\ one \in Nat /\ one >= size + 1
      /\ MAX_BLOCK_SIZE \in Nat /\ MAX_BLOCK_SIZE >= 2
  <2>1. /\ size \in Nat /\ one \in Nat /\ one >= size + 1
        /\ MAX_BLOCK_SIZE \in Nat /\ MAX_BLOCK_SIZE >= 2
    BY <1>1, NextPowerFound
  <2>2. size # 0
    BY <1>1
  <2> QED
    BY <2>1, <2>2
<1>3. /\ n <= MaxBlocks /\ largestBlockSize = IF many THEN MAX_BLOCK_SIZE ELSE one
      /\ blk = [b \in 1 .. MaxBlocks |-> IF b <= n THEN LinkedBlock(largestBlockSize, IF b = n THEN 1 ELSE b + 1)
                                         ELSE Queue!Unused]
  BY <1>1 DEF Queue!Construct, Queue!InitialBlockCount, Queue!Blocks, LinkedBlock
<1>4. n \in Nat /\ n >= 1 /\ (n = 1 => K >= size) /\ (n > 1 => (n - 1) * K >= size)
      /\ largestBlockSize \in Nat /\ largestBlockSize >= 2
  <2>1. CASE many
    <3> DEFINE D == MAX_BLOCK_SIZE - 1
    <3>1. D \in Nat /\ D >= 1 /\ size + MAX_BLOCK_SIZE * 2 - 3 = size + 2 * D - 1
      BY <1>2
    <3>2. n = (size + 2 * D - 1) \div D /\ K = D /\ largestBlockSize = MAX_BLOCK_SIZE
      BY <1>3, <2>1, <3>1
    <3> HIDE DEF D, n, K
    <3>3. n \in Nat /\ n > 1 /\ (n - 1) * D >= size
      BY <1>2, <3>1, <3>2, BlocksNeeded
    <3> QED
      BY <1>2, <3>2, <3>3
  <2>2. CASE ~many
    <3>1. n = 1 /\ largestBlockSize = one
      BY <1>3, <2>2
    <3> QED
      BY <1>2, <3>1
  <2> QED
    BY <2>1, <2>2
<1>5. K \in Nat \ {0} /\ largestBlockSize > K /\ MaxBlocks \in Nat /\ QueueItems \in Nat
  BY <1>4, NumbersKnown
<1>6. pos \in [1 .. n -> Int] /\ num \in [1 .. n -> Int] /\ (\A b \in 1 .. n : pos[b] = b - 1 /\ num[b] = 0)
  <2> HIDE DEF n
  <2> QED
    BY <1>4
<1> HIDE DEF one, many, n, K, pos, num
<1>7. \A b \in 1 .. n : /\ BlockRight(blk[b], 0, 0, 0) /\ Filled(blk[b]) = 0 /\ blk[b].size = largestBlockSize
                        /\ blk[b].next = IF b = n THEN 1 ELSE b + 1
  <2> TAKE b \in 1 .. n
  <2>1. blk[b] = LinkedBlock(largestBlockSize, IF b = n THEN 1 ELSE b + 1)
    BY <1>3, <1>4, <1>5
  <2>2. PICK x : x = IF b = n THEN 1 ELSE b + 1
    OBVIOUS
  <2>3. PICK B : B = blk[b]
    OBVIOUS
  <2>4. BlockRight(B, 0, 0, 0) /\ Filled(B) = 0 /\ B.next = x /\ B.size = largestBlockSize
    BY <1>4, <2>1, <2>2, <2>3, BlockMade
  <2> QED
    BY <2>2, <2>3, <2>4
<1>8. CircleRight(n, pos)
  <2>1. \A b \in 1 .. n : /\ blk[b].next \in 1 .. n
                          /\ pos[blk[b].next] = IF pos[b] = pos[frontBlock] + n - 1 THEN pos[frontBlock] ELSE pos[b] + 1
    <3> TAKE b \in 1 .. n
    <3>1. PICK c \in 1 .. n : c = blk[b].next /\ c = IF b = n THEN 1 ELSE b + 1
      BY <1>4, <1>7
    <3>2. pos[c] = c - 1 /\ pos[b] = b - 1 /\ pos[frontBlock] = 0
      BY <1>1, <1>4, <1>6
    <3> QED
      BY <1>4, <3>1, <3>2
  <2>2. /\ n <= MaxBlocks /\ frontBlock \in 1 .. n /\ tailBlock \in 1 .. n
        /\ \A a, b \in 1 .. n : pos[a] = pos[b] => a = b
        /\ \A b \in 1 .. n : pos[frontBlock] <= pos[b] /\ pos[b] < pos[frontBlock] + n
    BY <1>1, <1>3, <1>4, <1>6
  <2> QED
    BY <1>4, <1>6, <2>1, <2>2 DEF CircleRight
<1>9. \A b \in 1 .. n : Live(pos, b) <=> b = 1
  BY <1>1, <1>4, <1>6 DEF Live
<1>10. BlocksRight(n, num)
  <2>1. \A b : Extra(b) = 0 /\ Taken(b) = 0
    BY <1>1 DEF Extra, InPlace, Taken
  <2> QED
    BY <1>6, <1>7, <2>1 DEF BlocksRight
<1>11. OrderRight(n, pos, num)
  BY <1>1, <1>4, <1>6, <1>7, <1>9 DEF OrderRight
<1>12. RoomRight(n, pos, num, K)
  <2>1. \A a, b \in 1 .. n : ~(Live(pos, b) /\ a # frontBlock /\ pos[a] <= pos[b])
    BY <1>1, <1>4, <1>6, <1>9
  <2> QED
    BY <1>2, <1>4, <1>5, <1>7, <2>1 DEF RoomRight
<1>13. MemoryRight(n, K)
  <2>1. \A b \in 1 .. MaxBlocks : b > n => blk[b] = Queue!Unused
    BY <1>3, <1>4
  <2> QED
    BY <1>1, <1>3, <2>1 DEF MemoryRight
<1>14. ProducerRight(n, pos, num, K)
  BY <1>1, <1>5 DEF ProducerRight, ProducerPlaces, Leaving
<1>15. ConsumerRight
  BY <1>1 DEF ConsumerRight, ConsumerPlaces
<1>16. WalkRight(n, pos, num)
  BY <1>1 DEF WalkRight, Queue!Idle
<1>17. QueueWith(n, pos, num, K)
  BY <1>8, <1>10, <1>11, <1>12, <1>13, <1>14, <1>15, <1>16 DEF QueueWith
<1> QED
  BY <1>1, <1>4, <1>5, <1>6, <1>17 DEF QueueInv

(* Only numbers of elements are in a block's slots.                        *)
LEMMA DataOfBlock ==
  ASSUME NEW B, NEW first \in Int, NEW e \in 0 .. 1, NEW t \in 0 .. 1, BlockRight(B, first, e, t),
         NEW m \in Nat, Filled(B) + e = 0 \/ (first >= 0 /\ first + Filled(B) + e <= m)
  PROVE  B.data \in [0 .. B.size - 1 -> 1 .. m \cup {0}]
<1>1. /\ B.size \in Nat /\ Filled(B) \in Nat
      /\ \A i \in 0 .. B.size - 1 : Gap(B.front, i, B.size) \in 0 .. B.size - 1
      /\ B.data = Contents(B, first, e, t)
  BY RoundOfBlock DEF BlockRight
<1>2. ASSUME NEW i \in 0 .. B.size - 1
      PROVE  Contents(B, first, e, t)[i] \in 1 .. m \cup {0}
  <2>0. Gap(B.front, i, B.size) \in 0 .. B.size - 1
    BY <1>1
  <2>1. PICK g \in Nat : g = Gap(B.front, i, B.size)
    BY <1>1, <2>0
  <2>2. Contents(B, first, e, t)[i] = IF g < Filled(B) + e /\ (t = 0 \/ i # B.front) THEN first + g + 1 ELSE 0
    BY <2>1 DEF Contents
  <2>3. g < Filled(B) + e => first + g + 1 \in 1 .. m
    BY <1>1, <2>1
  <2> QED
    BY <2>2, <2>3
<1>3. Contents(B, first, e, t) = [i \in 0 .. B.size - 1 |-> Contents(B, first, e, t)[i]]
  BY DEF Contents
<1> QED
  BY <1>1, <1>2, <1>3

(* The elements in a block of the circle.                                  *)
LEMMA DataInCircle ==
  ASSUME NEW n, NEW pos, NEW num, NEW K, QueueWith(n, pos, num, K), NEW b \in 1 .. n
  PROVE  blk[b].data \in [0 .. blk[b].size - 1 -> 1 .. QueueItems \cup {0}]
<1>1. /\ BlockRight(blk[b], num[b], Extra(b), Taken(b)) /\ num[b] \in Int /\ Extra(b) \in 0 .. 1 /\ Taken(b) \in 0 .. 1
      /\ Filled(blk[b]) \in Int /\ Filled(blk[b]) >= 0 /\ QueueItems \in Nat /\ received \in Nat /\ sent \in Nat
      /\ n \in Nat /\ tailBlock \in 1 .. n
  <2>1. Filled(blk[b]) \in 0 .. blk[b].size - 1 - Extra(b) /\ blk[b].size \in Nat /\ Extra(b) \in 0 .. 1
    BY BlockFacts
  <2> QED
    BY <2>1, BlockFacts
<1>2. /\ sent <= QueueItems
      /\ (queuePpc \notin {"idle", "walk"} => sent + 1 <= QueueItems)
      /\ (queuePpc \in {"nexttail", "publish"} => num[NextTailBlock] = sent)
      /\ (queuePpc \in {"nexttail", "publish"} => pos[NextTailBlock] = pos[tailBlock] + 1)
  BY <1>1 DEF QueueWith, ProducerRight
<1>3. Filled(blk[b]) + Extra(b) = 0 \/ (num[b] >= 0 /\ num[b] + Filled(blk[b]) + Extra(b) <= QueueItems)
  <2>1. CASE Live(pos, b)
    <3>1. num[b] >= received /\ num[b] + Filled(blk[b]) <= sent
      BY <2>1, LiveNumbers
    <3>2. CASE Extra(b) = 0
      BY <1>1, <1>2, <3>1, <3>2
    <3>3. CASE Extra(b) = 1
      <4>1. queuePpc \in {"settail", "nexttail"}
        BY <3>3 DEF Extra, InPlace
      <4>2. sent + 1 <= QueueItems
        BY <1>2, <4>1
      <4> QED
        BY <1>1, <3>1, <3>3, <4>2
    <3> QED
      BY <1>1, <3>2, <3>3
  <2>2. CASE ~Live(pos, b)
    <3>1. b # tailBlock /\ Filled(blk[b]) = IF queuePpc = "publish" /\ b = NextTailBlock THEN 1 ELSE 0
      BY <2>2, Positions DEF QueueWith, OrderRight
    <3>2. CASE queuePpc \in {"nexttail", "publish"} /\ b = NextTailBlock
      <4>1. num[b] = sent /\ sent + 1 <= QueueItems /\ Filled(blk[b]) + Extra(b) <= 1
        BY <1>2, <3>1, <3>2 DEF Extra, InPlace
      <4> QED
        BY <1>1, <4>1
    <3>3. CASE ~(queuePpc \in {"nexttail", "publish"} /\ b = NextTailBlock)
      <4>1. Filled(blk[b]) = 0 /\ Extra(b) = 0
        BY <3>1, <3>3 DEF Extra, InPlace
      <4> QED
        BY <4>1
    <3> QED
      BY <3>2, <3>3
  <2> QED
    BY <2>1, <2>2
<1> QED
  BY <1>1, <1>3, DataOfBlock

(* The type invariant follows.                                             *)
LEMMA QueueTypeOfWith ==
  ASSUME NEW n, NEW pos, NEW num, NEW K, QueueWith(n, pos, num, K), size \in Sizes
  PROVE  Queue!TypeOK
<1> DEFINE top == IF queuePpc = "link" THEN n + 1 ELSE n
<1>1. Queue!Allocated = 1 .. top
  BY AllocatedBlocks
<1>2. /\ n \in Nat /\ n <= MaxBlocks /\ MaxBlocks \in Nat /\ QueueItems \in Nat
      /\ frontBlock \in 1 .. n /\ tailBlock \in 1 .. n
      /\ sent \in 0 .. QueueItems /\ received \in 0 .. sent
      /\ refused \in Int /\ refused <= QueueItems /\ refused >= -1
      /\ (queuePeeked # 0 => queuePeeked = received + 1 /\ received < sent)
      /\ (queuePpc = "link" => FreshRight(n, K) /\ sent < QueueItems)
  <2>1. CircleRight(n, pos) /\ ProducerRight(n, pos, num, K) /\ ConsumerRight /\ MemoryRight(n, K)
    BY DEF QueueWith
  <2>2. n \in Nat /\ n <= MaxBlocks /\ frontBlock \in 1 .. n /\ tailBlock \in 1 .. n
    BY <2>1 DEF CircleRight
  <2>3. /\ sent \in 0 .. QueueItems /\ received \in 0 .. sent
        /\ refused \in Int /\ refused <= QueueItems /\ refused >= -1
        /\ (queuePpc = "link" => sent < QueueItems)
    BY <2>1 DEF ProducerRight
  <2>4. queuePeeked # 0 => queuePeeked = received + 1 /\ received < sent
    BY <2>1 DEF ConsumerRight
  <2>5. queuePpc = "link" => FreshRight(n, K)
    BY <2>1 DEF MemoryRight
  <2> QED
    BY <2>2, <2>3, <2>4, <2>5, NumbersKnown
<1>3. ASSUME NEW b \in 1 .. n
      PROVE  /\ blk[b].front \in 0 .. blk[b].size - 1 /\ blk[b].tail \in 0 .. blk[b].size - 1
             /\ blk[b].data \in [0 .. blk[b].size - 1 -> 1 .. QueueItems \cup {0}]
             /\ blk[b].next \in 1 .. top
  <2>1. Indices(blk[b])
    BY BlockFacts
  <2>2. blk[b].next \in 1 .. n
    BY DEF QueueWith, CircleRight
  <2>3. blk[b].next \in 1 .. top
    BY <1>2, <2>2
  <2> HIDE DEF top
  <2> QED
    BY <2>1, <2>3, DataInCircle DEF Indices
<1>4. ASSUME queuePpc = "link", NEW F, F = blk[n + 1]
      PROVE  /\ F.front \in 0 .. F.size - 1 /\ F.tail \in 0 .. F.size - 1
             /\ F.data \in [0 .. F.size - 1 -> 1 .. QueueItems \cup {0}]
             /\ F.next \in 1 .. top
  <2>1. BlockRight(F, sent, 0, 0) /\ Filled(F) = 1 /\ F.next = NextTailBlock
    BY <1>2, <1>4 DEF FreshRight
  <2>2. Indices(F)
    BY <2>1 DEF BlockRight
  <2>3. NextTailBlock \in 1 .. n
    BY <1>2 DEF QueueWith, CircleRight, NextTailBlock
  <2>4. F.next \in 1 .. top
    BY <1>2, <2>1, <2>3
  <2>5. sent \in Int /\ sent >= 0 /\ sent + Filled(F) + 0 <= QueueItems
    BY <1>2, <1>4, <2>1
  <2>6. F.data \in [0 .. F.size - 1 -> 1 .. QueueItems \cup {0}]
    BY <1>2, <2>1, <2>5, DataOfBlock
  <2> HIDE DEF top
  <2> QED
    BY <2>2, <2>4, <2>6 DEF Indices
<1>5. ASSUME NEW b \in 1 .. top
      PROVE  /\ blk[b].front \in 0 .. blk[b].size - 1 /\ blk[b].tail \in 0 .. blk[b].size - 1
             /\ blk[b].data \in [0 .. blk[b].size - 1 -> 1 .. QueueItems \cup {0}]
             /\ blk[b].next \in 1 .. top
  <2>1. b \in 1 .. n \/ (queuePpc = "link" /\ b = n + 1)
    BY <1>2
  <2>2. CASE b \in 1 .. n
    BY <1>3, <2>2
  <2>3. CASE queuePpc = "link" /\ b = n + 1
    BY <1>4, <2>3
  <2> QED
    BY <2>1, <2>2, <2>3
<1>6. queuePeeked \in 1 .. QueueItems \cup {0}
  BY <1>2
<1>7. /\ frontBlock \in 1 .. MaxBlocks /\ tailBlock \in 1 .. MaxBlocks /\ refused \in -1 .. QueueItems
  BY <1>2
<1> HIDE DEF top
<1> QED
  BY <1>1, <1>2, <1>5, <1>6, <1>7 DEF Queue!TypeOK, Queue!Blocks, Queue!Items, Queue!None, Queue!Null

(* So do the other properties.                                             *)
LEMMA QueueRightOfWith ==
  ASSUME NEW n, NEW pos, NEW num, NEW K, QueueWith(n, pos, num, K)
  PROVE  /\ Queue!FifoWithoutSlotRace /\ Queue!EmptyMeansEmpty /\ Queue!AdvanceAsserts
         /\ Queue!HoldsRequestedSize /\ Queue!PeekIsNext /\ Queue!SizeBetween /\ Queue!NothingLeaks
<1>1. /\ CircleRight(n, pos) /\ OrderRight(n, pos, num) /\ WalkRight(n, pos, num)
      /\ ProducerRight(n, pos, num, K) /\ ConsumerRight
  BY DEF QueueWith
<1>2. queuePpc = "place" => blk[tailBlock].data[blk[tailBlock].tail] = 0
  <2> HAVE queuePpc = "place"
  <2>1. PICK t \in 1 .. n : t = tailBlock
    BY Positions
  <2>2. Extra(t) = 0
    BY DEF Extra, InPlace
  <2>3. /\ BlockRight(blk[t], num[t], 0, Taken(t)) /\ num[t] \in Int /\ Taken(t) \in 0 .. 1
    BY <2>2, BlockFacts
  <2>4. Round(blk[t]) <= blk[t].size - 2
    BY <1>1, <2>1 DEF ProducerRight
  <2>5. PICK B : B = blk[t]
    OBVIOUS
  <2>6. PICK x : x = num[t] + Filled(B) + 1
    OBVIOUS
  <2>7. PICK C : C = [B EXCEPT !.data[B.tail] = x]
    OBVIOUS
  <2>8. B.data[B.tail] = 0
    BY <2>3, <2>4, <2>5, <2>6, <2>7, ElementPlaced
  <2> QED
    BY <2>1, <2>5, <2>8
<1>3. queuePpc = "advance" => /\ blk[NextTailBlock].data[blk[NextTailBlock].tail] = 0
                              /\ blk[NextTailBlock].front = blk[NextTailBlock].tail
  <2> HAVE queuePpc = "advance"
  <2>1. PICK t \in 1 .. n : t = NextTailBlock
    BY <1>1 DEF CircleRight, NextTailBlock
  <2>2. t # frontBlock /\ t # tailBlock /\ Filled(blk[t]) = 0
    BY <2>1, Renumbered
  <2>3. Extra(t) = 0 /\ Taken(t) = 0
    BY <2>2 DEF Extra, InPlace, Taken
  <2>4. PICK B : B = blk[t]
    OBVIOUS
  <2>5. /\ BlockRight(B, num[t], 0, 0) /\ num[t] \in Int /\ Filled(B) = 0 /\ B.size \in Nat
        /\ B.tail \in 0 .. B.size - 1 /\ B.front = B.tail
    <3>1. /\ BlockRight(blk[t], num[t], Extra(t), Taken(t)) /\ num[t] \in Int /\ blk[t].size \in Nat /\ Indices(blk[t])
          /\ (Filled(blk[t]) = 0 <=> blk[t].front = blk[t].tail)
      BY BlockFacts
    <3> QED
      BY <2>2, <2>3, <2>4, <3>1 DEF Indices
  <2>6. ~(Gap(B.front, B.tail, B.size) < Filled(B) + 0)
    BY <2>5 DEF Filled
  <2>7. Contents(B, num[t], 0, 0)[B.tail] = 0
    BY <2>5, <2>6 DEF Contents
  <2>8. B.data[B.tail] = 0
    BY <2>5, <2>7 DEF BlockRight
  <2> QED
    BY <2>1, <2>4, <2>5, <2>8
<1>4. Queue!FifoWithoutSlotRace
  BY <1>2, <1>3, NextElement DEF Queue!FifoWithoutSlotRace, Queue!TB, Queue!FB, Queue!None, NextTailBlock
<1>5. Queue!AdvanceAsserts
  BY <1>3, NextElement DEF Queue!AdvanceAsserts, Queue!TB, Queue!FB, NextTailBlock
<1>6. Queue!EmptyMeansEmpty /\ Queue!HoldsRequestedSize /\ Queue!PeekIsNext
  BY <1>1
     DEF Queue!EmptyMeansEmpty, Queue!HoldsRequestedSize, Queue!PeekIsNext, Queue!None, ConsumerRight, ProducerRight
<1>7. Queue!NothingLeaks
  BY <1>1 DEF Queue!NothingLeaks, ProducerRight, ProducerPlaces
<1>8. Queue!SizeBetween
  <2> SUFFICES ASSUME walk.who # "nobody", walk.at = 0
               PROVE  IF walk.who = "producer"
                      THEN walk.result <= walk.begin /\ walk.result >= sent - received
                      ELSE /\ walk.result >= walk.begin
                           /\ walk.result <= sent - received + (IF queuePpc = "publish" THEN 1 ELSE 0)
    BY DEF Queue!SizeBetween, Queue!Null
  <2>1. Ahead(n, pos, num) = 0
    BY DEF Ahead
  <2>2. walk.result \in Int /\ walk.begin \in Int /\ sent \in Nat /\ received \in Nat
    BY <1>1 DEF WalkRight, ProducerRight
  <2>3. CASE walk.who = "producer"
    <3>1. ProducerWalk(n, pos, num)
      BY <1>1, <2>3 DEF WalkRight
    <3> QED
      BY <2>1, <2>2, <2>3, <3>1 DEF ProducerWalk
  <2>4. CASE walk.who # "producer"
    <3>1. ConsumerWalk(n, pos, num)
      BY <1>1, <2>4 DEF WalkRight
    <3>2. walk.result + 0 >= walk.begin
      BY <2>1, <3>1 DEF ConsumerWalk
    <3>3. walk.result <= sent - received + (IF queuePpc = "publish" /\ walk.at # NextTailBlock THEN 1 ELSE 0)
      BY <3>1 DEF ConsumerWalk
    <3>4. CASE queuePpc = "publish"
      BY <2>2, <2>4, <3>2, <3>3, <3>4
    <3>5. CASE queuePpc # "publish"
      BY <2>2, <2>4, <3>2, <3>3, <3>5
    <3> QED
      BY <3>4, <3>5
  <2> QED
    BY <2>3, <2>4
<1> QED
  BY <1>4, <1>5, <1>6, <1>7, <1>8

(* In every state that the invariant describes, all of them hold.          *)
LEMMA QueueOfInv ==
  ASSUME QueueInv
  PROVE  /\ Queue!TypeOK /\ Queue!FifoWithoutSlotRace /\ Queue!EmptyMeansEmpty
         /\ Queue!AdvanceAsserts /\ Queue!HoldsRequestedSize /\ Queue!PeekIsNext
         /\ Queue!SizeBetween /\ Queue!NothingLeaks
<1>1. CASE Gone
  <2>1. Queue!TypeOK
    <3>1. /\ size \in Sizes /\ sent \in 0 .. QueueItems /\ received \in 0 .. sent /\ QueueItems \in Nat
          /\ refused \in -1 .. QueueItems /\ queuePeeked \in 1 .. QueueItems \cup {0}
      BY <1>1, NumbersKnown DEF QueueInv, Gone
    <3> QED
      BY <1>1, <3>1 DEF Gone, Queue!TypeOK, Queue!Blocks, Queue!Items, Queue!None
  <2>2. Queue!SizeBetween
    BY <1>1 DEF Gone, Queue!SizeBetween, Queue!Idle
  <2> QED
    BY <1>1, <2>1, <2>2
       DEF Gone, Queue!FifoWithoutSlotRace, Queue!EmptyMeansEmpty, Queue!AdvanceAsserts,
           Queue!HoldsRequestedSize, Queue!PeekIsNext, Queue!None, Queue!NothingLeaks
<1>2. CASE ~Gone
  <2>1. PICK n, K \in Nat : \E pos, num \in [1 .. n -> Int] : QueueWith(n, pos, num, K)
    BY <1>2 DEF QueueInv
  <2>2. PICK pos, num \in [1 .. n -> Int] : QueueWith(n, pos, num, K)
    BY <2>1
  <2>3. size \in Sizes
    BY DEF QueueInv
  <2> QED
    BY <2>2, <2>3, QueueTypeOfWith, QueueRightOfWith
<1> QED
  BY <1>1, <1>2

(* Nothing happens after the destructor.                                   *)
LEMMA GoneStays == ASSUME Gone, Queue!Next PROVE UNCHANGED Queue!vars
<1>1. queuePpc = "destroyed" /\ queueCpc = "destroyed" /\ walk = Queue!Idle /\ walk.who = "nobody"
  BY DEF Gone, Queue!Idle
<1>2. CASE \E m \in {"CanAlloc", "CannotAlloc"} : Queue!Enqueue(m)
  BY <1>1, <1>2 DEF Queue!Enqueue
<1>3. CASE \/ Queue!CheckRoom \/ Queue!ReloadFront \/ Queue!Place \/ Queue!SetTail \/ Queue!FindNext
           \/ Queue!Advance \/ Queue!NextTail \/ Queue!Grow \/ Queue!LinkBlock \/ Queue!PublishBlock
  BY <1>1, <1>3 DEF Queue!CheckRoom, Queue!ReloadFront, Queue!Place, Queue!SetTail, Queue!FindNext, Queue!Advance,
                    Queue!NextTail, Queue!Grow, Queue!LinkBlock, Queue!PublishBlock
<1>4. CASE Queue!TryDequeue \/ Queue!Pop \/ Queue!Peek
  BY <1>1, <1>4 DEF Queue!TryDequeue, Queue!Pop, Queue!Peek, Queue!Dequeue
<1>5. CASE \/ Queue!FirstReload \/ Queue!SecondReload \/ Queue!CheckTailBlock \/ Queue!ReturnEmpty \/ Queue!NextBlock
           \/ Queue!Take \/ Queue!SetFront \/ Queue!PeekFront \/ Queue!PeekNext
  BY <1>1, <1>5 DEF Queue!FirstReload, Queue!SecondReload, Queue!ReloadTail, Queue!CheckTailBlock, Queue!ReturnEmpty,
                    Queue!NextBlock, Queue!Take, Queue!SetFront, Queue!PeekFront, Queue!PeekNext
<1>6. CASE (\E t \in {"producer", "consumer"} : Queue!WalkBegin(t)) \/ Queue!WalkStep \/ Queue!WalkEnd
  BY <1>1, <1>6 DEF Queue!WalkBegin, Queue!WalkStep, Queue!WalkEnd
<1>7. CASE Queue!Destroy
  BY <1>1, <1>7 DEF Queue!Destroy
<1>8. CASE Queue!Destroyed
  BY <1>8 DEF Queue!Destroyed
<1> QED
  BY <1>2, <1>3, <1>4, <1>5, <1>6, <1>7, <1>8 DEF Queue!Next

(* Neither does a step of another queue change anything.                   *)
LEMMA QueueStays == ASSUME QueueInv, UNCHANGED queueVars PROVE QueueInv'
<1>1. /\ UNCHANGED Queue!queueVars /\ UNCHANGED Queue!producerVars /\ UNCHANGED Queue!consumerVars /\ walk' = walk
      /\ size' = size /\ blk' = blk /\ frontBlock' = frontBlock /\ tailBlock' = tailBlock
      /\ queuePpc' = queuePpc /\ queueCpc' = queueCpc /\ sent' = sent /\ received' = received
      /\ refused' = refused /\ queuePeeked' = queuePeeked
  BY DEF queueVars, Queue!queueVars, Queue!producerVars, Queue!consumerVars
<1>2. CASE Gone
  <2>1. Gone'
    BY <1>1, <1>2 DEF Gone, Queue!Allocated, Queue!Blocks
  <2> QED
    BY <1>1, <2>1 DEF QueueInv
<1>3. CASE ~Gone
  <2>1. PICK n, K \in Nat : \E pos, num \in [1 .. n -> Int] : QueueWith(n, pos, num, K)
    BY <1>3 DEF QueueInv
  <2>2. PICK pos, num \in [1 .. n -> Int] : QueueWith(n, pos, num, K)
    BY <2>1
  <2>3. WalkRight(n, pos, num)
    BY <2>2 DEF QueueWith
  <2>4. WalkRight(n, pos, num)'
    BY <1>1, <2>3 DEF WalkRight, ProducerWalk, ConsumerWalk, Ahead, WalkPos, WalkFrom, Live, NextTailBlock
  <2>5. UNCHANGED <<mode, sent, room, refused, received, before, queuePeeked>>
    BY <1>1 DEF Queue!producerVars, Queue!consumerVars
  <2>6. QueueWith(n, pos, num, K)'
    BY <1>1, <2>2, <2>4, <2>5, WalkMoves
  <2> QED
    BY <1>1, <2>6 DEF QueueInv
<1> QED
  BY <1>2, <1>3

(* Every step of either thread and the destructor keep the invariant.      *)
LEMMA QueueNext == ASSUME QueueInv, Queue!Next PROVE QueueInv'
<1> USE DEF QueueInv
<1>1. CASE Gone
  BY <1>1, GoneStays, QueueStays
     DEF Queue!vars, Queue!queueVars, Queue!producerVars, Queue!consumerVars, queueVars
<1>2. CASE ~Gone
  <2>1. PICK n, K \in Nat : \E pos, num \in [1 .. n -> Int] : QueueWith(n, pos, num, K)
    BY <1>2
  <2>2. PICK pos, num \in [1 .. n -> Int] : QueueWith(n, pos, num, K)
    BY <2>1
  <2>3. n + 1 \in Nat
    BY <2>1
  <2> HIDE DEF QueueInv
  <2>4. ASSUME QueueWith(n, pos, num, K)', size' = size
        PROVE  QueueInv'
    BY <2>1, <2>2, <2>4 DEF QueueInv
  <2>5. CASE \E m \in {"CanAlloc", "CannotAlloc"} : Queue!Enqueue(m)
    BY <2>2, <2>4, <2>5, EnqueueKeeps DEF Queue!Enqueue, Queue!queueVars
  <2>6. CASE Queue!CheckRoom
    BY <2>2, <2>4, <2>6, CheckRoomKeeps DEF Queue!CheckRoom, Queue!queueVars
  <2>7. CASE Queue!ReloadFront
    BY <2>2, <2>4, <2>7, ReloadFrontKeeps DEF Queue!ReloadFront
  <2>8. CASE Queue!Place
    BY <2>2, <2>4, <2>8, PlaceKeeps DEF Queue!Place
  <2>9. CASE Queue!SetTail
    BY <2>2, <2>4, <2>9, SetTailKeeps DEF Queue!SetTail
  <2>10. CASE Queue!FindNext
    BY <2>2, <2>4, <2>10, FindNextKeeps DEF Queue!FindNext, Queue!queueVars
  <2>11. CASE Queue!Advance
    <3>1. PICK num2 \in [1 .. n -> Int] : QueueWith(n, pos, num2, K)'
      BY <2>2, <2>11, AdvanceKeeps
    <3>2. size' = size /\ size \in Sizes
      BY <2>11 DEF Queue!Advance, QueueInv
    <3> QED
      BY <2>1, <2>2, <3>1, <3>2 DEF QueueInv
  <2>12. CASE Queue!NextTail
    BY <2>2, <2>4, <2>12, NextTailKeeps DEF Queue!NextTail
  <2>13. CASE Queue!Grow
    BY <2>2, <2>4, <2>13, GrowKeeps DEF Queue!Grow
  <2>14. CASE Queue!LinkBlock
    <3>1. PICK pos2, num2 \in [1 .. n + 1 -> Int] : QueueWith(n + 1, pos2, num2, K)'
      BY <2>2, <2>14, LinkBlockKeeps
    <3>2. size' = size /\ size \in Sizes
      BY <2>14 DEF Queue!LinkBlock, QueueInv
    <3>3. PICK p \in Nat : p = n + 1
      BY <2>3
    <3>4. \E pos3, num3 \in [1 .. p -> Int] : QueueWith(p, pos3, num3, K)'
      BY <3>1, <3>3
    <3> QED
      BY <2>1, <3>2, <3>4 DEF QueueInv
  <2>15. CASE Queue!PublishBlock
    BY <2>2, <2>4, <2>15, PublishKeeps DEF Queue!PublishBlock
  <2>16. CASE Queue!TryDequeue \/ Queue!Pop \/ Queue!Peek
    <3>1. PICK o : Queue!Dequeue(o)
      BY <2>16 DEF Queue!TryDequeue, Queue!Pop, Queue!Peek
    <3> QED
      BY <2>2, <2>4, <3>1, DequeueKeeps DEF Queue!Dequeue, Queue!queueVars
  <2>17. CASE Queue!FirstReload \/ Queue!SecondReload
    <3>1. PICK from \in {"reload", "recheck"} : Queue!ReloadTail(from)
      BY <2>17 DEF Queue!FirstReload, Queue!SecondReload
    <3> QED
      BY <2>2, <2>4, <3>1, ReloadTailKeeps DEF Queue!ReloadTail
  <2>18. CASE Queue!CheckTailBlock
    BY <2>2, <2>4, <2>18, CheckTailBlockKeeps DEF Queue!CheckTailBlock, Queue!queueVars
  <2>19. CASE Queue!ReturnEmpty
    BY <2>2, <2>4, <2>19, ReturnEmptyKeeps DEF Queue!ReturnEmpty, Queue!queueVars
  <2>20. CASE Queue!NextBlock
    <3>1. PICK pos2 \in [1 .. n -> Int] : QueueWith(n, pos2, num, K)'
      BY <2>2, <2>20, NextBlockKeeps
    <3>2. size' = size /\ size \in Sizes
      BY <2>20 DEF Queue!NextBlock, QueueInv
    <3> QED
      BY <2>1, <2>2, <3>1, <3>2 DEF QueueInv
  <2>21. CASE Queue!Take
    BY <2>2, <2>4, <2>21, TakeKeeps DEF Queue!Take
  <2>22. CASE Queue!SetFront
    <3>1. PICK num2 \in [1 .. n -> Int] : QueueWith(n, pos, num2, K)'
      BY <2>2, <2>22, SetFrontKeeps
    <3>2. size' = size /\ size \in Sizes
      BY <2>22 DEF Queue!SetFront, QueueInv
    <3> QED
      BY <2>1, <2>2, <3>1, <3>2 DEF QueueInv
  <2>23. CASE Queue!PeekFront \/ Queue!PeekNext
    BY <2>2, <2>4, <2>23, PeekKeeps DEF Queue!PeekFront, Queue!PeekNext, Queue!PeekAt, Queue!queueVars
  <2>24. CASE \E t \in {"producer", "consumer"} : Queue!WalkBegin(t)
    BY <2>2, <2>4, <2>24, WalkBeginKeeps DEF Queue!WalkBegin, Queue!queueVars
  <2>25. CASE Queue!WalkStep
    BY <2>2, <2>4, <2>25, WalkStepKeeps DEF Queue!WalkStep, Queue!queueVars
  <2>26. CASE Queue!WalkEnd
    BY <2>2, <2>4, <2>26, WalkEndKeeps DEF Queue!WalkEnd, Queue!queueVars
  <2>27. CASE Queue!Destroy
    <3>1. Gone' /\ size' = size /\ size \in Sizes
      BY <2>2, <2>27, DestroyFrees DEF Queue!Destroy, QueueInv
    <3> QED
      BY <3>1 DEF QueueInv
  <2>28. CASE Queue!Destroyed
    BY <2>28, QueueStays
       DEF Queue!Destroyed, Queue!vars, Queue!queueVars, Queue!producerVars, Queue!consumerVars, queueVars
  <2> QED
    BY <2>5, <2>6, <2>7, <2>8, <2>9, <2>10, <2>11, <2>12, <2>13, <2>14, <2>15, <2>16, <2>17, <2>18, <2>19,
       <2>20, <2>21, <2>22, <2>23, <2>24, <2>25, <2>26, <2>27, <2>28 DEF Queue!Next
<1> QED
  BY <1>1, <1>2
-----------------------------------------------------------------------------
(* A step of the composition is one of the queue of blocks, of the ring or *)
(* of the blocking queue, and leaves the others alone.                     *)
LEMMA StepOfPart ==
  ASSUME [Next]_vars
  PROVE  /\ Queue!Next \/ UNCHANGED queueVars
         /\ Ring!Next \/ UNCHANGED ringVars
         /\ Blocking!Next \/ UNCHANGED blockingVars
  BY DEF Next, vars, ListOfBlocks, CircularBuffer, BlockingQueue, Rest

(* Both invariants hold at the start. *)
LEMMA InvInitially == ASSUME Init PROVE RingInv /\ BlkInv
  BY RingInit, BlkInit

(* Every step keeps it. *)
LEMMA InvKept == ASSUME RingInv, BlkInv, [Next]_vars PROVE RingInv' /\ BlkInv'
<1>1. RingInv'
  <2>1. CASE UNCHANGED ringVars
    BY <2>1 DEF ringVars, RingInv, RingSemas, RingSema, RingPlaces, RingUnits, RingData, SlotInHand, ItemInHand,
                ItemToSignal, SlotToSignal, Ring!Slot, Ring!RingSize
  <2> QED
    BY <2>1, StepOfPart, RingNext
<1>2. BlkInv'
  <2>1. CASE UNCHANGED blockingVars
    BY <2>1 DEF blockingVars, BlkInv, BlkSemas, BlkSema, BlkPlaces, BlkUnits
  <2> QED
    BY <2>1, StepOfPart, BlkNext
<1> QED
  BY <1>1, <1>2

(* The inductive invariant behind both theorems below: each semaphore is   *)
(* right, its units are the indices of its queue, and the elements between *)
(* the indices are in their slots.                                         *)
THEOREM RingAndBlockingInvariant == Spec => [](RingInv /\ BlkInv)
<1>1. Init => RingInv /\ BlkInv
  BY InvInitially
<1>2. (RingInv /\ BlkInv) /\ [Next]_vars => (RingInv /\ BlkInv)'
  BY InvKept
<1> QED
  BY <1>1, <1>2, PTL DEF Spec

(* BlockingReaderWriterCircularBuffer is a FIFO of at most maxcap elements *)
(* for every capacity: no thread at the other's slot, capacity conserved,  *)
(* peek() shows what comes next, the destructor leaves no element behind.  *)
THEOREM RingAlwaysRight == Spec => RingRight
<1> DEFINE State == part = "ring" => /\ Ring!TypeOK /\ Ring!NoSlotRace /\ Ring!PeekIsNext
                                     /\ Ring!CapacityConserved /\ Ring!NothingLeaks
           Step == [Ring!Fifo!Next \/ ringPpc' = "freed"]_<<Ring!Contents, ringLast>>
<1>1. RingInv /\ BlkInv => State
  BY RingOfInv
<1>2. RingInv /\ BlkInv /\ [Next]_vars => Step
  <2> SUFFICES ASSUME RingInv, [Next]_vars PROVE Step
    OBVIOUS
  <2>1. CASE UNCHANGED ringVars
    BY <2>1 DEF ringVars, Ring!Contents, Ring!Slot, Ring!RingSize
  <2> QED
    BY <2>1, StepOfPart, RingRefines
<1>3. Init => Ring!Fifo!Init
  <2> SUFFICES ASSUME Init PROVE Ring!Fifo!Init
    OBVIOUS
  <2>1. nextSlot = 0 /\ nextItem = 0 /\ ringLast = 0
    BY DEF Init, Ring!Init, Ring!None
  <2>2. Ring!Contents = << >>
    <3>1. [i \in 1 .. 0 - 0 |-> data[Ring!Slot(0 + i - 1)]] = << >>
      OBVIOUS
    <3> QED
      BY <2>1, <3>1 DEF Ring!Contents
  <2> QED
    BY <2>1, <2>2 DEF Ring!Fifo!Init, Ring!None
<1> QED
  BY <1>1, <1>2, <1>3, RingAndBlockingInvariant, PTL DEF Spec, RingRight, Ring!ImplementsFifo

(* The semaphores of both queues, for any number of signals and waits: no  *)
(* timeout that races a signal loses a unit or makes one up, the kernel    *)
(* has one exactly when the waiter is owed it, and a wait fails only when  *)
(* there is none.                                                          *)
THEOREM SemaphoresAlwaysRight == Spec => SemaphoresRight
<1> DEFINE RingState == part = "ring" => Ring!S!CountIsAccurate /\ Ring!S!KernelMatches /\ Ring!S!SignalAssert
           BlkState == part = "blocking" => /\ Blocking!sema!CountIsAccurate /\ Blocking!sema!KernelMatches
                                            /\ Blocking!sema!SignalAssert /\ Blocking!GrantedIsThere
           RingFails == [\A s \in {"slots", "items"} : ringWpc'[s] = "failed" /\ ringWpc[s] # "failed"
                                                        => ringGiven[s] = ringGranted[s]]_Ring!S!vars
           BlkFails == [\A s \in {"items"} : blkWpc'[s] = "failed" /\ blkWpc[s] # "failed"
                                              => blkGiven[s] = blkGranted[s]]_Blocking!sema!vars
           Order == [blkLast' # blkLast => blkLast' = blkLast + 1]_Blocking!vars
<1>1. RingInv /\ BlkInv => RingState /\ BlkState
  BY RingOfInv, BlkOfInv
<1>2. RingInv /\ BlkInv /\ [Next]_vars => RingFails
  <2> SUFFICES ASSUME RingInv, [Next]_vars PROVE RingFails
    OBVIOUS
  <2>1. CASE UNCHANGED ringVars
    BY <2>1 DEF ringVars
  <2>2. CASE Ring!Next
    BY <2>2, RingNext DEF RingFailsEmpty, Two
  <2> QED
    BY <2>1, <2>2, StepOfPart
<1>3. RingInv /\ BlkInv /\ [Next]_vars => BlkFails /\ Order
  <2> SUFFICES ASSUME BlkInv, [Next]_vars PROVE BlkFails /\ Order
    OBVIOUS
  <2>1. CASE UNCHANGED blockingVars
    BY <2>1 DEF blockingVars
  <2>2. CASE Blocking!Next
    BY <2>2, BlkNext
  <2> QED
    BY <2>1, <2>2, StepOfPart
<1> QED
  BY <1>1, <1>2, <1>3, RingAndBlockingInvariant, PTL
     DEF Spec, SemaphoresRight, Ring!S!FailsOnlyEmpty, Blocking!sema!FailsOnlyEmpty, Blocking!InOrder

(* The inductive invariant of ReaderWriterQueue: the blocks are one circle *)
(* in which the live ones lie between the consumer's and the producer's,   *)
(* the elements in them are consecutive, what each thread has found out at *)
(* its place stays true whatever the other one does, and a walk round the  *)
(* circle counts no element twice and misses none.  A constructor argument *)
(* of 0 makes a block of a single slot, for which the code does not work.  *)
THEOREM QueueInvariant == ASSUME 0 \notin Sizes PROVE Spec => []QueueInv
<1>1. Init => QueueInv
  BY QueueInit DEF Init
<1>2. QueueInv /\ [Next]_vars => QueueInv'
  BY StepOfPart, QueueNext, QueueStays
<1> QED
  BY <1>1, <1>2, PTL DEF Spec

(* ReaderWriterQueue is a FIFO across its blocks: no thread at the other's *)
(* slot, no element overlooked by a call that reports empty, the asserts   *)
(* of both moves to the next block, as much room without an allocation as  *)
(* the constructor was asked for, size_approx() between the sizes at its   *)
(* ends, and no block left behind by the destructor.                       *)
THEOREM QueueAlwaysRight == ASSUME 0 \notin Sizes PROVE Spec => []QueueRight
<1>1. QueueInv => QueueRight
  BY QueueOfInv DEF QueueRight
<1> QED
  BY <1>1, QueueInvariant, PTL
=============================================================================
