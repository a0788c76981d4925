----------------------- MODULE MCConcurrentListsProofs -----------------------
(***************************************************************************)
(* PoolRight and ExitsRight of MCConcurrentLists, for every value of the   *)
(* constants.  PoolRight: the lock-free free list of blocks has no cycle,  *)
(* gives a block to one owner, counts references exactly and loses no      *)
(* block.  ExitsRight: a thread that ends finds its producers alive, and   *)
(* the lists of the threads have exactly the producers in use.             *)
(***************************************************************************)
EXTENDS MCConcurrentLists, Integers, Sequences, FiniteSets, FiniteSetTheorems, SequenceTheorems,
        WellFoundedInduction, TLAPS

(***************************************************************************)
(* What a thread is doing.  One that reads a block has a reference of its  *)
(* own, and one that holds it has it to itself: it took it off the list,   *)
(* or is about to put it there.  At the places of Zeroed it has seen that  *)
(* nobody reads the block.                                                 *)
(***************************************************************************)
Looking == {"idle", "pool", "load", "loop", "ref"}
Reading == {"next", "pop", "took", "unref"}
Zeroed == {"addLoad", "store", "one"}
Pushing == {"push", "failed"}
Adding == {"flag"} \cup Zeroed \cup Pushing
Holding == {"took"} \cup Adding

Local == [pc : Looking \cup Reading \cup Adding, node : Pool!Blocks \cup {0}, head : Pool!Blocks \cup {0},
          aux : Nat, back : {"idle", "loop"}]

(***************************************************************************)
(* The blocks that may ever have been on the list: they stay for good.     *)
(***************************************************************************)
Seen == {b \in Pool!Existing : b \in Pool!Pool \/ recycle = TRUE}

ReaderCount(b) == Cardinality(Pool!Readers(b))
Waiting == {t \in PoolThreads : thr[t].pc = "pool"}

(***************************************************************************)
(* What a thread knows at its place.                                       *)
(***************************************************************************)
ThreadRight(r) ==
    /\ r.head \in Seen \cup {0} /\ r.node \in Seen \cup {0}
    /\ r.pc \in {"ref"} \cup Reading \cup Holding => r.node \in Seen
    /\ r.pc = "ref" => Pool!Count(r.aux) # 0
    /\ r.pc = "pop" => r.aux = poolNext[r.node]
    /\ r.pc \in {"one", "push"} => r.head = poolNext[r.node]
    /\ r.pc \in Adding => r.aux \in Seen \cup {0}

(***************************************************************************)
(* The blocks lst[k], ..., lst[1] are on the list, in this order.          *)
(***************************************************************************)
Members(k, lst) == {lst[i] : i \in 1 .. k}
ListOf(k, lst) ==
    /\ k \in Nat /\ lst \in [1 .. k -> Seen]
    /\ \A i, j \in 1 .. k : lst[i] = lst[j] => i = j
    /\ poolHead = IF k = 0 THEN 0 ELSE lst[k]
    /\ \A i \in 1 .. k : poolNext[lst[i]] = IF i = 1 THEN 0 ELSE lst[i - 1]

(***************************************************************************)
(* The place of a block and the references that go with it: in a thread's  *)
(* hands; in use; on the list, whose blocks are L; given up while others   *)
(* still read it; or not there yet.                                        *)
(***************************************************************************)
HolderRight(r, L) ==
    /\ r.pc \in Holding => r.node \notin used /\ r.node \notin L
    /\ r.pc = "flag" => refs[r.node] = ReaderCount(r.node)
    /\ r.pc \in Pushing \cup {"took"} => refs[r.node] = ReaderCount(r.node) + 1
    /\ r.pc \in Zeroed => refs[r.node] = Mask + 1 /\ ReaderCount(r.node) = 0

Held(b) == \E t \in PoolThreads : thr[t].pc \in Holding /\ thr[t].node = b
GivenUp(b) == refs[b] = Mask + 1 + ReaderCount(b) /\ ReaderCount(b) > 0
BlockRight(b, L) ==
    /\ b \in used => b \in Pool!Existing /\ b \notin L /\ refs[b] = ReaderCount(b)
    /\ b \in L => b \in Pool!Existing /\ refs[b] = ReaderCount(b) + 1
    /\ b \in Pool!Existing /\ b \notin used /\ b \notin L =>
          Held(b) \/ GivenUp(b)
    /\ b \notin Pool!Existing => refs[b] = 0

OneHolder == \A t, u \in PoolThreads :
                thr[t].pc \in Holding /\ thr[u].pc \in Holding /\ thr[t].node = thr[u].node => t = u

PoolShape ==
    /\ recycle \in BOOLEAN /\ poolIndex \in Nat /\ live \subseteq Pool!Dynamic /\ used \subseteq Pool!Blocks
    /\ poolIndex >= PoolSize => poolIndex + Cardinality(Waiting) <= PoolSize + Cardinality(PoolThreads)
    /\ poolNext \in [Pool!Blocks -> Pool!Blocks \cup {0}] /\ refs \in [Pool!Blocks -> Nat]
    /\ thr \in [PoolThreads -> Local]
    /\ recycle = FALSE => live \subseteq used

PoolWith(k, lst) == /\ PoolShape /\ OneHolder /\ ListOf(k, lst)
                    /\ \A t \in PoolThreads : ThreadRight(thr[t]) /\ HolderRight(thr[t], Members(k, lst))
                    /\ \A b \in Pool!Blocks : BlockRight(b, Members(k, lst))

PoolInv == \E k \in Nat : \E lst \in [1 .. k -> Seen] : PoolWith(k, lst)
-----------------------------------------------------------------------------
(* The instance has its own copies of the operators of FiniteSets. *)
LEMMA SameCardinality ==
    /\ \A S : Pool!Cardinality(S) = Cardinality(S)
    /\ \A S : Pool!IsFiniteSet(S) <=> IsFiniteSet(S)
<1>1. \A S : Pool!Cardinality(S) = Cardinality(S)
  BY DEF Pool!Cardinality, Cardinality
<1>2. \A S : Pool!IsFiniteSet(S) <=> IsFiniteSet(S)
  BY DEF Pool!IsFiniteSet, IsFiniteSet
<1> QED
  BY <1>1, <1>2

(* The constants of the pool of blocks. *)
LEMMA PoolConstants ==
    /\ PoolSize \in Nat /\ MaxDynamic \in Nat /\ Mask \in Nat
    /\ IsFiniteSet(PoolThreads) /\ Cardinality(PoolThreads) \in Nat
    /\ Cardinality(PoolThreads) + 1 <= Mask
<1>1. Pool!PoolAssumption
  BY ListsAssumption DEF ListsAssumption
<1> QED
  BY <1>1, SameCardinality, FS_CardinalityType DEF Pool!PoolAssumption

(* The blocks are numbered, none has the number of the null pointer, and  *)
(* those of the initial pool and the allocated ones are different.         *)
LEMMA BlockNumbers ==
    /\ Pool!Blocks = 1 .. PoolSize + MaxDynamic /\ 0 \notin Pool!Blocks
    /\ Pool!Pool \cup Pool!Dynamic = Pool!Blocks /\ Pool!Pool \cap Pool!Dynamic = {}
    /\ \A b \in Pool!Blocks : b \in Pool!Pool <=> b <= PoolSize
  BY PoolConstants DEF Pool!Blocks, Pool!Pool, Pool!Dynamic

Reads(r, b) == IF r.pc \in Reading /\ r.node = b THEN 1 ELSE 0

(* A count of readers is a number, and no greater than the threads are. *)
LEMMA ReaderCountType ==
    ASSUME NEW b
    PROVE  /\ IsFiniteSet(Pool!Readers(b)) /\ ReaderCount(b) \in Nat
           /\ ReaderCount(b) <= Cardinality(PoolThreads)
<1>1. Pool!Readers(b) \subseteq PoolThreads
  BY DEF Pool!Readers
<1> QED
  BY <1>1, PoolConstants, FS_Subset, FS_CardinalityType DEF ReaderCount

(* The count of a block somebody reads is not zero. *)
LEMMA SomebodyReads ==
    ASSUME NEW t \in PoolThreads, thr[t].pc \in Reading
    PROVE  ReaderCount(thr[t].node) > 0
<1>1. t \in Pool!Readers(thr[t].node)
  BY DEF Pool!Readers, Reading
<1>2. Pool!Readers(thr[t].node) # {}
  BY <1>1
<1>3. ReaderCount(thr[t].node) # 0
  BY <1>2, ReaderCountType, FS_EmptySet DEF ReaderCount
<1> QED
  BY <1>3, ReaderCountType

(* If nobody reads a block, its count is zero. *)
LEMMA NobodyReads ==
    ASSUME NEW b, \A t \in PoolThreads : ~(thr[t].pc \in Reading /\ thr[t].node = b)
    PROVE  ReaderCount(b) = 0
<1>1. Pool!Readers(b) = {}
  BY DEF Pool!Readers, Reading
<1> QED
  BY <1>1, FS_EmptySet DEF ReaderCount

(* One thread's step changes the count of readers by what that thread     *)
(* stops and starts to read.                                               *)
LEMMA ReadersChange ==
    ASSUME NEW t \in PoolThreads, \A u \in PoolThreads \ {t} : thr'[u] = thr[u], NEW b
    PROVE  ReaderCount(b)' = ReaderCount(b) + Reads(thr'[t], b) - Reads(thr[t], b)
<1> DEFINE A == Pool!Readers(b)
           B == {u \in PoolThreads : thr'[u].node = b /\ thr'[u].pc \in Reading}
<1>1. /\ IsFiniteSet(A) /\ Cardinality(A) \in Nat /\ ReaderCount(b) = Cardinality(A)
      /\ A = {u \in PoolThreads : thr[u].node = b /\ thr[u].pc \in Reading}
  BY ReaderCountType DEF ReaderCount, Pool!Readers, Reading
<1>2. ReaderCount(b)' = Cardinality(B)
  BY DEF ReaderCount, Pool!Readers, Reading
<1>3. \A u \in PoolThreads \ {t} : u \in A <=> u \in B
  BY <1>1
<1>4. PICK x \in {0, 1} : x = Reads(thr[t], b) /\ (t \in A <=> x = 1)
  BY <1>1 DEF Reads
<1>5. PICK y \in {0, 1} : y = Reads(thr'[t], b) /\ (t \in B <=> y = 1)
  BY DEF Reads
<1>6. A \subseteq PoolThreads /\ B \subseteq PoolThreads
  BY <1>1
<1> HIDE DEF A, B
<1>7. PICK n \in Nat : n = Cardinality(A)
  BY <1>1
<1>8. CASE t \in A <=> t \in B
  <2>1. A = B /\ x = y
    BY <1>8, <1>3, <1>4, <1>5, <1>6
  <2>2. Cardinality(B) = n + y - x
    BY <2>1, <1>7
  <2> QED
    BY <2>2, <1>1, <1>2, <1>4, <1>5, <1>7
<1>9. CASE t \in A /\ t \notin B
  <2>1. B = A \ {t} /\ x = 1 /\ y = 0
    BY <1>9, <1>3, <1>4, <1>5, <1>6
  <2>2. Cardinality(B) = n - 1
    BY <2>1, <1>1, <1>7, <1>9, FS_RemoveElement
  <2>3. Cardinality(B) = n + y - x
    BY <2>1, <2>2
  <2> QED
    BY <2>3, <1>1, <1>2, <1>4, <1>5, <1>7
<1>10. CASE t \notin A /\ t \in B
  <2>1. B = A \cup {t} /\ x = 0 /\ y = 1
    BY <1>10, <1>3, <1>4, <1>5, <1>6
  <2>2. Cardinality(B) = n + 1
    BY <2>1, <1>1, <1>7, <1>10, FS_AddElement
  <2>3. Cardinality(B) = n + y - x
    BY <2>1, <2>2
  <2> QED
    BY <2>3, <1>1, <1>2, <1>4, <1>5, <1>7
<1> QED
  BY <1>8, <1>9, <1>10
-----------------------------------------------------------------------------
(* The records of the threads after the step of one of them. *)
LEMMA OneMoves ==
    ASSUME PoolShape, NEW t \in PoolThreads, NEW s \in Local, thr' = [thr EXCEPT ![t] = s]
    PROVE  /\ thr' \in [PoolThreads -> Local] /\ thr'[t] = s
           /\ \A u \in PoolThreads \ {t} : thr'[u] = thr[u]
<1>1. thr \in [PoolThreads -> Local]
  BY DEF PoolShape
<1> QED
  BY <1>1

(* The blocks that may ever have been on the list stay for good. *)
LEMMA SeenStays ==
    ASSUME PoolShape, recycle' = recycle, poolIndex' \in Nat, poolIndex' >= poolIndex,
           recycle = TRUE => live \subseteq live'
    PROVE  Seen \subseteq Seen'
<1>1. poolIndex \in Nat
  BY DEF PoolShape
<1>2. \A b \in Pool!Pool : b \in Nat
  BY PoolConstants DEF Pool!Pool
<1>3. \A b \in Pool!Pool : b <= poolIndex => b <= poolIndex'
  BY <1>1, <1>2
<1>4. ASSUME NEW b \in Seen
      PROVE  b \in Seen'
  <2>1. b \in Pool!Existing /\ (b \in Pool!Pool \/ recycle = TRUE)
    BY DEF Seen
  <2>2. CASE b \in Pool!Pool /\ b <= poolIndex
    BY <2>2, <1>3 DEF Seen, Pool!Existing, Pool!Pool
  <2>3. CASE b \in live /\ recycle = TRUE
    BY <2>3 DEF Seen, Pool!Existing
  <2>4. live \cap Pool!Pool = {}
    BY BlockNumbers DEF PoolShape
  <2> QED
    BY <2>1, <2>2, <2>3, <2>4 DEF Pool!Existing
<1> QED
  BY <1>4

(* Nothing is added to what exists if no block is taken from the initial   *)
(* pool and none is allocated or destroyed.                                *)
LEMMA SameBlocks ==
    ASSUME recycle' = recycle, poolIndex' = poolIndex, live' = live
    PROVE  Seen' = Seen /\ Pool!Existing' = Pool!Existing
  BY DEF Seen, Pool!Existing, Pool!Pool

(* Blocks that exist are blocks. *)
LEMMA ExistingBlocks ==
    ASSUME PoolShape
    PROVE  Pool!Existing \subseteq Pool!Blocks /\ Seen \subseteq Pool!Existing /\ 0 \notin Pool!Existing
  BY BlockNumbers DEF PoolShape, Pool!Existing, Seen

(* The list stays as it is if its head and its links do. *)
LEMMA ListStays ==
    ASSUME NEW k, NEW lst, ListOf(k, lst), Seen \subseteq Seen', poolHead' = poolHead,
           \A c \in Members(k, lst) : poolNext'[c] = poolNext[c]
    PROVE  ListOf(k, lst)'
<1>1. lst \in [1 .. k -> Seen']
  BY DEF ListOf
<1>2. \A i \in 1 .. k : poolNext'[lst[i]] = poolNext[lst[i]]
  BY DEF Members
<1> QED
  BY <1>1, <1>2 DEF ListOf

(* The types of the pool after a step that leaves the blocks that exist    *)
(* what they are.                                                          *)
LEMMA ShapeStays ==
    ASSUME PoolShape, NEW t \in PoolThreads, NEW s \in Local, thr' = [thr EXCEPT ![t] = s],
           recycle' = recycle, poolIndex' = poolIndex, live' = live, used' \subseteq Pool!Blocks,
           poolNext' \in [Pool!Blocks -> Pool!Blocks \cup {0}], refs' \in [Pool!Blocks -> Nat],
           recycle = FALSE => live \subseteq used',
           s.pc = "pool" => thr[t].pc = "pool" \/ poolIndex < PoolSize
    PROVE  PoolShape'
<1>1. /\ thr' \in [PoolThreads -> Local] /\ thr'[t] = s
      /\ \A u \in PoolThreads \ {t} : thr'[u] = thr[u]
  BY OneMoves
<1>2. poolIndex \in Nat /\ PoolSize \in Nat
  BY PoolConstants DEF PoolShape
<1>3. ASSUME poolIndex >= PoolSize
      PROVE  poolIndex + Cardinality(Waiting)' <= PoolSize + Cardinality(PoolThreads)
  <2>1. Waiting' \subseteq Waiting
    BY <1>1, <1>2, <1>3 DEF Waiting
  <2>2. Waiting \subseteq PoolThreads
    BY DEF Waiting
  <2>3. /\ Cardinality(Waiting) \in Nat /\ Cardinality(Waiting') \in Nat
        /\ Cardinality(Waiting') <= Cardinality(Waiting)
    BY <2>1, <2>2, PoolConstants, FS_Subset, FS_CardinalityType
  <2>4. poolIndex + Cardinality(Waiting) <= PoolSize + Cardinality(PoolThreads)
    BY <1>3 DEF PoolShape
  <2>5. poolIndex + Cardinality(Waiting') <= PoolSize + Cardinality(PoolThreads)
    BY <2>3, <2>4, <1>2, PoolConstants
  <2> QED
    BY <2>5
<1> QED
  BY <1>1, <1>3 DEF PoolShape

(* A thread reads or holds no block but b; a step that changes no block    *)
(* but b.                                                                  *)
WorksAt(r, b) == r.pc \in Reading \cup Holding => r.node = b
Untouched(b, L, M) ==
    \A c \in Pool!Blocks \ {b} : /\ refs'[c] = refs[c] /\ (c \in used' <=> c \in used)
                                 /\ (c \in M <=> c \in L)
                                 /\ (c \in Pool!Existing' <=> c \in Pool!Existing)

(* What a step does not touch: every block but b is as it was, and so is   *)
(* what the other threads know of the blocks they hold.                    *)
LEMMA OthersStay ==
    ASSUME NEW L, NEW M, NEW t \in PoolThreads, NEW s \in Local, NEW b,
           PoolShape, thr' = [thr EXCEPT ![t] = s],
           WorksAt(thr[t], b), WorksAt(s, b),
           Untouched(b, L, M)
    PROVE  /\ \A c \in Pool!Blocks \ {b} : BlockRight(c, L) => BlockRight(c, M)'
           /\ \A u \in PoolThreads \ {t} :
                 thr[u].node \in Pool!Blocks \ {b} /\ HolderRight(thr[u], L) => HolderRight(thr[u], M)'
           /\ \A c \in Pool!Blocks \ {b} : ReaderCount(c)' = ReaderCount(c)
<1>1. thr'[t] = s /\ \A u \in PoolThreads \ {t} : thr'[u] = thr[u]
  BY OneMoves
<1>2. ASSUME NEW c \in Pool!Blocks \ {b}
      PROVE  ReaderCount(c)' = ReaderCount(c)
  <2>1. Reads(s, c) = 0 /\ Reads(thr[t], c) = 0
    BY DEF Reads, WorksAt
  <2>2. ReaderCount(c)' = ReaderCount(c) + Reads(thr'[t], c) - Reads(thr[t], c)
    BY <1>1, ReadersChange
  <2> QED
    BY <1>1, <2>1, <2>2, ReaderCountType
<1>3. ASSUME NEW c \in Pool!Blocks \ {b}
      PROVE  Held(c)' <=> Held(c)
  BY <1>1 DEF Held, WorksAt
<1>4. ASSUME NEW c \in Pool!Blocks \ {b}, BlockRight(c, L)
      PROVE  BlockRight(c, M)'
  <2>1. ReaderCount(c)' = ReaderCount(c) /\ (Held(c)' <=> Held(c))
    BY <1>2, <1>3
  <2>2. /\ refs'[c] = refs[c] /\ (c \in used' <=> c \in used) /\ (c \in M <=> c \in L)
        /\ c \in Pool!Existing' <=> c \in Pool!Existing
    BY DEF Untouched
  <2> QED
    BY <1>4, <2>1, <2>2 DEF BlockRight, GivenUp
<1>5. ASSUME NEW u \in PoolThreads \ {t}, thr[u].node \in Pool!Blocks \ {b}, HolderRight(thr[u], L)
      PROVE  HolderRight(thr[u], M)'
  <2>1. PICK r : r = thr[u]
    OBVIOUS
  <2>2. thr'[u] = r
    BY <1>1, <2>1
  <2>3. ReaderCount(r.node)' = ReaderCount(r.node)
    BY <1>2, <1>5, <2>1
  <2>4. /\ refs'[r.node] = refs[r.node] /\ (r.node \in used' <=> r.node \in used)
        /\ (r.node \in M <=> r.node \in L)
    BY <1>5, <2>1 DEF Untouched
  <2>5. HolderRight(r, L)
    BY <1>5, <2>1
  <2>6. HolderRight(r, M)'
    BY <2>3, <2>4, <2>5 DEF HolderRight
  <2> QED
    BY <2>1, <2>2, <2>6
<1> QED
  BY <1>2, <1>4, <1>5
-----------------------------------------------------------------------------
(* A thread knows the same after a step that is not its own, if the next   *)
(* block of the one it has in hands stays.                                 *)
LEMMA KnowledgeStays ==
    ASSUME NEW r \in Local, ThreadRight(r), Seen \subseteq Seen',
           r.pc \in {"pop", "one", "push"} => poolNext'[r.node] = poolNext[r.node]
    PROVE  ThreadRight(r)'
  BY DEF ThreadRight, Pool!Count, Pool!SHOULD_BE_ON_FREELIST

(* What the other threads know of the block after the one they have in     *)
(* hands stays; and whoever else holds b is right about it.                *)
NextKept(t) ==
    \A u \in PoolThreads \ {t} :
       thr[u].pc \in {"pop", "one", "push"} => poolNext'[thr[u].node] = poolNext[thr[u].node]
OtherHolders(t, s, b, M) ==
    \A u \in PoolThreads \ {t} :
       thr[u].pc \in Holding /\ thr[u].node = b => s.pc \notin Holding /\ (HolderRight(thr[u], M))'

(* A step of one thread at one block: what is left to show.                *)
LEMMA OneBlockStep ==
    ASSUME NEW k, NEW lst, PoolWith(k, lst),
           NEW m \in Nat, NEW new, NEW M, M = Members(m, new),
           NEW t \in PoolThreads, NEW s \in Local, NEW b, thr' = [thr EXCEPT ![t] = s],
           WorksAt(thr[t], b), WorksAt(s, b),
           Untouched(b, Members(k, lst), M),
           PoolShape', Seen \subseteq Seen', ListOf(m, new)',
           NextKept(t), (ThreadRight(s))', (HolderRight(s, M))', OtherHolders(t, s, b, M),
           b \in Pool!Blocks => (BlockRight(b, M))'
    PROVE  PoolInv'
<1>0. PICK L : L = Members(k, lst)
  OBVIOUS
<1>1. /\ PoolShape /\ OneHolder /\ ListOf(k, lst)
      /\ \A u \in PoolThreads : ThreadRight(thr[u]) /\ HolderRight(thr[u], L)
      /\ \A c \in Pool!Blocks : BlockRight(c, L)
  BY <1>0 DEF PoolWith
<1>2. thr'[t] = s /\ \A u \in PoolThreads \ {t} : thr'[u] = thr[u]
  BY <1>1, OneMoves
<1>3. /\ \A c \in Pool!Blocks \ {b} : BlockRight(c, L) => BlockRight(c, M)'
      /\ \A u \in PoolThreads \ {t} :
            thr[u].node \in Pool!Blocks \ {b} /\ HolderRight(thr[u], L) => HolderRight(thr[u], M)'
  <2>1. Untouched(b, L, M)
    BY <1>0
  <2> QED
    BY <1>1, <2>1, OthersStay
<1>4. \A c \in Pool!Blocks : BlockRight(c, M)'
  BY <1>1, <1>3
<1>5. ASSUME NEW u \in PoolThreads
      PROVE  ThreadRight(thr[u])'
  <2>1. CASE u = t
    BY <2>1, <1>2
  <2>2. CASE u # t
    <3>1. PICK r \in Local : r = thr[u]
      BY <1>1 DEF PoolShape
    <3>2. thr'[u] = r
      BY <3>1, <2>2, <1>2
    <3>3. ThreadRight(r)
      BY <3>1, <1>1
    <3>4. r.pc \in {"pop", "one", "push"} => poolNext'[r.node] = poolNext[r.node]
      BY <3>1, <2>2 DEF NextKept
    <3>5. ThreadRight(r)'
      BY <3>3, <3>4, KnowledgeStays
    <3> QED
      BY <3>2, <3>5
  <2> QED
    BY <2>1, <2>2
<1>6. ASSUME NEW u \in PoolThreads
      PROVE  HolderRight(thr[u], M)'
  <2>1. CASE u = t
    BY <2>1, <1>2
  <2>2. CASE u # t /\ thr[u].pc \in Holding
    <3>1. thr[u].node \in Pool!Blocks
      <4>1. thr[u].node \in Seen
        BY <1>1, <2>2 DEF ThreadRight
      <4> QED
        BY <4>1, <1>1, ExistingBlocks
    <3>2. CASE thr[u].node = b
      BY <3>2, <2>2 DEF OtherHolders
    <3>3. CASE thr[u].node # b
      BY <3>1, <3>3, <2>2, <1>1, <1>3
    <3> QED
      BY <3>2, <3>3
  <2>3. CASE u # t /\ thr[u].pc \notin Holding
    <3>1. thr'[u].pc \notin Holding
      BY <2>3, <1>2 DEF WorksAt, OtherHolders
    <3> QED
      BY <3>1 DEF HolderRight, Holding, Adding, Zeroed, Pushing
  <2> QED
    BY <2>1, <2>2, <2>3
<1>7. OneHolder'
  <2> SUFFICES ASSUME NEW u \in PoolThreads, NEW v \in PoolThreads,
                      thr'[u].pc \in Holding, thr'[v].pc \in Holding, thr'[u].node = thr'[v].node, u # v
               PROVE  FALSE
    BY DEF OneHolder
  <2>1. CASE u # t /\ v # t
    BY <2>1, <1>1, <1>2 DEF OneHolder
  <2>2. CASE u = t
    BY <2>2, <1>2 DEF WorksAt, OtherHolders
  <2>3. CASE v = t
    BY <2>3, <1>2 DEF WorksAt, OtherHolders
  <2> QED
    BY <2>1, <2>2, <2>3
<1>8. PoolWith(m, new)'
  BY <1>4, <1>5, <1>6, <1>7 DEF PoolWith
<1> QED
  BY <1>8 DEF PoolInv, PoolWith, ListOf
-----------------------------------------------------------------------------
(* A step that changes what a thread knows but not what it holds and       *)
(* reads.                                                                  *)
SameWork(r, s) ==
    /\ r.pc \in Reading <=> s.pc \in Reading
    /\ r.pc \in Holding <=> s.pc \in Holding
    /\ r.pc \in Reading \cup Holding => r.node = s.node
    /\ r.pc = "flag" <=> s.pc = "flag"
    /\ r.pc \in Zeroed <=> s.pc \in Zeroed
    /\ r.pc \in Pushing \cup {"took"} <=> s.pc \in Pushing \cup {"took"}

(* Such a step, which may also change the link of a block that is not on   *)
(* the list.                                                               *)
LEMMA SameWorkStep ==
    ASSUME NEW k, NEW lst, PoolWith(k, lst), NEW t \in PoolThreads, NEW s \in Local,
           thr' = [thr EXCEPT ![t] = s], SameWork(thr[t], s),
           recycle' = recycle, poolIndex' = poolIndex, live' = live, used' = used, refs' = refs,
           poolNext' \in [Pool!Blocks -> Pool!Blocks \cup {0}], ListOf(k, lst)', NextKept(t),
           (ThreadRight(s))', s.pc = "pool" => thr[t].pc = "pool" \/ poolIndex < PoolSize
    PROVE  PoolInv'
<1>0. PICK L : L = Members(k, lst)
  OBVIOUS
<1>1. /\ PoolShape /\ OneHolder /\ ListOf(k, lst)
      /\ \A u \in PoolThreads : ThreadRight(thr[u]) /\ HolderRight(thr[u], L)
      /\ \A c \in Pool!Blocks : BlockRight(c, L)
  BY <1>0 DEF PoolWith
<1>2. thr'[t] = s /\ \A u \in PoolThreads \ {t} : thr'[u] = thr[u]
  BY <1>1, OneMoves
<1>3. PICK r \in Local : r = thr[t]
  BY <1>1 DEF PoolShape
<1>4. PICK b : b = r.node
  OBVIOUS
<1>5. WorksAt(thr[t], b) /\ WorksAt(s, b)
  BY <1>3, <1>4 DEF WorksAt, SameWork
<1>6. Seen' = Seen /\ Pool!Existing' = Pool!Existing
  BY SameBlocks
<1>7. Untouched(b, L, L)
  BY <1>6 DEF Untouched
<1>8. PoolShape'
  BY <1>1, ShapeStays DEF PoolShape
<1>9. \A c : ReaderCount(c)' = ReaderCount(c)
  <2> SUFFICES ASSUME NEW c
               PROVE  ReaderCount(c)' = ReaderCount(c)
    OBVIOUS
  <2>1. PICK x \in {0, 1} : x = Reads(r, c)
    BY DEF Reads
  <2>2. Reads(s, c) = x
    BY <2>1, <1>3 DEF Reads, SameWork
  <2>3. ReaderCount(c)' = ReaderCount(c) + Reads(thr'[t], c) - Reads(thr[t], c)
    BY <1>2, ReadersChange
  <2>4. ReaderCount(c)' = ReaderCount(c) + x - x
    BY <2>1, <2>2, <2>3, <1>2, <1>3
  <2> QED
    BY <2>4, ReaderCountType
<1>10. \A c : Held(c)' <=> Held(c)
  BY <1>2 DEF Held, SameWork
<1>11. HolderRight(s, L)'
  <2>1. HolderRight(r, L)
    BY <1>1, <1>3
  <2> QED
    BY <2>1, <1>3, <1>9 DEF SameWork, HolderRight, Holding, Adding
<1>12. OtherHolders(t, s, b, L)
  <2> SUFFICES ASSUME NEW u \in PoolThreads \ {t}, thr[u].pc \in Holding, thr[u].node = b
               PROVE  s.pc \notin Holding /\ (HolderRight(thr[u], L))'
    BY DEF OtherHolders
  <2>1. r.pc \notin Holding
    BY <1>1, <1>3, <1>4 DEF OneHolder
  <2>2. PICK q : q = thr[u]
    OBVIOUS
  <2>3. HolderRight(q, L) /\ thr'[u] = q
    BY <2>2, <1>1, <1>2
  <2>4. HolderRight(q, L)'
    BY <2>3, <1>9 DEF HolderRight
  <2> QED
    BY <2>1, <2>2, <2>3, <2>4, <1>3 DEF SameWork
<1>13. b \in Pool!Blocks => (BlockRight(b, L))'
  <2>1. b \in Pool!Blocks => BlockRight(b, L)
    BY <1>1
  <2> QED
    BY <2>1, <1>6, <1>9, <1>10 DEF BlockRight, GivenUp
<1>14. k \in Nat /\ Seen \subseteq Seen'
  BY <1>1, <1>6 DEF ListOf
<1> QED
  BY <1>0, <1>5, <1>7, <1>8, <1>11, <1>12, <1>13, <1>14, OneBlockStep

(* Such a step that changes no block at all.                               *)
LEMMA ThreadOnly ==
    ASSUME NEW k, NEW lst, PoolWith(k, lst), NEW t \in PoolThreads, NEW s \in Local,
           thr' = [thr EXCEPT ![t] = s], SameWork(thr[t], s), ThreadRight(s),
           UNCHANGED <<recycle, poolIndex, poolHead, poolNext, refs, used, live>>,
           s.pc = "pool" => thr[t].pc = "pool" \/ poolIndex < PoolSize
    PROVE  PoolInv'
<1>1. PoolShape /\ ListOf(k, lst)
  BY DEF PoolWith
<1>2. Seen' = Seen
  BY SameBlocks
<1>3. ListOf(k, lst)'
  BY <1>1, <1>2, ListStays
<1>4. NextKept(t)
  BY DEF NextKept
<1>5. ThreadRight(s)'
  BY <1>2, KnowledgeStays
<1>6. poolNext' \in [Pool!Blocks -> Pool!Blocks \cup {0}]
  BY <1>1 DEF PoolShape
<1> QED
  BY <1>3, <1>4, <1>5, <1>6, SameWorkStep
-----------------------------------------------------------------------------
(* A thread goes to another place and keeps its local variables. *)
LEMMA GotoRecord ==
    ASSUME PoolShape, NEW t \in PoolThreads, NEW l \in Looking \cup Reading \cup Adding, Pool!Goto(t, l)
    PROVE  \E s \in Local : /\ thr' = [thr EXCEPT ![t] = s] /\ s.pc = l
                            /\ s.node = thr[t].node /\ s.head = thr[t].head
                            /\ s.aux = thr[t].aux /\ s.back = thr[t].back
<1>1. PICK r \in Local : r = thr[t]
  BY DEF PoolShape
<1>2. thr' = [thr EXCEPT ![t] = [r EXCEPT !.pc = l]]
  BY <1>1 DEF Pool!Goto
<1>3. /\ [r EXCEPT !.pc = l] \in Local /\ [r EXCEPT !.pc = l].pc = l
      /\ [r EXCEPT !.pc = l].node = r.node /\ [r EXCEPT !.pc = l].head = r.head
      /\ [r EXCEPT !.pc = l].aux = r.aux /\ [r EXCEPT !.pc = l].back = r.back
  BY <1>1 DEF Local
<1> QED
  BY <1>1, <1>2, <1>3

(* The same with the head it has just loaded. *)
LEMMA GotoWithRecord ==
    ASSUME PoolShape, NEW t \in PoolThreads, NEW l \in Looking \cup Reading \cup Adding,
           NEW h \in Pool!Blocks \cup {0}, Pool!GotoWith(t, l, h)
    PROVE  \E s \in Local : /\ thr' = [thr EXCEPT ![t] = s] /\ s.pc = l
                            /\ s.node = thr[t].node /\ s.head = h
                            /\ s.aux = thr[t].aux /\ s.back = thr[t].back
<1>1. PICK r \in Local : r = thr[t]
  BY DEF PoolShape
<1>2. thr' = [thr EXCEPT ![t] = [r EXCEPT !.pc = l, !.head = h]]
  BY <1>1 DEF Pool!GotoWith, PoolShape
<1>3. /\ [r EXCEPT !.pc = l, !.head = h] \in Local /\ [r EXCEPT !.pc = l, !.head = h].pc = l
      /\ [r EXCEPT !.pc = l, !.head = h].node = r.node /\ [r EXCEPT !.pc = l, !.head = h].head = h
      /\ [r EXCEPT !.pc = l, !.head = h].aux = r.aux /\ [r EXCEPT !.pc = l, !.head = h].back = r.back
  BY <1>1 DEF Local
<1> QED
  BY <1>1, <1>2, <1>3

(* The end of a call. *)
LEMMA IdleRecord ==
    /\ Pool!Idle \in Local /\ Pool!Idle.pc = "idle" /\ Pool!Idle.node = 0 /\ Pool!Idle.head = 0
    /\ ThreadRight(Pool!Idle)
<1>1. Pool!Idle \in Local
  BY DEF Pool!Idle, Pool!NULL, Local, Looking
<1>2. Pool!Idle.pc = "idle" /\ Pool!Idle.node = 0 /\ Pool!Idle.head = 0
  BY DEF Pool!Idle, Pool!NULL
<1> QED
  BY <1>1, <1>2 DEF ThreadRight, Reading, Holding, Adding, Zeroed, Pushing

(* The end of an addition to the list: of the call, or back to try_get().  *)
LEMMA EndAddRecord ==
    ASSUME PoolShape, NEW t \in PoolThreads, thr[t].pc \in Adding, ThreadRight(thr[t]), Pool!EndAdd(t)
    PROVE  \E s \in Local : thr' = [thr EXCEPT ![t] = s] /\ s.pc \in {"idle", "loop"} /\ ThreadRight(s)
<1>1. PICK r \in Local : r = thr[t]
  BY DEF PoolShape
<1>2. CASE r.back = "idle"
  <2>1. thr' = [thr EXCEPT ![t] = Pool!Idle]
    BY <1>1, <1>2 DEF Pool!EndAdd, PoolShape
  <2> QED
    BY <2>1, IdleRecord
<1>3. CASE r.back # "idle"
  <2>1. thr' = [thr EXCEPT ![t] = [Pool!Idle EXCEPT !.pc = "loop", !.head = r.aux]]
    BY <1>1, <1>3 DEF Pool!EndAdd, PoolShape
  <2>2. PICK s : s = [Pool!Idle EXCEPT !.pc = "loop", !.head = r.aux]
    OBVIOUS
  <2>3. r.aux \in Seen \cup {0}
    BY <1>1 DEF ThreadRight
  <2>4. r.aux \in Pool!Blocks \cup {0}
    BY <2>3, ExistingBlocks
  <2>5. s \in Local /\ s.pc = "loop" /\ s.node = 0 /\ s.head = r.aux
    BY <2>2, <2>4, IdleRecord DEF Local, Looking
  <2>6. ThreadRight(s)
    BY <2>3, <2>5 DEF ThreadRight, Reading, Holding, Adding, Zeroed, Pushing
  <2> QED
    BY <2>1, <2>2, <2>5, <2>6
<1> QED
  BY <1>2, <1>3
-----------------------------------------------------------------------------
(* The head of the list and the links on it are blocks of the list. *)
LEMMA HeadSeen ==
    ASSUME PoolShape, NEW k, NEW lst, ListOf(k, lst)
    PROVE  /\ poolHead \in Seen \cup {0} /\ poolHead \in Pool!Blocks \cup {0}
           /\ poolHead # 0 => poolHead \in Members(k, lst)
           /\ \A c \in Members(k, lst) : c \in Seen /\ poolNext[c] \in Seen \cup {0}
<1>1. \A c \in Members(k, lst) : c \in Seen /\ poolNext[c] \in Seen \cup {0}
  <2> SUFFICES ASSUME NEW i \in 1 .. k
               PROVE  lst[i] \in Seen /\ poolNext[lst[i]] \in Seen \cup {0}
    BY DEF Members
  <2> QED
    BY DEF ListOf
<1>2. poolHead # 0 => poolHead \in Members(k, lst)
  BY DEF ListOf, Members
<1> QED
  BY <1>1, <1>2, ExistingBlocks

(* What a thread knows does not matter to what it holds. *)
LEMMA FreeToMove ==
    ASSUME NEW r, NEW s, r.pc \in Looking, s.pc \in Looking
    PROVE  SameWork(r, s)
  BY DEF SameWork, Looking, Reading, Holding, Adding, Zeroed, Pushing

(* Requisition preserves the invariant. *)
LEMMA RequisitionKeeps == ASSUME PoolInv, NEW t \in PoolThreads, Pool!Requisition(t) PROVE PoolInv'
<1>1. PICK k, lst : PoolWith(k, lst)
  BY DEF PoolInv
<1>2. PoolShape /\ ThreadRight(thr[t])
  BY <1>1 DEF PoolWith
<1>3. PICK l \in {"load", "pool"} : Pool!Goto(t, l) /\ (l = "pool" => poolIndex < PoolSize)
  BY <1>2, PoolConstants DEF Pool!Requisition, PoolShape
<1>4. l \in Looking
  BY DEF Looking
<1>5. PICK s \in Local : /\ thr' = [thr EXCEPT ![t] = s] /\ s.pc = l
                         /\ s.node = thr[t].node /\ s.head = thr[t].head
  BY <1>2, <1>3, <1>4, GotoRecord
<1>6. thr[t].pc \in Looking
  BY DEF Pool!Requisition, Pool!At, Looking
<1>7. SameWork(thr[t], s)
  BY <1>4, <1>5, <1>6, FreeToMove
<1>8. ThreadRight(s)
  BY <1>2, <1>5 DEF ThreadRight, Reading, Holding, Adding, Zeroed, Pushing
<1>9. UNCHANGED <<recycle, poolIndex, poolHead, poolNext, refs, used, live>>
  BY DEF Pool!Requisition
<1> QED
  BY <1>1, <1>3, <1>5, <1>7, <1>8, <1>9, ThreadOnly

(* LoadHead preserves the invariant. *)
LEMMA LoadHeadKeeps == ASSUME PoolInv, NEW t \in PoolThreads, Pool!LoadHead(t) PROVE PoolInv'
<1>1. PICK k, lst : PoolWith(k, lst)
  BY DEF PoolInv
<1>2. PoolShape /\ ThreadRight(thr[t]) /\ ListOf(k, lst)
  BY <1>1 DEF PoolWith
<1>3. Pool!GotoWith(t, "loop", poolHead) /\ "loop" \in Looking
  BY DEF Pool!LoadHead, Looking
<1>4. poolHead \in Seen \cup {0} /\ poolHead \in Pool!Blocks \cup {0}
  BY <1>2, HeadSeen
<1>5. PICK s \in Local : /\ thr' = [thr EXCEPT ![t] = s] /\ s.pc = "loop"
                         /\ s.node = thr[t].node /\ s.head = poolHead
  BY <1>2, <1>3, <1>4, GotoWithRecord
<1>6. thr[t].pc \in Looking
  BY DEF Pool!LoadHead, Pool!At, Looking
<1>7. SameWork(thr[t], s)
  BY <1>3, <1>5, <1>6, FreeToMove
<1>8. ThreadRight(s)
  BY <1>2, <1>4, <1>5 DEF ThreadRight, Reading, Holding, Adding, Zeroed, Pushing
<1>9. UNCHANGED <<recycle, poolIndex, poolHead, poolNext, refs, used, live>>
  BY DEF Pool!LoadHead
<1> QED
  BY <1>1, <1>5, <1>7, <1>8, <1>9, ThreadOnly

(* LoadRefs preserves the invariant. *)
LEMMA LoadRefsKeeps == ASSUME PoolInv, NEW t \in PoolThreads, Pool!LoadRefs(t) PROVE PoolInv'
<1>1. PICK k, lst : PoolWith(k, lst)
  BY DEF PoolInv
<1>2. PoolShape /\ ThreadRight(thr[t])
  BY <1>1 DEF PoolWith
<1>3. PICK r \in Local : r = thr[t]
  BY <1>2 DEF PoolShape
<1>4. /\ UNCHANGED <<recycle, poolIndex, poolHead, poolNext, refs, used, live>>
      /\ r.pc = "loop" /\ r.head # 0
      /\ IF Pool!Count(refs[r.head]) = 0 THEN Pool!Goto(t, "load")
         ELSE thr' = [thr EXCEPT ![t] = [@ EXCEPT !.pc = "ref", !.node = r.head, !.aux = refs[r.head]]]
  BY <1>3 DEF Pool!LoadRefs, Pool!At, Pool!NULL
<1>5. r.head \in Seen /\ refs[r.head] \in Nat /\ r.head \in Pool!Blocks
  <2>1. r.head \in Seen
    BY <1>2, <1>3, <1>4 DEF ThreadRight
  <2> QED
    BY <2>1, <1>2, ExistingBlocks DEF PoolShape
<1>6. PICK n \in Nat : n = refs[r.head]
  BY <1>5
<1>7. \E s \in Local : thr' = [thr EXCEPT ![t] = s] /\ s.pc \in {"load", "ref"} /\ ThreadRight(s)
  <2>1. CASE Pool!Count(n) = 0
    <3>1. Pool!Goto(t, "load") /\ "load" \in Looking
      BY <2>1, <1>4, <1>6 DEF Looking
    <3>2. PICK s \in Local : /\ thr' = [thr EXCEPT ![t] = s] /\ s.pc = "load"
                             /\ s.node = thr[t].node /\ s.head = thr[t].head
      BY <1>2, <3>1, GotoRecord
    <3>3. ThreadRight(s)
      BY <1>2, <3>2 DEF ThreadRight, Reading, Holding, Adding, Zeroed, Pushing
    <3> QED
      BY <3>2, <3>3
  <2>2. CASE Pool!Count(n) # 0
    <3>1. thr' = [thr EXCEPT ![t] = [r EXCEPT !.pc = "ref", !.node = r.head, !.aux = n]]
      BY <2>2, <1>3, <1>4, <1>6
    <3>2. PICK s : s = [r EXCEPT !.pc = "ref", !.node = r.head, !.aux = n]
      OBVIOUS
    <3>3. s \in Local /\ s.pc = "ref" /\ s.node = r.head /\ s.head = r.head /\ s.aux = n
      BY <3>2, <1>5 DEF Local, Looking
    <3>4. ThreadRight(s)
      BY <3>3, <2>2, <1>5 DEF ThreadRight, Reading, Holding, Adding, Zeroed, Pushing
    <3> QED
      BY <3>1, <3>2, <3>3, <3>4
  <2> QED
    BY <2>1, <2>2
<1>8. PICK s \in Local : thr' = [thr EXCEPT ![t] = s] /\ s.pc \in {"load", "ref"} /\ ThreadRight(s)
  BY <1>7
<1>9. SameWork(thr[t], s)
  BY <1>3, <1>4, <1>8, FreeToMove DEF Looking
<1> QED
  BY <1>1, <1>4, <1>8, <1>9, ThreadOnly

(* LoadNext preserves the invariant. *)
LEMMA LoadNextKeeps == ASSUME PoolInv, NEW t \in PoolThreads, Pool!LoadNext(t) PROVE PoolInv'
<1>1. PICK k, lst : PoolWith(k, lst)
  BY DEF PoolInv
<1>2. PoolShape /\ ThreadRight(thr[t])
  BY <1>1 DEF PoolWith
<1>3. PICK r \in Local : r = thr[t]
  BY <1>2 DEF PoolShape
<1>4. PICK n : n = poolNext[r.node]
  OBVIOUS
<1>5. /\ UNCHANGED <<recycle, poolIndex, poolHead, poolNext, refs, used, live>>
      /\ r.pc = "next" /\ thr' = [thr EXCEPT ![t] = [r EXCEPT !.pc = "pop", !.aux = n]]
  BY <1>2, <1>3, <1>4 DEF Pool!LoadNext, Pool!At, PoolShape
<1>6. r.node \in Pool!Blocks
  BY <1>2, <1>3, <1>5, ExistingBlocks DEF ThreadRight, Reading
<1>7. n \in Nat
  <2>1. n \in Pool!Blocks \cup {0}
    BY <1>2, <1>4, <1>6 DEF PoolShape
  <2> QED
    BY <2>1, BlockNumbers, PoolConstants
<1>8. PICK s : s = [r EXCEPT !.pc = "pop", !.aux = n]
  OBVIOUS
<1>9. s \in Local /\ s.pc = "pop" /\ s.node = r.node /\ s.head = r.head /\ s.aux = n
  BY <1>7, <1>8 DEF Local, Reading
<1>10. ThreadRight(s)
  BY <1>2, <1>3, <1>4, <1>5, <1>9 DEF ThreadRight, Reading, Holding, Adding, Zeroed, Pushing
<1>11. SameWork(thr[t], s)
  BY <1>3, <1>5, <1>9 DEF SameWork, Reading, Holding, Adding, Zeroed, Pushing
<1> QED
  BY <1>1, <1>5, <1>8, <1>9, <1>10, <1>11, ThreadOnly

(* AddLoadHead preserves the invariant. *)
LEMMA AddLoadHeadKeeps == ASSUME PoolInv, NEW t \in PoolThreads, Pool!AddLoadHead(t) PROVE PoolInv'
<1>1. PICK k, lst : PoolWith(k, lst)
  BY DEF PoolInv
<1>2. PoolShape /\ ThreadRight(thr[t]) /\ ListOf(k, lst)
  BY <1>1 DEF PoolWith
<1>3. /\ Pool!GotoWith(t, "store", poolHead) /\ "store" \in Adding /\ thr[t].pc = "addLoad"
      /\ UNCHANGED <<recycle, poolIndex, poolHead, poolNext, refs, used, live>>
  BY DEF Pool!AddLoadHead, Pool!At, Adding, Zeroed
<1>4. poolHead \in Seen \cup {0} /\ poolHead \in Pool!Blocks \cup {0}
  BY <1>2, HeadSeen
<1>5. PICK s \in Local : /\ thr' = [thr EXCEPT ![t] = s] /\ s.pc = "store"
                         /\ s.node = thr[t].node /\ s.head = poolHead /\ s.aux = thr[t].aux
  BY <1>2, <1>3, <1>4, GotoWithRecord
<1>6. SameWork(thr[t], s)
  BY <1>3, <1>5 DEF SameWork, Reading, Holding, Adding, Zeroed, Pushing
<1>7. ThreadRight(s)
  BY <1>2, <1>3, <1>4, <1>5 DEF ThreadRight, Reading, Holding, Adding, Zeroed, Pushing
<1> QED
  BY <1>1, <1>3, <1>5, <1>6, <1>7, ThreadOnly

(* StoreNext preserves the invariant: nobody else looks at the link. *)
LEMMA StoreNextKeeps == ASSUME PoolInv, NEW t \in PoolThreads, Pool!StoreNext(t) PROVE PoolInv'
<1>1. PICK k, lst : PoolWith(k, lst)
  BY DEF PoolInv
<1>2. PICK L : L = Members(k, lst)
  OBVIOUS
<1>3. /\ PoolShape /\ OneHolder /\ ListOf(k, lst) /\ ThreadRight(thr[t]) /\ HolderRight(thr[t], L)
      /\ \A u \in PoolThreads : thr[u].pc \in Reading => ReaderCount(thr[u].node) > 0
  BY <1>1, <1>2, SomebodyReads DEF PoolWith
<1>4. PICK r \in Local : r = thr[t]
  BY <1>3 DEF PoolShape
<1>5. /\ Pool!Goto(t, "one") /\ "one" \in Adding /\ r.pc = "store"
      /\ poolNext' = [poolNext EXCEPT ![r.node] = r.head]
      /\ recycle' = recycle /\ poolIndex' = poolIndex /\ live' = live /\ used' = used /\ refs' = refs
      /\ poolHead' = poolHead
  BY <1>4 DEF Pool!StoreNext, Pool!At, Adding, Zeroed
<1>6. PICK s \in Local : /\ thr' = [thr EXCEPT ![t] = s] /\ s.pc = "one"
                         /\ s.node = r.node /\ s.head = r.head /\ s.aux = r.aux
  BY <1>3, <1>4, <1>5, GotoRecord
<1>7. SameWork(thr[t], s)
  BY <1>4, <1>5, <1>6 DEF SameWork, Reading, Holding, Adding, Zeroed, Pushing
<1>8. r.node \in Seen /\ r.node \in Pool!Blocks /\ r.node \notin L /\ ReaderCount(r.node) = 0
  BY <1>3, <1>4, <1>5, ExistingBlocks DEF ThreadRight, HolderRight, Holding, Adding, Zeroed
<1>9. /\ poolNext' \in [Pool!Blocks -> Pool!Blocks \cup {0}] /\ poolNext'[r.node] = r.head
      /\ \A c \in Pool!Blocks : c # r.node => poolNext'[c] = poolNext[c]
  BY <1>3, <1>5, <1>8 DEF PoolShape, Local
<1>10. Seen' = Seen
  BY <1>5, SameBlocks
<1>11. ListOf(k, lst)'
  <2>1. \A c \in Members(k, lst) : poolNext'[c] = poolNext[c]
    BY <1>2, <1>3, <1>8, <1>9, HeadSeen, ExistingBlocks
  <2> QED
    BY <2>1, <1>3, <1>5, <1>10, ListStays
<1>12. NextKept(t)
  <2> SUFFICES ASSUME NEW u \in PoolThreads \ {t}, thr[u].pc \in {"pop", "one", "push"}
               PROVE  poolNext'[thr[u].node] = poolNext[thr[u].node]
    BY DEF NextKept
  <2>1. thr[u].node # r.node
    BY <1>3, <1>4, <1>5, <1>8 DEF OneHolder, Reading, Holding, Adding, Zeroed, Pushing
  <2>2. thr[u].node \in Pool!Blocks
    BY <1>1, <1>3, ExistingBlocks DEF PoolWith, ThreadRight, Reading, Holding, Adding, Zeroed, Pushing
  <2> QED
    BY <2>1, <2>2, <1>9
<1>13. ThreadRight(s)'
  BY <1>3, <1>4, <1>5, <1>6, <1>8, <1>9, <1>10 DEF ThreadRight, Reading, Holding, Adding, Zeroed, Pushing
<1> QED
  BY <1>1, <1>5, <1>6, <1>7, <1>9, <1>11, <1>12, <1>13, SameWorkStep
-----------------------------------------------------------------------------
(* Counts of references, with and without the flag. *)
LEMMA CountValue ==
    \A n \in 0 .. Mask : Pool!Count(n) = n /\ Pool!Count(Mask + 1 + n) = n /\ n < Mask + 1
<1> SUFFICES ASSUME NEW n \in 0 .. Mask
             PROVE  Pool!Count(n) = n /\ Pool!Count(Mask + 1 + n) = n /\ n < Mask + 1
  OBVIOUS
<1>1. PICK s \in Nat : s = Mask + 1 /\ n \in 0 .. s - 1 /\ s > 0
  BY PoolConstants
<1>2. \A i \in 0 .. s - 1 : i % s = i
  BY <1>1, Z3
<1>3. \A i \in 0 .. s - 1 : (s + i) % s = i
  BY <1>1, Z3
<1>4. n % s = n /\ (s + n) % s = n
  BY <1>1, <1>2, <1>3
<1>5. Pool!Count(n) = n % s /\ Pool!Count(Mask + 1 + n) = (s + n) % s
  BY <1>1 DEF Pool!Count, Pool!SHOULD_BE_ON_FREELIST
<1> QED
  BY <1>1, <1>4, <1>5

(* A new count for one block. *)
LEMMA OneCount ==
    ASSUME PoolShape, NEW b \in Pool!Blocks, NEW n \in Nat, refs' = [refs EXCEPT ![b] = n]
    PROVE  /\ refs' \in [Pool!Blocks -> Nat] /\ refs'[b] = n
           /\ \A c \in Pool!Blocks \ {b} : refs'[c] = refs[c]
  BY DEF PoolShape
-----------------------------------------------------------------------------
(* TakeRef preserves the invariant: a count that is not zero still means   *)
(* what it meant, so that the reference taken is one.                      *)
LEMMA TakeRefKeeps == ASSUME PoolInv, NEW t \in PoolThreads, Pool!TakeRef(t) PROVE PoolInv'
<1>1. PICK k, lst : PoolWith(k, lst)
  BY DEF PoolInv
<1>2. PICK L : L = Members(k, lst)
  OBVIOUS
<1>3. /\ PoolShape /\ OneHolder /\ ListOf(k, lst) /\ k \in Nat /\ ThreadRight(thr[t])
      /\ \A u \in PoolThreads : HolderRight(thr[u], L)
      /\ \A c \in Pool!Blocks : BlockRight(c, L)
  BY <1>1, <1>2 DEF PoolWith, ListOf
<1>4. PICK r \in Local : r = thr[t]
  BY <1>3 DEF PoolShape
<1>5. PICK b : b = r.node
  OBVIOUS
<1>6. /\ r.pc = "ref" /\ recycle' = recycle /\ poolIndex' = poolIndex /\ poolHead' = poolHead
      /\ poolNext' = poolNext /\ live' = live /\ used' = used
      /\ IF refs[b] = r.aux THEN Pool!Subtract(b, -1) /\ Pool!Goto(t, "next")
         ELSE Pool!Goto(t, "load") /\ UNCHANGED refs
  BY <1>4, <1>5 DEF Pool!TakeRef, Pool!At
<1>7. b \in Seen /\ b \in Pool!Existing /\ b \in Pool!Blocks /\ Pool!Count(r.aux) # 0
  BY <1>3, <1>4, <1>5, <1>6, ExistingBlocks DEF ThreadRight
<1>8. CASE refs[b] # r.aux
  <2>1. Pool!Goto(t, "load") /\ refs' = refs /\ "load" \in Looking
    BY <1>6, <1>8 DEF Looking
  <2>2. PICK s \in Local : /\ thr' = [thr EXCEPT ![t] = s] /\ s.pc = "load"
                           /\ s.node = r.node /\ s.head = r.head
    BY <1>3, <1>4, <2>1, GotoRecord
  <2>3. ThreadRight(s)
    BY <1>3, <1>4, <2>2 DEF ThreadRight, Reading, Holding, Adding, Zeroed, Pushing
  <2>4. SameWork(thr[t], s)
    BY <1>4, <1>6, <2>2, FreeToMove DEF Looking
  <2> QED
    BY <1>1, <1>6, <2>1, <2>2, <2>3, <2>4, ThreadOnly
<1>9. CASE refs[b] = r.aux
  <2>1. Pool!Goto(t, "next") /\ "next" \in Reading /\ Pool!Subtract(b, -1)
    BY <1>6, <1>9 DEF Reading
  <2>2. PICK n \in Nat : n = refs[b]
    BY <1>3, <1>7 DEF PoolShape
  <2>3. PICK w \in Nat : w = n + 1
    BY <2>2
  <2>4. /\ refs' \in [Pool!Blocks -> Nat] /\ refs'[b] = n + 1
        /\ \A c \in Pool!Blocks \ {b} : refs'[c] = refs[c]
    <3>1. refs' = [refs EXCEPT ![b] = refs[b] - (-1)]
      BY <2>1 DEF Pool!Subtract
    <3>2. refs[b] - (-1) = w
      BY <2>2, <2>3
    <3>3. refs' = [refs EXCEPT ![b] = w]
      BY <3>1, <3>2
    <3>4. refs'[b] = w
      BY <3>3, <1>3, <1>7, OneCount
    <3> QED
      BY <3>3, <3>4, <2>3, <1>3, <1>7, OneCount
  <2>5. PICK s \in Local : /\ thr' = [thr EXCEPT ![t] = s] /\ s.pc = "next"
                           /\ s.node = b /\ s.head = r.head
    BY <1>3, <1>4, <1>5, <2>1, GotoRecord
  <2>6. thr'[t] = s /\ \A u \in PoolThreads \ {t} : thr'[u] = thr[u]
    BY <1>3, <2>5, OneMoves
  <2>7. PICK m \in Nat : m = ReaderCount(b)
    BY ReaderCountType
  <2>8. ReaderCount(b)' = m + 1
    <3>1. Reads(r, b) = 0 /\ Reads(s, b) = 1
      BY <1>6, <2>5 DEF Reads, Reading
    <3>2. ReaderCount(b)' = ReaderCount(b) + Reads(thr'[t], b) - Reads(thr[t], b)
      BY <2>6, ReadersChange
    <3>3. ReaderCount(b)' = m + 1 - 0
      BY <3>1, <3>2, <1>4, <2>6, <2>7
    <3> QED
      BY <3>3
  <2>9. Seen' = Seen /\ Pool!Existing' = Pool!Existing
    BY <1>6, SameBlocks
  <2>10. WorksAt(thr[t], b) /\ WorksAt(s, b)
    BY <1>4, <1>5, <2>5 DEF WorksAt
  <2>11. Untouched(b, L, L)
    BY <1>6, <2>4, <2>9 DEF Untouched
  <2>12. PoolShape'
    BY <1>3, <1>6, <2>4, <2>5, ShapeStays DEF PoolShape
  <2>13. ListOf(k, lst)'
    BY <1>3, <1>6, <2>9, ListStays
  <2>14. NextKept(t)
    BY <1>6 DEF NextKept
  <2>15. ThreadRight(s)'
    BY <1>3, <1>4, <1>7, <2>5, <2>9 DEF ThreadRight, Reading, Holding, Adding, Zeroed, Pushing
  <2>16. HolderRight(s, L)'
    BY <2>5 DEF HolderRight, Holding, Adding, Zeroed, Pushing
  <2>17. n # Mask + 1
    <3>1. 0 \in 0 .. Mask /\ Mask + 1 + 0 = Mask + 1
      BY PoolConstants
    <3>2. Pool!Count(Mask + 1) = 0
      BY <3>1, CountValue
    <3> QED
      BY <3>2, <1>7, <1>9, <2>2
  <2>18. OtherHolders(t, s, b, L)
    <3> SUFFICES ASSUME NEW u \in PoolThreads \ {t}, thr[u].pc \in Holding, thr[u].node = b
                 PROVE  s.pc \notin Holding /\ (HolderRight(thr[u], L))'
      BY DEF OtherHolders
    <3>1. PICK q : q = thr[u]
      OBVIOUS
    <3>2. HolderRight(q, L) /\ thr'[u] = q /\ q.node = b
      BY <3>1, <1>3, <2>6
    <3>3. HolderRight(q, L)'
      BY <3>2, <2>2, <2>4, <2>7, <2>8, <2>17, <1>6 DEF HolderRight
    <3> QED
      BY <3>2, <3>3, <2>5 DEF Holding, Adding, Zeroed, Pushing
  <2>19. BlockRight(b, L)'
    <3>1. BlockRight(b, L)
      BY <1>3, <1>7
    <3>2. Held(b) => Held(b)'
      BY <2>6, <1>4, <1>6 DEF Held, Holding, Adding, Zeroed, Pushing
    <3> QED
      BY <3>1, <3>2, <1>6, <1>7, <2>2, <2>4, <2>7, <2>8, <2>9, PoolConstants DEF BlockRight, GivenUp
  <2> QED
    BY <1>1, <1>2, <1>3, <2>5, <2>9, <2>10, <2>11, <2>12, <2>13, <2>14, <2>15, <2>16, <2>18, <2>19,
       OneBlockStep
<1> QED
  BY <1>8, <1>9

(* A block leaves the list at its head. *)
LEMMA ListPops ==
    ASSUME NEW k, NEW lst, ListOf(k, lst), k # 0, Seen' = Seen, poolNext' = poolNext,
           poolHead' = poolNext[lst[k]], NEW new, new = [i \in 1 .. k - 1 |-> lst[i]]
    PROVE  /\ k - 1 \in Nat /\ ListOf(k - 1, new)'
           /\ Members(k - 1, new) = Members(k, lst) \ {poolHead}
<1>1. PICK j \in Nat : k = j + 1
  BY DEF ListOf
<1>2. lst \in [1 .. j + 1 -> Seen] /\ j = k - 1 /\ 1 .. j \subseteq 1 .. k /\ k \in 1 .. k
  BY <1>1 DEF ListOf
<1>3. new = [i \in 1 .. j |-> lst[i]]
  BY <1>2
<1>4. new \in [1 .. j -> Seen'] /\ \A i \in 1 .. j : new[i] = lst[i]
  BY <1>2, <1>3
<1>5. \A i, n \in 1 .. j : new[i] = new[n] => i = n
  BY <1>2, <1>4 DEF ListOf
<1>6. poolHead = lst[k]
  BY DEF ListOf
<1>7. poolHead' = IF j = 0 THEN 0 ELSE new[j]
  <2>1. poolHead' = IF k = 1 THEN 0 ELSE lst[k - 1]
    BY <1>2 DEF ListOf
  <2>2. CASE j = 0
    BY <2>1, <2>2, <1>1
  <2>3. CASE j # 0
    <3>1. j \in 1 .. j /\ k # 1
      BY <2>3, <1>1
    <3> QED
      BY <3>1, <2>1, <2>3, <1>2, <1>4
  <2> QED
    BY <2>2, <2>3
<1>8. ASSUME NEW i \in 1 .. j
      PROVE  poolNext'[new[i]] = IF i = 1 THEN 0 ELSE new[i - 1]
  <2>1. poolNext[lst[i]] = IF i = 1 THEN 0 ELSE lst[i - 1]
    BY <1>2 DEF ListOf
  <2>2. i # 1 => i - 1 \in 1 .. j
    OBVIOUS
  <2> QED
    BY <2>1, <2>2, <1>4
<1>9. ListOf(j, new)'
  BY <1>1, <1>4, <1>5, <1>7, <1>8 DEF ListOf
<1>10. Members(j, new) = Members(k, lst) \ {poolHead}
  <2>1. ASSUME NEW i \in 1 .. j
        PROVE  new[i] \in Members(k, lst) /\ new[i] # poolHead
    <3>1. i # k /\ i \in 1 .. k
      BY <1>1
    <3> QED
      BY <3>1, <1>2, <1>4, <1>6 DEF ListOf, Members
  <2>2. ASSUME NEW i \in 1 .. k, lst[i] # poolHead
        PROVE  lst[i] \in Members(j, new)
    <3>1. i \in 1 .. j
      BY <2>2, <1>1, <1>6
    <3> QED
      BY <3>1, <1>4 DEF Members
  <2> QED
    BY <2>1, <2>2 DEF Members
<1> QED
  BY <1>2, <1>9, <1>10

(* A block that is not on the list is put at its head. *)
LEMMA ListPushes ==
    ASSUME NEW k, NEW lst, ListOf(k, lst), Seen' = Seen, poolNext' = poolNext,
           NEW b \in Seen, b \notin Members(k, lst), poolNext[b] = poolHead, poolHead' = b,
           NEW new, new = [i \in 1 .. k + 1 |-> IF i = k + 1 THEN b ELSE lst[i]]
    PROVE  /\ k + 1 \in Nat /\ ListOf(k + 1, new)'
           /\ Members(k + 1, new) = Members(k, lst) \cup {b}
<1>1. PICK j \in Nat : j = k + 1
  BY DEF ListOf
<1>2. /\ k \in Nat /\ j # 0 /\ 1 .. k \subseteq 1 .. j /\ j \in 1 .. j /\ j \notin 1 .. k
      /\ lst \in [1 .. k -> Seen] /\ \A i \in 1 .. j : i = j \/ i \in 1 .. k
  BY <1>1 DEF ListOf
<1>3. new = [i \in 1 .. j |-> IF i = j THEN b ELSE lst[i]]
  BY <1>1
<1>4. new[j] = b /\ \A i \in 1 .. k : new[i] = lst[i]
  BY <1>2, <1>3
<1>5. new \in [1 .. j -> Seen']
  BY <1>2, <1>3
<1>6. \A i \in 1 .. k : lst[i] # b
  BY DEF Members
<1>7. \A i, n \in 1 .. j : new[i] = new[n] => i = n
  BY <1>2, <1>4, <1>6 DEF ListOf
<1>8. poolHead' = IF j = 0 THEN 0 ELSE new[j]
  BY <1>2, <1>4
<1>9. ASSUME NEW i \in 1 .. j
      PROVE  poolNext'[new[i]] = IF i = 1 THEN 0 ELSE new[i - 1]
  <2>1. CASE i \in 1 .. k
    <3>1. poolNext[lst[i]] = IF i = 1 THEN 0 ELSE lst[i - 1]
      BY <2>1 DEF ListOf
    <3>2. i # 1 => i - 1 \in 1 .. k
      BY <2>1, <1>2
    <3> QED
      BY <3>1, <3>2, <2>1, <1>4
  <2>2. CASE i = j
    <3>1. poolNext'[new[i]] = IF k = 0 THEN 0 ELSE lst[k]
      BY <2>2, <1>4 DEF ListOf
    <3>2. (k = 0 <=> i = 1) /\ i - 1 = k /\ (k # 0 => k \in 1 .. k)
      BY <2>2, <1>1, <1>2
    <3>3. CASE k = 0
      BY <3>1, <3>2, <3>3
    <3>4. CASE k # 0
      BY <3>1, <3>2, <3>4, <1>4
    <3> QED
      BY <3>3, <3>4
  <2> QED
    BY <2>1, <2>2, <1>2
<1>10. ListOf(j, new)'
  BY <1>5, <1>7, <1>8, <1>9 DEF ListOf
<1>11. Members(j, new) = Members(k, lst) \cup {b}
  <2>1. ASSUME NEW i \in 1 .. j
        PROVE  new[i] \in Members(k, lst) \cup {b}
    BY <1>2, <1>4 DEF Members
  <2>2. \A i \in 1 .. k : lst[i] \in Members(j, new)
    BY <1>2, <1>4 DEF Members
  <2>3. b \in Members(j, new)
    BY <1>2, <1>4 DEF Members
  <2> QED
    BY <2>1, <2>2, <2>3 DEF Members
<1> QED
  BY <1>1, <1>10, <1>11
-----------------------------------------------------------------------------
(* PopHead preserves the invariant: what the thread read as the next block *)
(* is still the next one, as its reference kept the block from being added *)
(* again.                                                                  *)
LEMMA PopHeadKeeps == ASSUME PoolInv, NEW t \in PoolThreads, Pool!PopHead(t) PROVE PoolInv'
<1>1. PICK k, lst : PoolWith(k, lst)
  BY DEF PoolInv
<1>2. PICK L : L = Members(k, lst)
  OBVIOUS
<1>3. /\ PoolShape /\ OneHolder /\ ListOf(k, lst) /\ k \in Nat /\ ThreadRight(thr[t])
      /\ \A u \in PoolThreads : HolderRight(thr[u], L)
      /\ \A c \in Pool!Blocks : BlockRight(c, L)
  BY <1>1, <1>2 DEF PoolWith, ListOf
<1>4. PICK r \in Local : r = thr[t]
  BY <1>3 DEF PoolShape
<1>5. PICK b : b = r.node
  OBVIOUS
<1>6. /\ r.pc = "pop" /\ recycle' = recycle /\ poolIndex' = poolIndex /\ refs' = refs
      /\ poolNext' = poolNext /\ live' = live /\ used' = used
      /\ IF poolHead = b THEN poolHead' = r.aux /\ Pool!Goto(t, "took")
         ELSE Pool!GotoWith(t, "unref", poolHead) /\ UNCHANGED poolHead
  BY <1>4, <1>5 DEF Pool!PopHead, Pool!At
<1>7. b \in Seen /\ b \in Pool!Existing /\ b \in Pool!Blocks /\ b # 0 /\ r.aux = poolNext[b]
  BY <1>3, <1>4, <1>5, <1>6, ExistingBlocks DEF ThreadRight, Reading
<1>8. CASE poolHead # b
  <2>1. Pool!GotoWith(t, "unref", poolHead) /\ poolHead' = poolHead /\ "unref" \in Reading
    BY <1>6, <1>8 DEF Reading
  <2>2. poolHead \in Seen \cup {0} /\ poolHead \in Pool!Blocks \cup {0}
    BY <1>3, HeadSeen
  <2>3. PICK s \in Local : /\ thr' = [thr EXCEPT ![t] = s] /\ s.pc = "unref"
                           /\ s.node = r.node /\ s.head = poolHead
    BY <1>3, <1>4, <2>1, <2>2, GotoWithRecord
  <2>4. ThreadRight(s)
    BY <1>5, <1>7, <2>2, <2>3 DEF ThreadRight, Reading, Holding, Adding, Zeroed, Pushing
  <2>5. SameWork(thr[t], s)
    BY <1>4, <1>6, <2>3 DEF SameWork, Reading, Holding, Adding, Zeroed, Pushing
  <2> QED
    BY <1>1, <1>6, <2>1, <2>3, <2>4, <2>5, ThreadOnly
<1>9. CASE poolHead = b
  <2>1. Pool!Goto(t, "took") /\ "took" \in Reading /\ poolHead' = poolNext[b]
    BY <1>6, <1>7, <1>9 DEF Reading
  <2>2. PICK s \in Local : /\ thr' = [thr EXCEPT ![t] = s] /\ s.pc = "took"
                           /\ s.node = b /\ s.head = r.head
    BY <1>3, <1>4, <1>5, <2>1, GotoRecord
  <2>3. thr'[t] = s /\ \A u \in PoolThreads \ {t} : thr'[u] = thr[u]
    BY <1>3, <2>2, OneMoves
  <2>4. Seen' = Seen /\ Pool!Existing' = Pool!Existing
    BY <1>6, SameBlocks
  <2>5. b \in L /\ k # 0 /\ b = lst[k]
    BY <1>2, <1>3, <1>7, <1>9, HeadSeen DEF ListOf
  <2>6. PICK m, new : m \in Nat /\ ListOf(m, new)' /\ Members(m, new) = L \ {b}
    <3>1. PICK new : new = [i \in 1 .. k - 1 |-> lst[i]]
      OBVIOUS
    <3> QED
      BY <3>1, <1>2, <1>3, <1>6, <1>9, <2>1, <2>4, <2>5, ListPops
  <2>7. PICK M : M = Members(m, new)
    OBVIOUS
  <2>8. ReaderCount(b)' = ReaderCount(b)
    <3>1. Reads(r, b) = 1 /\ Reads(s, b) = 1
      BY <1>5, <1>6, <2>2 DEF Reads, Reading
    <3>2. ReaderCount(b)' = ReaderCount(b) + Reads(thr'[t], b) - Reads(thr[t], b)
      BY <2>3, ReadersChange
    <3>3. ReaderCount(b)' = ReaderCount(b) + 1 - 1
      BY <3>1, <3>2, <1>4, <2>3
    <3> QED
      BY <3>3, ReaderCountType
  <2>9. WorksAt(thr[t], b) /\ WorksAt(s, b)
    BY <1>4, <1>5, <2>2 DEF WorksAt
  <2>10. Untouched(b, L, M)
    BY <1>6, <2>4, <2>6, <2>7 DEF Untouched
  <2>11. PoolShape'
    BY <1>3, <1>6, <2>2, ShapeStays DEF PoolShape
  <2>12. NextKept(t)
    BY <1>6 DEF NextKept
  <2>13. ThreadRight(s)'
    BY <1>3, <1>4, <1>7, <2>2, <2>4 DEF ThreadRight, Reading, Holding, Adding, Zeroed, Pushing
  <2>14. b \notin used /\ refs[b] = ReaderCount(b) + 1
    BY <1>3, <1>7, <2>5 DEF BlockRight
  <2>15. HolderRight(s, M)'
    BY <2>2, <2>6, <2>7, <2>8, <2>14, <1>6 DEF HolderRight, Holding, Adding, Zeroed, Pushing
  <2>16. OtherHolders(t, s, b, M)
    BY <1>3, <2>5 DEF OtherHolders, HolderRight
  <2>17. BlockRight(b, M)'
    <3>1. Held(b)'
      BY <2>2, <2>3 DEF Held, Holding
    <3> QED
      BY <3>1, <2>4, <2>6, <2>7, <2>14, <1>6, <1>7 DEF BlockRight
  <2> QED
    BY <1>1, <1>2, <1>3, <2>2, <2>4, <2>6, <2>7, <2>9, <2>10, <2>11, <2>12, <2>13, <2>15, <2>16, <2>17,
       OneBlockStep
<1> QED
  BY <1>8, <1>9

(* DropTwo preserves the invariant: the block is in use now. *)
LEMMA DropTwoKeeps == ASSUME PoolInv, NEW t \in PoolThreads, Pool!DropTwo(t) PROVE PoolInv'
<1>1. PICK k, lst : PoolWith(k, lst)
  BY DEF PoolInv
<1>2. PICK L : L = Members(k, lst)
  OBVIOUS
<1>3. /\ PoolShape /\ OneHolder /\ ListOf(k, lst) /\ k \in Nat /\ ThreadRight(thr[t])
      /\ \A u \in PoolThreads : HolderRight(thr[u], L)
      /\ \A c \in Pool!Blocks : BlockRight(c, L)
  BY <1>1, <1>2 DEF PoolWith, ListOf
<1>4. PICK r \in Local : r = thr[t]
  BY <1>3 DEF PoolShape
<1>5. PICK b : b = r.node
  OBVIOUS
<1>6. PICK s \in Local : s = Pool!Idle
  BY IdleRecord
<1>7. /\ r.pc = "took" /\ recycle' = recycle /\ poolIndex' = poolIndex /\ poolHead' = poolHead
      /\ poolNext' = poolNext /\ live' = live /\ used' = used \cup {b}
      /\ refs' = [refs EXCEPT ![b] = refs[b] - 2] /\ thr' = [thr EXCEPT ![t] = s]
  BY <1>4, <1>5, <1>6 DEF Pool!DropTwo, Pool!At, Pool!Deliver, Pool!Subtract
<1>8. /\ b \in Seen /\ b \in Pool!Existing /\ b \in Pool!Blocks /\ b \notin L
      /\ refs[b] = ReaderCount(b) + 1
  BY <1>3, <1>4, <1>5, <1>7, ExistingBlocks DEF ThreadRight, HolderRight, Holding
<1>9. PICK m \in Nat : m = ReaderCount(b) /\ m > 0
  BY <1>4, <1>5, <1>7, SomebodyReads, ReaderCountType DEF Reading
<1>10. PICK w \in Nat : w = m - 1
  BY <1>9
<1>11. refs' = [refs EXCEPT ![b] = w]
  <2>1. refs[b] - 2 = w
    BY <1>8, <1>9, <1>10
  <2> QED
    BY <2>1, <1>7
<1>12. /\ refs' \in [Pool!Blocks -> Nat] /\ refs'[b] = w
       /\ \A c \in Pool!Blocks \ {b} : refs'[c] = refs[c]
  BY <1>11, <1>3, <1>8, OneCount
<1>13. s.pc = "idle" /\ s.node = 0
  BY <1>6, IdleRecord
<1>14. thr'[t] = s /\ \A u \in PoolThreads \ {t} : thr'[u] = thr[u]
  BY <1>3, <1>7, OneMoves
<1>15. ReaderCount(b)' = w
  <2>1. Reads(r, b) = 1 /\ Reads(s, b) = 0
    BY <1>5, <1>7, <1>13 DEF Reads, Reading
  <2>2. ReaderCount(b)' = ReaderCount(b) + Reads(thr'[t], b) - Reads(thr[t], b)
    BY <1>14, ReadersChange
  <2>3. ReaderCount(b)' = m + 0 - 1
    BY <2>1, <2>2, <1>4, <1>9, <1>14
  <2> QED
    BY <2>3, <1>9, <1>10
<1>16. Seen' = Seen /\ Pool!Existing' = Pool!Existing
  BY <1>7, SameBlocks
<1>17. WorksAt(thr[t], b) /\ WorksAt(s, b)
  BY <1>4, <1>5, <1>13 DEF WorksAt, Reading, Holding, Adding, Zeroed, Pushing
<1>18. Untouched(b, L, L)
  BY <1>7, <1>12, <1>16 DEF Untouched
<1>19. PoolShape'
  <2>1. used' \subseteq Pool!Blocks /\ (recycle = FALSE => live \subseteq used') /\ s.pc # "pool"
        /\ poolNext' \in [Pool!Blocks -> Pool!Blocks \cup {0}]
    BY <1>3, <1>7, <1>8, <1>13 DEF PoolShape
  <2> QED
    BY <2>1, <1>3, <1>7, <1>12, ShapeStays
<1>20. ListOf(k, lst)'
  BY <1>3, <1>7, <1>16, ListStays
<1>21. NextKept(t)
  BY <1>7 DEF NextKept
<1>22. ThreadRight(s)'
  BY <1>6, <1>7, <1>16, IdleRecord, KnowledgeStays
<1>23. HolderRight(s, L)'
  BY <1>13 DEF HolderRight, Holding, Adding, Zeroed, Pushing
<1>24. OtherHolders(t, s, b, L)
  BY <1>3, <1>4, <1>5, <1>7 DEF OtherHolders, OneHolder, Holding
<1>25. BlockRight(b, L)'
  BY <1>7, <1>8, <1>12, <1>15, <1>16 DEF BlockRight
<1> QED
  BY <1>1, <1>2, <1>3, <1>7, <1>16, <1>17, <1>18, <1>19, <1>20, <1>21, <1>22, <1>23, <1>24, <1>25,
     OneBlockStep

(* A step that changes the count of one block, and no block's place but    *)
(* for its holder.                                                         *)
LEMMA CountStep ==
    ASSUME NEW k, NEW lst, PoolWith(k, lst), NEW t \in PoolThreads, NEW s \in Local,
           thr' = [thr EXCEPT ![t] = s], NEW b \in Pool!Blocks, NEW n \in Nat,
           refs' = [refs EXCEPT ![b] = n],
           UNCHANGED <<recycle, poolIndex, poolHead, poolNext, used, live>>,
           s.pc # "pool", WorksAt(thr[t], b), WorksAt(s, b), ThreadRight(s),
           NEW L, L = Members(k, lst),
           (HolderRight(s, L))', OtherHolders(t, s, b, L), (BlockRight(b, L))'
    PROVE  PoolInv'
<1>1. PoolShape /\ ListOf(k, lst) /\ k \in Nat
  BY DEF PoolWith, ListOf
<1>2. Seen' = Seen /\ Pool!Existing' = Pool!Existing
  BY SameBlocks
<1>3. refs' \in [Pool!Blocks -> Nat] /\ \A c \in Pool!Blocks \ {b} : refs'[c] = refs[c]
  BY <1>1, OneCount
<1>4. Untouched(b, L, L)
  BY <1>2, <1>3 DEF Untouched
<1>5. ListOf(k, lst)'
  BY <1>1, <1>2, ListStays
<1>6. PoolShape'
  <2>1. used' \subseteq Pool!Blocks /\ (recycle = FALSE => live \subseteq used')
        /\ poolNext' \in [Pool!Blocks -> Pool!Blocks \cup {0}]
    BY <1>1 DEF PoolShape
  <2> QED
    BY <2>1, <1>1, <1>3, ShapeStays
<1>7. NextKept(t)
  BY DEF NextKept
<1>8. ThreadRight(s)'
  BY <1>2, KnowledgeStays
<1> QED
  BY <1>1, <1>2, <1>4, <1>5, <1>6, <1>7, <1>8, OneBlockStep

(* The count of readers after a step of a thread that did not read the     *)
(* block and does not, and after one that read it.                         *)
LEMMA CountAfter ==
    ASSUME PoolShape, NEW t \in PoolThreads, NEW s \in Local, thr' = [thr EXCEPT ![t] = s], NEW b,
           Reads(s, b) = 0
    PROVE  /\ Reads(thr[t], b) = 0 => ReaderCount(b)' = ReaderCount(b)
           /\ Reads(thr[t], b) = 1 => ReaderCount(b)' = ReaderCount(b) - 1
<1>1. thr'[t] = s /\ \A u \in PoolThreads \ {t} : thr'[u] = thr[u]
  BY OneMoves
<1>2. ReaderCount(b)' = ReaderCount(b) + Reads(thr'[t], b) - Reads(thr[t], b)
  BY <1>1, ReadersChange
<1>3. PICK m \in Nat : m = ReaderCount(b)
  BY ReaderCountType
<1>4. ReaderCount(b)' = m + 0 - Reads(thr[t], b)
  BY <1>1, <1>2, <1>3
<1>5. CASE Reads(thr[t], b) = 0
  <2>1. ReaderCount(b)' = m + 0 - 0
    BY <1>4, <1>5
  <2> QED
    BY <2>1, <1>3, <1>5
<1>6. CASE Reads(thr[t], b) = 1
  <2>1. ReaderCount(b)' = m + 0 - 1
    BY <1>4, <1>6
  <2> QED
    BY <2>1, <1>3, <1>6
<1> QED
  BY <1>5, <1>6

(* Nobody else holds a block that a thread holds.                          *)
LEMMA OnlyHolder ==
    ASSUME OneHolder, NEW t \in PoolThreads, NEW s, NEW M, thr[t].pc \in Holding
    PROVE  OtherHolders(t, s, thr[t].node, M)
  BY DEF OneHolder, OtherHolders

(* SetFlag preserves the invariant: without a reader the thread goes on to *)
(* put the block on the list, otherwise the last reader will.              *)
LEMMA SetFlagKeeps == ASSUME PoolInv, NEW t \in PoolThreads, Pool!SetFlag(t) PROVE PoolInv'
<1>1. PICK k, lst : PoolWith(k, lst)
  BY DEF PoolInv
<1>2. PICK L : L = Members(k, lst)
  OBVIOUS
<1>3. /\ PoolShape /\ OneHolder /\ ThreadRight(thr[t]) /\ HolderRight(thr[t], L)
  BY <1>1, <1>2 DEF PoolWith
<1>4. PICK r \in Local : r = thr[t]
  BY <1>3 DEF PoolShape
<1>5. PICK b : b = r.node
  OBVIOUS
<1>6. /\ UNCHANGED <<recycle, poolIndex, poolHead, poolNext, used, live>>
      /\ r.pc = "flag" /\ refs' = [refs EXCEPT ![b] = refs[b] + (Mask + 1)]
      /\ IF refs[b] = 0 THEN Pool!Goto(t, "addLoad") ELSE Pool!EndAdd(t)
  BY <1>4, <1>5 DEF Pool!SetFlag, Pool!At, Pool!SHOULD_BE_ON_FREELIST
<1>7. PICK m \in Nat : m = ReaderCount(b)
  BY ReaderCountType
<1>8. b \in Seen /\ b \in Pool!Existing /\ b \in Pool!Blocks /\ b \notin L /\ b \notin used /\ refs[b] = m
  BY <1>3, <1>4, <1>5, <1>6, <1>7, ExistingBlocks DEF ThreadRight, HolderRight, Holding, Adding
<1>9. PICK w \in Nat : w = Mask + 1 + m
  BY PoolConstants
<1>10. refs' = [refs EXCEPT ![b] = w]
  <2>1. refs[b] + (Mask + 1) = w
    BY <1>8, <1>9, PoolConstants
  <2> QED
    BY <2>1, <1>6
<1>11. refs'[b] = w
  BY <1>10, <1>3, <1>8, OneCount
<1>12. Seen' = Seen /\ Pool!Existing' = Pool!Existing
  BY <1>6, SameBlocks
<1>13. r.pc \in Holding /\ r.pc \in Adding
  BY <1>6 DEF Holding, Adding
<1>14. CASE m = 0
  <2>1. Pool!Goto(t, "addLoad") /\ "addLoad" \in Adding
    BY <1>6, <1>8, <1>14 DEF Adding, Zeroed
  <2>2. PICK s \in Local : /\ thr' = [thr EXCEPT ![t] = s] /\ s.pc = "addLoad"
                           /\ s.node = b /\ s.head = r.head /\ s.aux = r.aux
    BY <1>3, <1>4, <1>5, <2>1, GotoRecord
  <2>3. Reads(thr[t], b) = 0 /\ Reads(s, b) = 0
    BY <1>4, <1>6, <2>2 DEF Reads, Reading
  <2>4. ReaderCount(b)' = 0
    BY <2>2, <2>3, <1>3, <1>7, <1>14, CountAfter
  <2>5. WorksAt(thr[t], b) /\ WorksAt(s, b) /\ s.pc # "pool"
    BY <1>4, <1>5, <2>2 DEF WorksAt
  <2>6. ThreadRight(s)
    BY <1>3, <1>4, <1>8, <1>13, <2>2 DEF ThreadRight, Reading, Holding, Adding, Zeroed, Pushing
  <2>7. HolderRight(s, L)'
    BY <2>2, <2>4, <1>6, <1>8, <1>9, <1>11, <1>14, PoolConstants DEF HolderRight, Pushing, Zeroed
  <2>8. OtherHolders(t, s, b, L)
    BY <1>3, <1>4, <1>5, <1>13, OnlyHolder
  <2>9. BlockRight(b, L)'
    <3>1. Held(b)'
      BY <2>2, <1>3, OneMoves DEF Held, Holding, Adding, Zeroed
    <3> QED
      BY <3>1, <1>6, <1>8, <1>12 DEF BlockRight
  <2> QED
    BY <1>1, <1>2, <1>6, <1>8, <1>10, <2>2, <2>5, <2>6, <2>7, <2>8, <2>9, CountStep
<1>15. CASE m # 0
  <2>1. PICK s \in Local : thr' = [thr EXCEPT ![t] = s] /\ s.pc \in {"idle", "loop"} /\ ThreadRight(s)
    BY <1>3, <1>4, <1>6, <1>8, <1>13, <1>15, EndAddRecord
  <2>2. Reads(thr[t], b) = 0 /\ Reads(s, b) = 0
    BY <1>4, <1>6, <2>1 DEF Reads, Reading
  <2>3. ReaderCount(b)' = m
    BY <2>1, <2>2, <1>3, <1>7, CountAfter
  <2>4. WorksAt(thr[t], b) /\ WorksAt(s, b) /\ s.pc # "pool"
    BY <1>4, <1>5, <2>1 DEF WorksAt, Reading, Holding, Adding, Zeroed, Pushing
  <2>5. HolderRight(s, L)'
    BY <2>1 DEF HolderRight, Holding, Adding, Zeroed, Pushing
  <2>6. OtherHolders(t, s, b, L)
    BY <1>3, <1>4, <1>5, <1>13, OnlyHolder
  <2>7. BlockRight(b, L)'
    BY <2>3, <1>6, <1>8, <1>9, <1>11, <1>12, <1>15 DEF BlockRight, GivenUp
  <2> QED
    BY <1>1, <1>2, <1>6, <1>8, <1>10, <2>1, <2>4, <2>5, <2>6, <2>7, CountStep
<1> QED
  BY <1>14, <1>15

(* StoreRefs preserves the invariant. *)
LEMMA StoreRefsKeeps == ASSUME PoolInv, NEW t \in PoolThreads, Pool!StoreRefs(t) PROVE PoolInv'
<1>1. PICK k, lst : PoolWith(k, lst)
  BY DEF PoolInv
<1>2. PICK L : L = Members(k, lst)
  OBVIOUS
<1>3. /\ PoolShape /\ OneHolder /\ ThreadRight(thr[t]) /\ HolderRight(thr[t], L)
  BY <1>1, <1>2 DEF PoolWith
<1>4. PICK r \in Local : r = thr[t]
  BY <1>3 DEF PoolShape
<1>5. PICK b : b = r.node
  OBVIOUS
<1>6. /\ UNCHANGED <<recycle, poolIndex, poolHead, poolNext, used, live>>
      /\ r.pc = "one" /\ refs' = [refs EXCEPT ![b] = 1] /\ Pool!Goto(t, "push") /\ "push" \in Adding
  BY <1>4, <1>5 DEF Pool!StoreRefs, Pool!At, Adding, Pushing
<1>7. r.pc \in Holding /\ r.pc \in Adding
  BY <1>6 DEF Holding, Adding, Zeroed
<1>8. b \in Seen /\ b \in Pool!Existing /\ b \in Pool!Blocks /\ b \notin L /\ b \notin used
      /\ ReaderCount(b) = 0
  BY <1>3, <1>4, <1>5, <1>6, <1>7, ExistingBlocks DEF ThreadRight, HolderRight, Zeroed
<1>9. refs'[b] = 1
  BY <1>6, <1>3, <1>8, OneCount
<1>10. Seen' = Seen /\ Pool!Existing' = Pool!Existing
  BY <1>6, SameBlocks
<1>11. PICK s \in Local : /\ thr' = [thr EXCEPT ![t] = s] /\ s.pc = "push"
                          /\ s.node = b /\ s.head = r.head /\ s.aux = r.aux
  BY <1>3, <1>4, <1>5, <1>6, GotoRecord
<1>12. Reads(thr[t], b) = 0 /\ Reads(s, b) = 0
  BY <1>4, <1>6, <1>11 DEF Reads, Reading
<1>13. ReaderCount(b)' = 0
  BY <1>3, <1>8, <1>11, <1>12, CountAfter
<1>14. WorksAt(thr[t], b) /\ WorksAt(s, b) /\ s.pc # "pool"
  BY <1>4, <1>5, <1>11 DEF WorksAt
<1>15. ThreadRight(s)
  BY <1>3, <1>4, <1>5, <1>6, <1>7, <1>8, <1>11 DEF ThreadRight, Reading, Holding, Adding, Zeroed, Pushing
<1>16. HolderRight(s, L)'
  BY <1>6, <1>8, <1>9, <1>11, <1>13 DEF HolderRight, Pushing, Zeroed
<1>17. OtherHolders(t, s, b, L)
  BY <1>3, <1>4, <1>5, <1>7, OnlyHolder
<1>18. BlockRight(b, L)'
  <2>1. Held(b)'
    BY <1>3, <1>11, OneMoves DEF Held, Holding, Adding, Pushing
  <2> QED
    BY <2>1, <1>6, <1>8, <1>10 DEF BlockRight
<1> QED
  BY <1>1, <1>2, <1>6, <1>8, <1>11, <1>14, <1>15, <1>16, <1>17, <1>18, CountStep

(* PushFailed preserves the invariant: readers that came while the count   *)
(* was one are seen here, or see the flag.                                 *)
LEMMA PushFailedKeeps == ASSUME PoolInv, NEW t \in PoolThreads, Pool!PushFailed(t) PROVE PoolInv'
<1>1. PICK k, lst : PoolWith(k, lst)
  BY DEF PoolInv
<1>2. PICK L : L = Members(k, lst)
  OBVIOUS
<1>3. /\ PoolShape /\ OneHolder /\ ThreadRight(thr[t]) /\ HolderRight(thr[t], L)
  BY <1>1, <1>2 DEF PoolWith
<1>4. PICK r \in Local : r = thr[t]
  BY <1>3 DEF PoolShape
<1>5. PICK b : b = r.node
  OBVIOUS
<1>6. /\ UNCHANGED <<recycle, poolIndex, poolHead, poolNext, used, live>>
      /\ r.pc = "failed" /\ refs' = [refs EXCEPT ![b] = refs[b] + (Mask + 1) - 1]
      /\ IF refs[b] = 1 THEN Pool!Goto(t, "store") ELSE Pool!EndAdd(t)
  BY <1>4, <1>5 DEF Pool!PushFailed, Pool!At, Pool!SHOULD_BE_ON_FREELIST
<1>7. PICK m \in Nat : m = ReaderCount(b)
  BY ReaderCountType
<1>8. b \in Seen /\ b \in Pool!Existing /\ b \in Pool!Blocks /\ b \notin L /\ b \notin used /\ refs[b] = m + 1
  BY <1>3, <1>4, <1>5, <1>6, <1>7, ExistingBlocks DEF ThreadRight, HolderRight, Holding, Adding, Pushing
<1>9. PICK w \in Nat : w = Mask + 1 + m
  BY PoolConstants
<1>10. refs' = [refs EXCEPT ![b] = w]
  <2>1. refs[b] + (Mask + 1) - 1 = w
    BY <1>8, <1>9, PoolConstants
  <2> QED
    BY <2>1, <1>6
<1>11. refs'[b] = w
  BY <1>10, <1>3, <1>8, OneCount
<1>12. Seen' = Seen /\ Pool!Existing' = Pool!Existing
  BY <1>6, SameBlocks
<1>13. r.pc \in Holding /\ r.pc \in Adding
  BY <1>6 DEF Holding, Adding, Pushing
<1>14. CASE m = 0
  <2>1. Pool!Goto(t, "store") /\ "store" \in Adding
    BY <1>6, <1>8, <1>14 DEF Adding, Zeroed
  <2>2. PICK s \in Local : /\ thr' = [thr EXCEPT ![t] = s] /\ s.pc = "store"
                           /\ s.node = b /\ s.head = r.head /\ s.aux = r.aux
    BY <1>3, <1>4, <1>5, <2>1, GotoRecord
  <2>3. Reads(thr[t], b) = 0 /\ Reads(s, b) = 0
    BY <1>4, <1>6, <2>2 DEF Reads, Reading
  <2>4. ReaderCount(b)' = 0
    BY <2>2, <2>3, <1>3, <1>7, <1>14, CountAfter
  <2>5. WorksAt(thr[t], b) /\ WorksAt(s, b) /\ s.pc # "pool"
    BY <1>4, <1>5, <2>2 DEF WorksAt
  <2>6. ThreadRight(s)
    BY <1>3, <1>4, <1>8, <1>13, <2>2 DEF ThreadRight, Reading, Holding, Adding, Zeroed, Pushing
  <2>7. HolderRight(s, L)'
    BY <2>2, <2>4, <1>6, <1>8, <1>9, <1>11, <1>14, PoolConstants DEF HolderRight, Pushing, Zeroed
  <2>8. OtherHolders(t, s, b, L)
    BY <1>3, <1>4, <1>5, <1>13, OnlyHolder
  <2>9. BlockRight(b, L)'
    <3>1. Held(b)'
      BY <2>2, <1>3, OneMoves DEF Held, Holding, Adding, Zeroed
    <3> QED
      BY <3>1, <1>6, <1>8, <1>12 DEF BlockRight
  <2> QED
    BY <1>1, <1>2, <1>6, <1>8, <1>10, <2>2, <2>5, <2>6, <2>7, <2>8, <2>9, CountStep
<1>15. CASE m # 0
  <2>1. PICK s \in Local : thr' = [thr EXCEPT ![t] = s] /\ s.pc \in {"idle", "loop"} /\ ThreadRight(s)
    BY <1>3, <1>4, <1>6, <1>8, <1>13, <1>15, EndAddRecord
  <2>2. Reads(thr[t], b) = 0 /\ Reads(s, b) = 0
    BY <1>4, <1>6, <2>1 DEF Reads, Reading
  <2>3. ReaderCount(b)' = m
    BY <2>1, <2>2, <1>3, <1>7, CountAfter
  <2>4. WorksAt(thr[t], b) /\ WorksAt(s, b) /\ s.pc # "pool"
    BY <1>4, <1>5, <2>1 DEF WorksAt, Reading, Holding, Adding, Zeroed, Pushing
  <2>5. HolderRight(s, L)'
    BY <2>1 DEF HolderRight, Holding, Adding, Zeroed, Pushing
  <2>6. OtherHolders(t, s, b, L)
    BY <1>3, <1>4, <1>5, <1>13, OnlyHolder
  <2>7. BlockRight(b, L)'
    BY <2>3, <1>6, <1>8, <1>9, <1>11, <1>12, <1>15 DEF BlockRight, GivenUp
  <2> QED
    BY <1>1, <1>2, <1>6, <1>8, <1>10, <2>1, <2>4, <2>5, <2>6, <2>7, CountStep
<1> QED
  BY <1>14, <1>15

(* PushHead preserves the invariant: the block is on the list now.         *)
LEMMA PushHeadKeeps == ASSUME PoolInv, NEW t \in PoolThreads, Pool!PushHead(t) PROVE PoolInv'
<1>1. PICK k, lst : PoolWith(k, lst)
  BY DEF PoolInv
<1>2. PICK L : L = Members(k, lst)
  OBVIOUS
<1>3. /\ PoolShape /\ OneHolder /\ ListOf(k, lst) /\ k \in Nat /\ ThreadRight(thr[t])
      /\ HolderRight(thr[t], L)
  BY <1>1, <1>2 DEF PoolWith, ListOf
<1>4. PICK r \in Local : r = thr[t]
  BY <1>3 DEF PoolShape
<1>5. PICK b : b = r.node
  OBVIOUS
<1>6. /\ r.pc = "push" /\ recycle' = recycle /\ poolIndex' = poolIndex /\ refs' = refs
      /\ poolNext' = poolNext /\ live' = live /\ used' = used
      /\ IF poolHead = r.head THEN poolHead' = b /\ Pool!EndAdd(t)
         ELSE Pool!GotoWith(t, "failed", poolHead) /\ UNCHANGED poolHead
  BY <1>4, <1>5 DEF Pool!PushHead, Pool!At
<1>7. r.pc \in Holding /\ r.pc \in Adding
  BY <1>6 DEF Holding, Adding, Pushing
<1>8. /\ b \in Seen /\ b \in Pool!Existing /\ b \in Pool!Blocks /\ b \notin L /\ b \notin used
      /\ r.head = poolNext[b] /\ refs[b] = ReaderCount(b) + 1
  BY <1>3, <1>4, <1>5, <1>6, <1>7, ExistingBlocks DEF ThreadRight, HolderRight, Pushing
<1>9. CASE poolHead # r.head
  <2>1. Pool!GotoWith(t, "failed", poolHead) /\ poolHead' = poolHead /\ "failed" \in Adding
    BY <1>6, <1>9 DEF Adding, Pushing
  <2>2. poolHead \in Seen \cup {0} /\ poolHead \in Pool!Blocks \cup {0}
    BY <1>3, HeadSeen
  <2>3. PICK s \in Local : /\ thr' = [thr EXCEPT ![t] = s] /\ s.pc = "failed"
                           /\ s.node = r.node /\ s.head = poolHead /\ s.aux = r.aux
    BY <1>3, <1>4, <2>1, <2>2, GotoWithRecord
  <2>4. ThreadRight(s)
    BY <1>3, <1>4, <1>5, <1>7, <1>8, <2>2, <2>3
       DEF ThreadRight, Reading, Holding, Adding, Zeroed, Pushing
  <2>5. SameWork(thr[t], s)
    BY <1>4, <1>6, <2>3 DEF SameWork, Reading, Holding, Adding, Zeroed, Pushing
  <2> QED
    BY <1>1, <1>6, <2>1, <2>3, <2>4, <2>5, ThreadOnly
<1>10. CASE poolHead = r.head
  <2>1. Pool!EndAdd(t) /\ poolHead' = b
    BY <1>6, <1>10
  <2>2. PICK s \in Local : thr' = [thr EXCEPT ![t] = s] /\ s.pc \in {"idle", "loop"} /\ ThreadRight(s)
    BY <1>3, <1>4, <1>7, <2>1, EndAddRecord
  <2>3. Seen' = Seen /\ Pool!Existing' = Pool!Existing
    BY <1>6, SameBlocks
  <2>4. PICK m, new : m \in Nat /\ ListOf(m, new)' /\ Members(m, new) = L \cup {b}
    <3>1. PICK new : new = [i \in 1 .. k + 1 |-> IF i = k + 1 THEN b ELSE lst[i]]
      OBVIOUS
    <3> QED
      BY <3>1, <1>2, <1>3, <1>6, <1>8, <1>10, <2>1, <2>3, ListPushes
  <2>5. PICK M : M = Members(m, new)
    OBVIOUS
  <2>6. Reads(thr[t], b) = 0 /\ Reads(s, b) = 0
    BY <1>4, <1>6, <2>2 DEF Reads, Reading
  <2>7. ReaderCount(b)' = ReaderCount(b)
    BY <2>2, <2>6, <1>3, CountAfter
  <2>8. WorksAt(thr[t], b) /\ WorksAt(s, b)
    BY <1>4, <1>5, <2>2 DEF WorksAt, Reading, Holding, Adding, Zeroed, Pushing
  <2>9. Untouched(b, L, M)
    BY <1>6, <2>3, <2>4, <2>5 DEF Untouched
  <2>10. PoolShape'
    BY <1>3, <1>6, <2>2, ShapeStays DEF PoolShape
  <2>11. NextKept(t)
    BY <1>6 DEF NextKept
  <2>12. ThreadRight(s)'
    BY <1>6, <2>2, <2>3, KnowledgeStays
  <2>13. HolderRight(s, M)'
    BY <2>2 DEF HolderRight, Holding, Adding, Zeroed, Pushing
  <2>14. OtherHolders(t, s, b, M)
    BY <1>3, <1>4, <1>5, <1>7, OnlyHolder
  <2>15. BlockRight(b, M)'
    BY <2>3, <2>4, <2>5, <2>7, <1>6, <1>8 DEF BlockRight
  <2> QED
    BY <1>1, <1>2, <1>3, <2>2, <2>3, <2>4, <2>5, <2>8, <2>9, <2>10, <2>11, <2>12, <2>13, <2>14, <2>15,
       OneBlockStep
<1> QED
  BY <1>9, <1>10

(* What the count of a block says that a thread reads.                     *)
LEMMA CountSays ==
    ASSUME NEW L, NEW b \in Pool!Existing, BlockRight(b, L), ReaderCount(b) > 0,
           \A u \in PoolThreads : HolderRight(thr[u], L)
    PROVE  \/ refs[b] \in {ReaderCount(b), ReaderCount(b) + 1}
           \/ ~Held(b) /\ b \notin used /\ b \notin L /\ refs[b] = Mask + 1 + ReaderCount(b)
<1>1. CASE Held(b)
  <2>1. PICK u \in PoolThreads : thr[u].pc \in Holding /\ thr[u].node = b
    BY <1>1 DEF Held
  <2>2. HolderRight(thr[u], L)
    OBVIOUS
  <2> QED
    BY <2>1, <2>2, ReaderCountType DEF HolderRight, Holding, Adding, Zeroed, Pushing
<1>2. CASE ~Held(b)
  BY <1>2 DEF BlockRight, GivenUp
<1> QED
  BY <1>1, <1>2

(* DropOne preserves the invariant: the last reader of a block that was    *)
(* given up puts it on the list.                                           *)
LEMMA DropOneKeeps == ASSUME PoolInv, NEW t \in PoolThreads, Pool!DropOne(t) PROVE PoolInv'
<1>1. PICK k, lst : PoolWith(k, lst)
  BY DEF PoolInv
<1>2. PICK L : L = Members(k, lst)
  OBVIOUS
<1>3. /\ PoolShape /\ OneHolder /\ ThreadRight(thr[t])
      /\ \A u \in PoolThreads : HolderRight(thr[u], L)
      /\ \A c \in Pool!Blocks : BlockRight(c, L)
  BY <1>1, <1>2 DEF PoolWith
<1>4. PICK r \in Local : r = thr[t]
  BY <1>3 DEF PoolShape
<1>5. PICK b : b = r.node
  OBVIOUS
<1>6. /\ UNCHANGED <<recycle, poolIndex, poolHead, poolNext, used, live>>
      /\ r.pc = "unref" /\ refs' = [refs EXCEPT ![b] = refs[b] - 1]
      /\ IF refs[b] = Mask + 1 + 1
         THEN thr' = [thr EXCEPT ![t] = [@ EXCEPT !.pc = "addLoad", !.aux = r.head, !.back = "loop"]]
         ELSE Pool!Goto(t, "loop")
  BY <1>4, <1>5 DEF Pool!DropOne, Pool!At, Pool!Subtract, Pool!SHOULD_BE_ON_FREELIST
<1>7. PICK m \in Nat : m = ReaderCount(b) /\ m > 0 /\ m + 1 <= Mask
  <2>1. ReaderCount(b) > 0
    BY <1>4, <1>5, <1>6, SomebodyReads DEF Reading
  <2>2. /\ ReaderCount(b) \in Nat /\ ReaderCount(b) <= Cardinality(PoolThreads)
        /\ Cardinality(PoolThreads) \in Nat /\ Cardinality(PoolThreads) + 1 <= Mask /\ Mask \in Nat
    BY ReaderCountType, PoolConstants
  <2>3. PICK m : m = ReaderCount(b)
    OBVIOUS
  <2>4. m \in Nat /\ m + 1 <= Mask
    BY <2>2, <2>3
  <2> QED
    BY <2>1, <2>3, <2>4
<1>8. b \in Seen /\ b \in Pool!Existing /\ b \in Pool!Blocks
  BY <1>3, <1>4, <1>5, <1>6, ExistingBlocks DEF ThreadRight, Reading
<1>9. PICK n \in Nat : n = refs[b]
  BY <1>3, <1>8 DEF PoolShape
<1>10. \/ n \in {m, m + 1}
       \/ ~Held(b) /\ b \notin used /\ b \notin L /\ n = Mask + 1 + m
  BY <1>3, <1>7, <1>8, <1>9, CountSays
<1>11. PICK w \in Nat : w = n - 1
  BY <1>7, <1>9, <1>10, PoolConstants
<1>12. refs' = [refs EXCEPT ![b] = w]
  BY <1>6, <1>9, <1>11
<1>13. refs'[b] = w
  BY <1>12, <1>3, <1>8, OneCount
<1>14. Seen' = Seen /\ Pool!Existing' = Pool!Existing
  BY <1>6, SameBlocks
<1>15. Reads(thr[t], b) = 1
  BY <1>4, <1>5, <1>6 DEF Reads, Reading
<1>16. r.head \in Seen \cup {0} /\ r.head \in Nat
  <2>1. r.head \in Seen \cup {0}
    BY <1>3, <1>4 DEF ThreadRight
  <2>2. r.head \in Pool!Blocks \cup {0}
    BY DEF Local
  <2> QED
    BY <2>1, <2>2, BlockNumbers, PoolConstants
<1>17. CASE n = Mask + 1 + 1
  <2>1. thr' = [thr EXCEPT ![t] = [r EXCEPT !.pc = "addLoad", !.aux = r.head, !.back = "loop"]]
    BY <1>4, <1>6, <1>9, <1>17
  <2>2. PICK s : s = [r EXCEPT !.pc = "addLoad", !.aux = r.head, !.back = "loop"]
    OBVIOUS
  <2>3. s \in Local /\ s.pc = "addLoad" /\ s.node = b /\ s.head = r.head /\ s.aux = r.head
    BY <2>2, <1>5, <1>16 DEF Local, Adding, Zeroed
  <2>4. ~Held(b) /\ b \notin used /\ b \notin L /\ m = 1 /\ w = Mask + 1
    <3>1. n \notin {m, m + 1}
      BY <1>7, <1>17, PoolConstants
    <3>2. ~Held(b) /\ b \notin used /\ b \notin L /\ n = Mask + 1 + m
      BY <3>1, <1>10
    <3>3. m = 1 /\ w = Mask + 1
      BY <3>2, <1>7, <1>11, <1>17, PoolConstants
    <3> QED
      BY <3>2, <3>3
  <2>5. Reads(s, b) = 0 /\ thr' = [thr EXCEPT ![t] = s]
    <3>1. Reads(s, b) = 0
      BY <2>3 DEF Reads, Reading
    <3> QED
      BY <2>1, <2>2, <3>1
  <2>6. ReaderCount(b)' = 0
    <3>1. ReaderCount(b)' = ReaderCount(b) - 1
      BY <2>3, <2>5, <1>3, <1>15, CountAfter
    <3>2. ReaderCount(b) = 1
      BY <2>4, <1>7
    <3> QED
      BY <3>1, <3>2
  <2>7. WorksAt(thr[t], b) /\ WorksAt(s, b) /\ s.pc # "pool"
    BY <1>4, <1>5, <2>3 DEF WorksAt
  <2>8. ThreadRight(s)
    BY <1>3, <1>4, <1>8, <1>16, <2>3 DEF ThreadRight, Reading, Holding, Adding, Zeroed, Pushing
  <2>9. HolderRight(s, L)'
    BY <2>3, <2>4, <2>6, <1>6, <1>13 DEF HolderRight, Pushing, Zeroed
  <2>10. OtherHolders(t, s, b, L)
    BY <2>4 DEF OtherHolders, Held
  <2>11. BlockRight(b, L)'
    <3>1. Held(b)'
      BY <2>3, <2>5, <1>3, OneMoves DEF Held, Holding, Adding, Zeroed
    <3> QED
      BY <3>1, <2>4, <1>6, <1>8, <1>14 DEF BlockRight
  <2> QED
    BY <1>1, <1>2, <1>6, <1>8, <1>12, <2>3, <2>5, <2>7, <2>8, <2>9, <2>10, <2>11, CountStep
<1>18. CASE n # Mask + 1 + 1
  <2>1. Pool!Goto(t, "loop") /\ "loop" \in Looking
    BY <1>6, <1>9, <1>18 DEF Looking
  <2>2. PICK s \in Local : /\ thr' = [thr EXCEPT ![t] = s] /\ s.pc = "loop"
                           /\ s.node = b /\ s.head = r.head
    BY <1>3, <1>4, <1>5, <2>1, GotoRecord
  <2>3. thr'[t] = s /\ \A u \in PoolThreads \ {t} : thr'[u] = thr[u]
    BY <1>3, <2>2, OneMoves
  <2>4. Reads(s, b) = 0
    BY <2>2 DEF Reads, Reading
  <2>5. ReaderCount(b)' = m - 1
    BY <2>2, <2>4, <1>3, <1>7, <1>15, CountAfter
  <2>6. WorksAt(thr[t], b) /\ WorksAt(s, b) /\ s.pc # "pool"
    BY <1>4, <1>5, <2>2 DEF WorksAt
  <2>7. ThreadRight(s)
    BY <1>3, <1>4, <1>5, <1>8, <1>16, <2>2 DEF ThreadRight, Reading, Holding, Adding, Zeroed, Pushing
  <2>8. HolderRight(s, L)'
    BY <2>2 DEF HolderRight, Holding, Adding, Zeroed, Pushing
  <2>9. OtherHolders(t, s, b, L)
    <3> SUFFICES ASSUME NEW u \in PoolThreads \ {t}, thr[u].pc \in Holding, thr[u].node = b
                 PROVE  s.pc \notin Holding /\ (HolderRight(thr[u], L))'
      BY DEF OtherHolders
    <3>1. PICK q : q = thr[u]
      OBVIOUS
    <3>2. HolderRight(q, L) /\ thr'[u] = q /\ q.node = b
      BY <3>1, <1>3, <2>3
    <3>3. HolderRight(q, L)'
      BY <3>2, <2>5, <1>6, <1>7, <1>9, <1>11, <1>13 DEF HolderRight
    <3> QED
      BY <3>2, <3>3, <2>2, <2>3 DEF Holding, Adding, Zeroed, Pushing
  <2>10. BlockRight(b, L)'
    <3>1. BlockRight(b, L)
      BY <1>3, <1>8
    <3>2. Held(b) => Held(b)'
      BY <2>3, <1>4, <1>6 DEF Held, Holding, Adding, Zeroed, Pushing
    <3>3. n = Mask + 1 + m => w = Mask + 1 + (m - 1) /\ m - 1 > 0
      BY <1>7, <1>11, <1>18, PoolConstants
    <3> QED
      BY <3>1, <3>2, <3>3, <2>5, <1>6, <1>7, <1>8, <1>9, <1>11, <1>13, <1>14 DEF BlockRight, GivenUp
  <2> QED
    BY <1>1, <1>2, <1>6, <1>8, <1>12, <2>2, <2>6, <2>7, <2>8, <2>9, <2>10, CountStep
<1> QED
  BY <1>17, <1>18
-----------------------------------------------------------------------------
(* A block that is not there yet is nobody's, and nobody's to read.        *)
LEMMA NotThereYet ==
    ASSUME NEW k, NEW lst, PoolWith(k, lst), NEW b \in Pool!Blocks, b \notin Seen
    PROVE  /\ b \notin Members(k, lst) /\ ReaderCount(b) = 0
           /\ \A u \in PoolThreads : thr[u].pc \in Reading \cup Holding => thr[u].node # b
<1>1. PoolShape /\ ListOf(k, lst) /\ \A u \in PoolThreads : ThreadRight(thr[u])
  BY DEF PoolWith
<1>2. \A u \in PoolThreads : thr[u].pc \in Reading \cup Holding => thr[u].node # b
  BY <1>1 DEF ThreadRight
<1>3. ReaderCount(b) = 0
  BY <1>2, NobodyReads
<1>4. b \notin Members(k, lst)
  BY <1>1, HeadSeen
<1> QED
  BY <1>2, <1>3, <1>4

(* The bound of the index of the initial pool, if no thread comes to take  *)
(* from it.                                                                *)
LEMMA WaitingStays ==
    ASSUME PoolShape, NEW t \in PoolThreads, NEW s \in Local, thr' = [thr EXCEPT ![t] = s],
           s.pc # "pool"
    PROVE  /\ Cardinality(Waiting') \in Nat /\ Cardinality(Waiting) \in Nat
           /\ Cardinality(Waiting') <= Cardinality(Waiting)
           /\ Cardinality(Waiting) <= Cardinality(PoolThreads)
           /\ thr[t].pc = "pool" => Cardinality(Waiting') = Cardinality(Waiting) - 1
<1>1. /\ thr'[t] = s /\ \A u \in PoolThreads \ {t} : thr'[u] = thr[u]
  BY OneMoves
<1>2. Waiting' = Waiting \ {t} /\ Waiting \subseteq PoolThreads
  BY <1>1 DEF Waiting
<1>3. thr[t].pc = "pool" => t \in Waiting
  BY DEF Waiting
<1>4. IsFiniteSet(Waiting) /\ Waiting' \subseteq Waiting
  BY <1>2, PoolConstants, FS_Subset
<1>5. /\ Cardinality(Waiting') \in Nat /\ Cardinality(Waiting) \in Nat
      /\ Cardinality(Waiting') <= Cardinality(Waiting)
      /\ Cardinality(Waiting) <= Cardinality(PoolThreads)
  BY <1>2, <1>4, PoolConstants, FS_Subset, FS_CardinalityType
<1>6. t \in Waiting => Cardinality(Waiting') = Cardinality(Waiting) - 1
  BY <1>2, <1>4, FS_RemoveElement
<1> QED
  BY <1>3, <1>5, <1>6

(* Allocate preserves the invariant. *)
LEMMA AllocateKeeps == ASSUME PoolInv, NEW t \in PoolThreads, Pool!Allocate(t) PROVE PoolInv'
<1>1. PICK k, lst : PoolWith(k, lst)
  BY DEF PoolInv
<1>2. PICK L : L = Members(k, lst)
  OBVIOUS
<1>3. /\ PoolShape /\ ListOf(k, lst) /\ k \in Nat
      /\ \A u \in PoolThreads : ThreadRight(thr[u])
      /\ \A c \in Pool!Blocks : BlockRight(c, L)
  BY <1>1, <1>2 DEF PoolWith, ListOf
<1>4. PICK s \in Local : s = Pool!Idle /\ s.pc = "idle" /\ s.node = 0 /\ ThreadRight(s)
  BY IdleRecord
<1>5. /\ thr[t].pc = "loop" /\ thr' = [thr EXCEPT ![t] = s]
      /\ recycle' = recycle /\ poolIndex' = poolIndex /\ poolHead' = poolHead
  BY <1>4 DEF Pool!Allocate, Pool!At, Pool!Deliver
<1>6. CASE UNCHANGED <<used, live, refs, poolNext>>
  <2>1. SameWork(thr[t], s)
    BY <1>4, <1>5, FreeToMove DEF Looking
  <2>2. s.pc # "pool"
    BY <1>4
  <2> QED
    BY <1>1, <1>4, <1>5, <1>6, <2>1, <2>2, ThreadOnly
<1>7. ASSUME NEW b \in Pool!Dynamic \ live, used' = used \cup {b}, live' = live \cup {b},
             refs' = [refs EXCEPT ![b] = 0], poolNext' = [poolNext EXCEPT ![b] = 0]
      PROVE  PoolInv'
  <2>1. b \in Pool!Blocks /\ b \notin Pool!Pool /\ b \notin Pool!Existing /\ b \notin Seen
    BY BlockNumbers DEF Pool!Existing, Seen
  <2>2. /\ b \notin L /\ ReaderCount(b) = 0
        /\ \A u \in PoolThreads : thr[u].pc \in Reading \cup Holding => thr[u].node # b
    BY <2>1, <1>1, <1>2, NotThereYet
  <2>3. /\ refs' \in [Pool!Blocks -> Nat] /\ refs'[b] = 0
        /\ \A c \in Pool!Blocks \ {b} : refs'[c] = refs[c]
    BY <2>1, <1>3, <1>7, OneCount
  <2>4. /\ poolNext' \in [Pool!Blocks -> Pool!Blocks \cup {0}]
        /\ \A c \in Pool!Blocks \ {b} : poolNext'[c] = poolNext[c]
    BY <2>1, <1>3, <1>7 DEF PoolShape
  <2>5. Pool!Existing' = Pool!Existing \cup {b}
    BY <1>5, <1>7 DEF Pool!Existing, Pool!Pool
  <2>6. Seen \subseteq Seen'
    BY <2>5, <1>5 DEF Seen, Pool!Pool
  <2>7. WorksAt(thr[t], b) /\ WorksAt(s, b)
    BY <1>4, <1>5 DEF WorksAt, Reading, Holding, Adding, Zeroed, Pushing
  <2>8. Untouched(b, L, L)
    BY <1>7, <2>3, <2>5 DEF Untouched
  <2>9. PoolShape'
    <3>1. poolIndex >= PoolSize => poolIndex + Cardinality(Waiting') <= PoolSize + Cardinality(PoolThreads)
      <4>1. /\ Cardinality(Waiting') \in Nat /\ Cardinality(Waiting) \in Nat
            /\ Cardinality(Waiting') <= Cardinality(Waiting)
        BY <1>3, <1>4, <1>5, WaitingStays
      <4>2. /\ poolIndex >= PoolSize => poolIndex + Cardinality(Waiting) <= PoolSize + Cardinality(PoolThreads)
            /\ poolIndex \in Nat
        BY <1>3 DEF PoolShape
      <4> QED
        BY <4>1, <4>2, PoolConstants
    <3>2. thr' \in [PoolThreads -> Local]
      BY <1>3, <1>5, OneMoves
    <3>3. /\ live' \subseteq Pool!Dynamic /\ used' \subseteq Pool!Blocks
          /\ recycle' = FALSE => live' \subseteq used'
      BY <1>3, <1>5, <1>7, <2>1 DEF PoolShape
    <3> QED
      BY <3>1, <3>2, <3>3, <2>3, <2>4, <1>3, <1>5 DEF PoolShape
  <2>10. ListOf(k, lst)'
    <3>1. \A c \in Members(k, lst) : poolNext'[c] = poolNext[c]
      BY <1>2, <1>3, <2>2, <2>4, HeadSeen, ExistingBlocks
    <3> QED
      BY <3>1, <1>3, <1>5, <2>6, ListStays
  <2>11. NextKept(t)
    <3> SUFFICES ASSUME NEW u \in PoolThreads \ {t}, thr[u].pc \in {"pop", "one", "push"}
                 PROVE  poolNext'[thr[u].node] = poolNext[thr[u].node]
      BY DEF NextKept
    <3>1. thr[u].node # b /\ thr[u].node \in Seen
      BY <1>3, <2>2 DEF ThreadRight, Reading, Holding, Adding, Zeroed, Pushing
    <3> QED
      BY <3>1, <2>4, <1>3, ExistingBlocks
  <2>12. ThreadRight(s)'
    BY <1>4, <2>6, KnowledgeStays
  <2>13. HolderRight(s, L)'
    BY <1>4 DEF HolderRight, Holding, Adding, Zeroed, Pushing
  <2>14. OtherHolders(t, s, b, L)
    BY <2>2 DEF OtherHolders
  <2>15. BlockRight(b, L)'
    <3>1. Reads(thr[t], b) = 0 /\ Reads(s, b) = 0
      BY <1>4, <1>5 DEF Reads, Reading
    <3>2. ReaderCount(b)' = 0
      BY <3>1, <1>3, <1>5, <2>2, CountAfter
    <3> QED
      BY <3>2, <1>7, <2>2, <2>3, <2>5 DEF BlockRight
  <2> QED
    BY <1>1, <1>2, <1>3, <1>5, <2>6, <2>7, <2>8, <2>9, <2>10, <2>11, <2>12, <2>13, <2>14, <2>15,
       OneBlockStep
<1>8. \/ UNCHANGED <<used, live, refs, poolNext>>
      \/ \E b \in Pool!Dynamic \ live :
            /\ used' = used \cup {b} /\ live' = live \cup {b}
            /\ refs' = [refs EXCEPT ![b] = 0] /\ poolNext' = [poolNext EXCEPT ![b] = 0]
  BY DEF Pool!Allocate, Pool!Deliver, Pool!NULL
<1> QED
  BY <1>6, <1>7, <1>8

(* GiveBack preserves the invariant: an allocated block that is destroyed  *)
(* was never on the list, so that nobody looks at it.                      *)
LEMMA GiveBackKeeps ==
    ASSUME PoolInv, NEW t \in PoolThreads, NEW b \in Pool!Blocks, Pool!GiveBack(t, b)
    PROVE  PoolInv'
<1>1. PICK k, lst : PoolWith(k, lst)
  BY DEF PoolInv
<1>2. PICK L : L = Members(k, lst)
  OBVIOUS
<1>3. /\ PoolShape /\ ListOf(k, lst) /\ k \in Nat /\ ThreadRight(thr[t])
      /\ \A u \in PoolThreads : HolderRight(thr[u], L)
      /\ \A c \in Pool!Blocks : BlockRight(c, L)
  BY <1>1, <1>2 DEF PoolWith, ListOf
<1>4. PICK r \in Local : r = thr[t]
  BY <1>3 DEF PoolShape
<1>5. /\ r.pc = "idle" /\ recycle' = recycle /\ poolIndex' = poolIndex /\ poolHead' = poolHead
      /\ poolNext' = poolNext /\ refs' = refs /\ used' = used \ {b}
      /\ b \in used /\ b \in Pool!Existing /\ b \notin L /\ refs[b] = ReaderCount(b)
  BY <1>3, <1>4 DEF Pool!GiveBack, Pool!At, BlockRight
<1>6. OtherHolders(t, r, b, L) /\ \A s : OtherHolders(t, s, b, L)
  BY <1>3, <1>5 DEF OtherHolders, HolderRight
<1>7. \A u \in PoolThreads : thr[u].pc \in Holding => thr[u].node # b
  BY <1>3, <1>5 DEF HolderRight
<1>8. CASE recycle = FALSE /\ b \in Pool!Dynamic
  <2>1. live' = live \ {b} /\ thr' = thr
    BY <1>8 DEF Pool!GiveBack
  <2>2. thr' = [thr EXCEPT ![t] = r]
    BY <2>1, <1>3, <1>4 DEF PoolShape
  <2>3. b \notin Pool!Pool /\ b \notin Seen
    BY <1>8, BlockNumbers DEF Seen
  <2>4. ReaderCount(b) = 0
    BY <2>3, <1>1, NotThereYet
  <2>5. Pool!Existing' = Pool!Existing \ {b}
    BY <2>1, <2>3, <1>5 DEF Pool!Existing, Pool!Pool
  <2>6. Seen \subseteq Seen'
    BY <2>3, <2>5, <1>5 DEF Seen, Pool!Pool
  <2>7. WorksAt(thr[t], b) /\ WorksAt(r, b)
    BY <1>4, <1>5 DEF WorksAt, Reading, Holding, Adding, Zeroed, Pushing
  <2>8. Untouched(b, L, L)
    BY <1>5, <2>5 DEF Untouched
  <2>9. PoolShape'
    <3>1. Waiting' = Waiting
      BY <2>1 DEF Waiting
    <3>2. live' \subseteq Pool!Dynamic /\ used' \subseteq Pool!Blocks /\ live' \subseteq used'
      BY <1>3, <1>5, <1>8, <2>1 DEF PoolShape
    <3> QED
      BY <3>1, <3>2, <1>3, <1>5, <2>1 DEF PoolShape
  <2>10. ListOf(k, lst)'
    BY <1>3, <1>5, <2>6, ListStays
  <2>11. NextKept(t)
    BY <1>5 DEF NextKept
  <2>12. ThreadRight(r)'
    BY <1>3, <1>4, <1>5, <2>6, KnowledgeStays
  <2>13. HolderRight(r, L)'
    BY <1>5 DEF HolderRight, Holding, Adding, Zeroed, Pushing
  <2>14. BlockRight(b, L)'
    BY <1>5, <2>4, <2>5 DEF BlockRight
  <2> QED
    BY <1>1, <1>2, <1>3, <1>6, <2>2, <2>6, <2>7, <2>8, <2>9, <2>10, <2>11, <2>12, <2>13, <2>14,
       OneBlockStep
<1>9. CASE recycle = TRUE \/ b \notin Pool!Dynamic
  <2>1. live' = live /\ thr' = [thr EXCEPT ![t] = [Pool!Idle EXCEPT !.pc = "flag", !.node = b]]
    BY <1>3, <1>9 DEF Pool!GiveBack, PoolShape
  <2>2. PICK s : s = [Pool!Idle EXCEPT !.pc = "flag", !.node = b]
    OBVIOUS
  <2>3. s \in Local /\ s.pc = "flag" /\ s.node = b /\ s.head = 0 /\ s.aux = 0
    BY <2>2 DEF Pool!Idle, Pool!NULL, Local, Adding
  <2>4. thr' = [thr EXCEPT ![t] = s]
    BY <2>1, <2>2
  <2>5. b \in Seen
    BY <1>5, <1>9, BlockNumbers DEF Seen
  <2>6. Seen' = Seen /\ Pool!Existing' = Pool!Existing
    BY <2>1, <1>5, SameBlocks
  <2>7. WorksAt(thr[t], b) /\ WorksAt(s, b)
    BY <1>4, <1>5, <2>3 DEF WorksAt, Reading, Holding, Adding, Zeroed, Pushing
  <2>8. Untouched(b, L, L)
    BY <1>5, <2>6 DEF Untouched
  <2>9. PoolShape'
    <3>1. used' \subseteq Pool!Blocks /\ (recycle = FALSE => live \subseteq used') /\ s.pc # "pool"
      BY <1>3, <1>5, <1>9, <2>3 DEF PoolShape
    <3>2. /\ poolNext' \in [Pool!Blocks -> Pool!Blocks \cup {0}] /\ refs' \in [Pool!Blocks -> Nat]
      BY <1>3, <1>5 DEF PoolShape
    <3> QED
      BY <3>1, <3>2, <1>3, <1>5, <2>1, <2>3, <2>4, ShapeStays
  <2>10. ListOf(k, lst)'
    BY <1>3, <1>5, <2>6, ListStays
  <2>11. NextKept(t)
    BY <1>5 DEF NextKept
  <2>12. ThreadRight(s)'
    BY <2>3, <2>5, <2>6 DEF ThreadRight, Reading, Holding, Adding, Zeroed, Pushing
  <2>13. Reads(thr[t], b) = 0 /\ Reads(s, b) = 0
    BY <1>4, <1>5, <2>3 DEF Reads, Reading
  <2>14. ReaderCount(b)' = ReaderCount(b)
    BY <1>3, <2>3, <2>4, <2>13, CountAfter
  <2>15. HolderRight(s, L)'
    BY <1>5, <2>3, <2>14 DEF HolderRight, Zeroed, Pushing
  <2>16. BlockRight(b, L)'
    <3>1. Held(b)'
      BY <2>3, <2>4, <1>3, OneMoves DEF Held, Holding, Adding
    <3> QED
      BY <3>1, <1>5, <2>6 DEF BlockRight
  <2> QED
    BY <1>1, <1>2, <1>3, <1>6, <2>3, <2>4, <2>6, <2>7, <2>8, <2>9, <2>10, <2>11, <2>12, <2>15, <2>16,
       OneBlockStep
<1> QED
  BY <1>3, <1>8, <1>9 DEF PoolShape

(* TakeFromPool preserves the invariant: an index is taken once, and the   *)
(* threads that pass the end do so once each.                              *)
LEMMA TakeFromPoolKeeps == ASSUME PoolInv, NEW t \in PoolThreads, Pool!TakeFromPool(t) PROVE PoolInv'
<1>1. PICK k, lst : PoolWith(k, lst)
  BY DEF PoolInv
<1>2. PICK L : L = Members(k, lst)
  OBVIOUS
<1>3. /\ PoolShape /\ ListOf(k, lst) /\ k \in Nat
      /\ \A u \in PoolThreads : ThreadRight(thr[u])
      /\ \A c \in Pool!Blocks : BlockRight(c, L)
  BY <1>1, <1>2 DEF PoolWith, ListOf
<1>4. PICK i \in Nat : i = poolIndex
  BY <1>3 DEF PoolShape
<1>5. /\ thr[t].pc = "pool" /\ recycle' = recycle /\ poolIndex' = i + 1 /\ poolHead' = poolHead
      /\ poolNext' = poolNext /\ refs' = refs /\ live' = live
      /\ IF i < PoolSize THEN Pool!Deliver(t, i + 1) ELSE Pool!Goto(t, "load") /\ UNCHANGED used
  BY <1>4 DEF Pool!TakeFromPool, Pool!At
<1>6. i >= PoolSize => i + Cardinality(Waiting) <= PoolSize + Cardinality(PoolThreads)
  BY <1>3, <1>4 DEF PoolShape
<1>7. Seen \subseteq Seen'
  <2>1. poolIndex' \in Nat /\ poolIndex' >= poolIndex /\ live \subseteq live'
    BY <1>4, <1>5
  <2> QED
    BY <2>1, <1>3, <1>5, SeenStays
<1>8. ListOf(k, lst)'
  BY <1>3, <1>5, <1>7, ListStays
<1>9. NextKept(t)
  BY <1>5 DEF NextKept
<1>10. ASSUME NEW s \in Local, thr' = [thr EXCEPT ![t] = s], s.pc # "pool",
              used' \subseteq Pool!Blocks, used \subseteq used'
       PROVE  PoolShape'
  <2>1. /\ Cardinality(Waiting') \in Nat /\ Cardinality(Waiting) \in Nat
        /\ Cardinality(Waiting) <= Cardinality(PoolThreads)
        /\ Cardinality(Waiting') = Cardinality(Waiting) - 1
    BY <1>3, <1>5, <1>10, WaitingStays
  <2>2. i + 1 >= PoolSize => i + 1 + Cardinality(Waiting') <= PoolSize + Cardinality(PoolThreads)
    BY <2>1, <1>6, PoolConstants
  <2>3. thr' \in [PoolThreads -> Local]
    BY <1>3, <1>10, OneMoves
  <2>4. recycle' = FALSE => live' \subseteq used'
    BY <1>3, <1>5, <1>10 DEF PoolShape
  <2> QED
    BY <2>2, <2>3, <2>4, <1>3, <1>5, <1>10 DEF PoolShape
<1>11. CASE i < PoolSize
  <2>1. PICK b \in Nat : b = i + 1
    OBVIOUS
  <2>2. PICK s \in Local : s = Pool!Idle /\ s.pc = "idle" /\ s.node = 0 /\ ThreadRight(s)
    BY IdleRecord
  <2>3. thr' = [thr EXCEPT ![t] = s] /\ used' = used \cup {b}
    BY <1>5, <1>11, <2>1, <2>2 DEF Pool!Deliver
  <2>4. b \in Pool!Pool /\ b \in Pool!Blocks
    BY <1>11, <2>1, PoolConstants, BlockNumbers DEF Pool!Pool
  <2>5. b \notin Pool!Existing /\ b \notin Seen
    <3>1. ~(b <= poolIndex)
      BY <1>4, <2>1
    <3>2. b \notin live
      BY <2>4, <1>3, BlockNumbers DEF PoolShape
    <3> QED
      BY <3>1, <3>2 DEF Pool!Existing, Seen
  <2>6. Pool!Existing' = Pool!Existing \cup {b}
    <3>1. \A c \in Pool!Pool : c <= i + 1 <=> c <= i \/ c = b
      BY <2>1, PoolConstants DEF Pool!Pool
    <3> QED
      BY <3>1, <1>4, <1>5, <2>4 DEF Pool!Existing, Pool!Pool
  <2>7. /\ b \notin L /\ ReaderCount(b) = 0 /\ refs[b] = 0 /\ b \notin used
        /\ \A u \in PoolThreads : thr[u].pc \in Reading \cup Holding => thr[u].node # b
    BY <2>4, <2>5, <1>1, <1>2, <1>3, NotThereYet DEF BlockRight
  <2>8. WorksAt(thr[t], b) /\ WorksAt(s, b)
    BY <1>5, <2>2 DEF WorksAt, Reading, Holding, Adding, Zeroed, Pushing
  <2>9. Untouched(b, L, L)
    BY <1>5, <2>3, <2>6 DEF Untouched
  <2>10. PoolShape'
    <3>1. used' \subseteq Pool!Blocks /\ used \subseteq used'
      BY <1>3, <2>3, <2>4 DEF PoolShape
    <3> QED
      BY <3>1, <2>2, <2>3, <1>10
  <2>11. ThreadRight(s)'
    BY <1>5, <1>7, <2>2, KnowledgeStays
  <2>12. HolderRight(s, L)'
    BY <2>2 DEF HolderRight, Holding, Adding, Zeroed, Pushing
  <2>13. OtherHolders(t, s, b, L)
    BY <2>7 DEF OtherHolders
  <2>14. BlockRight(b, L)'
    <3>1. Reads(thr[t], b) = 0 /\ Reads(s, b) = 0
      BY <1>5, <2>2 DEF Reads, Reading
    <3>2. ReaderCount(b)' = 0
      BY <3>1, <1>3, <2>3, <2>7, CountAfter
    <3> QED
      BY <3>2, <1>5, <2>3, <2>6, <2>7 DEF BlockRight
  <2> QED
    BY <1>1, <1>2, <1>3, <1>7, <1>8, <1>9, <2>3, <2>8, <2>9, <2>10, <2>11, <2>12, <2>13, <2>14,
       OneBlockStep
<1>12. CASE ~(i < PoolSize)
  <2>1. Pool!Goto(t, "load") /\ used' = used /\ "load" \in Looking
    BY <1>5, <1>12 DEF Looking
  <2>2. PICK s \in Local : /\ thr' = [thr EXCEPT ![t] = s] /\ s.pc = "load"
                           /\ s.node = thr[t].node /\ s.head = thr[t].head
    BY <1>3, <2>1, GotoRecord
  <2>3. Pool!Existing' = Pool!Existing
    <3>1. \A c \in Pool!Pool : c <= i + 1 <=> c <= i
      BY <1>12, PoolConstants DEF Pool!Pool
    <3> QED
      BY <3>1, <1>4, <1>5 DEF Pool!Existing, Pool!Pool
  <2>4. WorksAt(thr[t], 0) /\ WorksAt(s, 0)
    BY <1>5, <2>2 DEF WorksAt, Reading, Holding, Adding, Zeroed, Pushing
  <2>5. Untouched(0, L, L)
    BY <1>5, <2>1, <2>3 DEF Untouched
  <2>6. PoolShape'
    <3>1. used' \subseteq Pool!Blocks /\ used \subseteq used'
      BY <1>3, <2>1 DEF PoolShape
    <3> QED
      BY <3>1, <2>2, <1>10
  <2>7. ThreadRight(s)
    BY <1>3, <2>2 DEF ThreadRight, Reading, Holding, Adding, Zeroed, Pushing
  <2>8. ThreadRight(s)'
    BY <1>5, <1>7, <2>7, KnowledgeStays
  <2>9. HolderRight(s, L)'
    BY <2>2 DEF HolderRight, Holding, Adding, Zeroed, Pushing
  <2>10. OtherHolders(t, s, 0, L)
    <3>1. \A u \in PoolThreads : thr[u].pc \in Holding => thr[u].node # 0
      BY <1>3, ExistingBlocks DEF ThreadRight
    <3> QED
      BY <3>1 DEF OtherHolders
  <2>11. 0 \notin Pool!Blocks
    BY BlockNumbers
  <2> QED
    BY <1>1, <1>2, <1>3, <1>7, <1>8, <1>9, <2>2, <2>4, <2>5, <2>6, <2>8, <2>9, <2>10, <2>11,
       OneBlockStep
<1> QED
  BY <1>11, <1>12
-----------------------------------------------------------------------------
(* At the start nothing is on the list and no block exists. *)
LEMMA InitPool == Pool!Init => PoolInv
<1> SUFFICES ASSUME Pool!Init
             PROVE  PoolInv
  OBVIOUS
<1>1. PICK s \in Local : s = Pool!Idle /\ s.pc = "idle" /\ s.node = 0 /\ s.head = 0 /\ ThreadRight(s)
  BY IdleRecord
<1>2. /\ recycle \in BOOLEAN /\ poolIndex = 0 /\ poolHead = 0 /\ used = {} /\ live = {}
      /\ poolNext = [b \in Pool!Blocks |-> 0] /\ refs = [b \in Pool!Blocks |-> 0]
      /\ \A t \in PoolThreads : thr[t] = s
      /\ thr \in [PoolThreads -> Local]
  BY <1>1 DEF Pool!Init, Pool!NULL
<1>3. Pool!Existing = {} /\ Seen = {}
  <2>1. \A b \in Pool!Pool : ~(b <= 0)
    BY PoolConstants DEF Pool!Pool
  <2> QED
    BY <2>1, <1>2 DEF Pool!Existing, Seen
<1>4. PICK lst : lst = [i \in 1 .. 0 |-> 0]
  OBVIOUS
<1>5. lst \in [1 .. 0 -> Seen] /\ Members(0, lst) = {}
  BY <1>4 DEF Members
<1>6. ListOf(0, lst)
  BY <1>2, <1>5 DEF ListOf
<1>7. Waiting = {}
  BY <1>1, <1>2 DEF Waiting
<1>8. PoolShape
  <2>1. Cardinality(Waiting) = 0
    BY <1>7, FS_EmptySet
  <2>2. poolIndex >= PoolSize => poolIndex + Cardinality(Waiting) <= PoolSize + Cardinality(PoolThreads)
    BY <2>1, <1>2, PoolConstants
  <2> QED
    BY <2>2, <1>2 DEF PoolShape
<1>9. OneHolder
  BY <1>1, <1>2 DEF OneHolder, Holding, Adding, Zeroed, Pushing
<1>10. \A t \in PoolThreads : ThreadRight(thr[t]) /\ HolderRight(thr[t], Members(0, lst))
  BY <1>1, <1>2 DEF HolderRight, Holding, Adding, Zeroed, Pushing
<1>11. \A b \in Pool!Blocks : BlockRight(b, Members(0, lst))
  BY <1>2, <1>3, <1>5 DEF BlockRight
<1>12. PoolWith(0, lst)
  BY <1>6, <1>8, <1>9, <1>10, <1>11 DEF PoolWith
<1> QED
  BY <1>5, <1>12 DEF PoolInv

(* The invariant is about the pool's variables only. *)
LEMMA PoolStutters == PoolInv /\ UNCHANGED poolVars => PoolInv'
<1> SUFFICES ASSUME PoolInv, UNCHANGED poolVars
             PROVE  PoolInv'
  OBVIOUS
<1>1. /\ recycle' = recycle /\ poolIndex' = poolIndex /\ poolHead' = poolHead /\ poolNext' = poolNext
      /\ refs' = refs /\ thr' = thr /\ used' = used /\ live' = live
  BY DEF poolVars
<1>2. PICK k, lst : PoolWith(k, lst)
  BY DEF PoolInv
<1>3. Seen' = Seen /\ Pool!Existing' = Pool!Existing
  BY <1>1, SameBlocks
<1>4. \A c : ReaderCount(c)' = ReaderCount(c) /\ (Held(c)' <=> Held(c))
  BY <1>1 DEF ReaderCount, Pool!Readers, Held
<1>5. PoolShape'
  BY <1>1, <1>2 DEF PoolWith, PoolShape, Waiting
<1>6. OneHolder'
  BY <1>1, <1>2 DEF PoolWith, OneHolder
<1>7. ListOf(k, lst)'
  BY <1>1, <1>2, <1>3 DEF PoolWith, ListOf
<1>8. ASSUME NEW t \in PoolThreads
      PROVE  (ThreadRight(thr[t]) /\ HolderRight(thr[t], Members(k, lst)))'
  <2>1. ThreadRight(thr[t]) /\ HolderRight(thr[t], Members(k, lst))
    BY <1>2 DEF PoolWith
  <2>2. ThreadRight(thr[t])'
    BY <2>1, <1>1, <1>3 DEF ThreadRight, Pool!Count, Pool!SHOULD_BE_ON_FREELIST
  <2>3. HolderRight(thr[t], Members(k, lst))'
    BY <2>1, <1>1, <1>4 DEF HolderRight, Members
  <2> QED
    BY <2>2, <2>3
<1>9. ASSUME NEW b \in Pool!Blocks
      PROVE  BlockRight(b, Members(k, lst))'
  <2>1. BlockRight(b, Members(k, lst))
    BY <1>2 DEF PoolWith
  <2> QED
    BY <2>1, <1>1, <1>3, <1>4 DEF BlockRight, GivenUp, Members
<1>10. PoolWith(k, lst)'
  BY <1>5, <1>6, <1>7, <1>8, <1>9 DEF PoolWith
<1>11. k \in Nat /\ lst \in [1 .. k -> Seen']
  BY <1>7 DEF ListOf
<1> QED
  BY <1>10, <1>11 DEF PoolInv

(* Every step preserves the invariant of the pool.                         *)
LEMMA NextPool == PoolInv /\ [ListsNext]_listsVars => PoolInv'
<1> SUFFICES ASSUME PoolInv, [ListsNext]_listsVars
             PROVE  PoolInv'
  OBVIOUS
<1>1. Pool!Next \/ UNCHANGED poolVars
  BY DEF ListsNext, listsVars, BlockPool, ThreadExit
<1>2. CASE UNCHANGED poolVars
  BY <1>2, PoolStutters
<1>3. ASSUME NEW t \in PoolThreads, Pool!Step(t)
      PROVE  PoolInv'
  <2>1. CASE Pool!TakeFromPool(t)
    BY <2>1, TakeFromPoolKeeps
  <2>2. CASE Pool!LoadHead(t)
    BY <2>2, LoadHeadKeeps
  <2>3. CASE Pool!LoadRefs(t)
    BY <2>3, LoadRefsKeeps
  <2>4. CASE Pool!TakeRef(t)
    BY <2>4, TakeRefKeeps
  <2>5. CASE Pool!LoadNext(t)
    BY <2>5, LoadNextKeeps
  <2>6. CASE Pool!PopHead(t)
    BY <2>6, PopHeadKeeps
  <2>7. CASE Pool!DropTwo(t)
    BY <2>7, DropTwoKeeps
  <2>8. CASE Pool!DropOne(t)
    BY <2>8, DropOneKeeps
  <2>9. CASE Pool!Allocate(t)
    BY <2>9, AllocateKeeps
  <2>10. CASE Pool!SetFlag(t)
    BY <2>10, SetFlagKeeps
  <2>11. CASE Pool!AddLoadHead(t)
    BY <2>11, AddLoadHeadKeeps
  <2>12. CASE Pool!StoreNext(t)
    BY <2>12, StoreNextKeeps
  <2>13. CASE Pool!StoreRefs(t)
    BY <2>13, StoreRefsKeeps
  <2>14. CASE Pool!PushHead(t)
    BY <2>14, PushHeadKeeps
  <2>15. CASE Pool!PushFailed(t)
    BY <2>15, PushFailedKeeps
  <2> QED
    BY <1>3, <2>1, <2>2, <2>3, <2>4, <2>5, <2>6, <2>7, <2>8, <2>9, <2>10, <2>11, <2>12, <2>13, <2>14, <2>15
       DEF Pool!Step
<1>4. ASSUME NEW t \in PoolThreads, Pool!Requisition(t)
      PROVE  PoolInv'
  BY <1>4, RequisitionKeeps
<1>5. ASSUME NEW t \in PoolThreads, NEW b \in Pool!Blocks, Pool!GiveBack(t, b)
      PROVE  PoolInv'
  BY <1>5, GiveBackKeeps
<1> QED
  BY <1>1, <1>2, <1>3, <1>4, <1>5 DEF Pool!Next

(* The invariant of the pool of blocks holds in every reachable state.     *)
THEOREM PoolInvariant == ListsSpec => []PoolInv
<1>1. ListsInit => PoolInv
  BY InitPool DEF ListsInit
<1> QED
  BY <1>1, NextPool, PTL DEF ListsSpec
-----------------------------------------------------------------------------
(* Where Walk comes to on a list: from the head to the last block, then to *)
(* the end.                                                                *)
Place(k, lst) == [n \in Nat |-> IF n < k THEN lst[k - n] ELSE 0]
WalkOn(f) == [n \in Nat |-> IF n = 0 THEN poolHead ELSE IF f[n - 1] = 0 THEN 0 ELSE poolNext[f[n - 1]]]

(* These places are a walk: each but the last is followed by its successor. *)
LEMMA PlaceWalks ==
    ASSUME PoolShape, NEW k, NEW lst, ListOf(k, lst)
    PROVE  Place(k, lst) = WalkOn(Place(k, lst))
<1>1. k \in Nat
  BY DEF ListOf
<1>2. PICK W : W = Place(k, lst)
  OBVIOUS
<1>3. /\ \A n \in Nat : n < k => W[n] = lst[k - n]
      /\ \A n \in Nat : ~(n < k) => W[n] = 0
  BY <1>2 DEF Place
<1>4. ASSUME NEW n \in Nat
      PROVE  W[n] = IF n = 0 THEN poolHead ELSE IF W[n - 1] = 0 THEN 0 ELSE poolNext[W[n - 1]]
  <2>1. CASE n = 0
    <3>1. CASE k = 0
      BY <3>1, <2>1, <1>3 DEF ListOf
    <3>2. CASE k # 0
      <4>1. W[n] = lst[k]
        BY <3>2, <2>1, <1>1, <1>3
      <4>2. poolHead = lst[k]
        BY <3>2 DEF ListOf
      <4> QED
        BY <4>1, <4>2, <2>1
    <3> QED
      BY <3>1, <3>2
  <2>2. CASE n # 0 /\ n - 1 < k
    <3>1. PICK i \in 1 .. k : i = k - (n - 1)
      BY <2>2, <1>1
    <3>2. W[n - 1] = lst[i] /\ (i # 1 <=> n < k) /\ (n < k => k - n = i - 1)
      BY <3>1, <2>2, <1>1, <1>3
    <3>3. W[n - 1] # 0
      <4>1. lst[i] \in Seen
        BY DEF ListOf
      <4> QED
        BY <4>1, <3>2, ExistingBlocks
    <3>4. poolNext[W[n - 1]] = IF i = 1 THEN 0 ELSE lst[i - 1]
      BY <3>2 DEF ListOf
    <3>5. W[n] = IF i = 1 THEN 0 ELSE lst[i - 1]
      BY <3>2, <1>3
    <3> QED
      BY <3>3, <3>4, <3>5, <2>2
  <2>3. CASE n # 0 /\ ~(n - 1 < k)
    <3>1. n - 1 \in Nat /\ ~(n < k)
      BY <2>3, <1>1
    <3>2. W[n - 1] = 0 /\ W[n] = 0
      BY <3>1, <2>3, <1>3
    <3> QED
      BY <3>2, <2>3
  <2> QED
    BY <2>1, <2>2, <2>3
<1>5. W = [n \in Nat |-> W[n]]
  BY <1>2 DEF Place
<1>6. W = WalkOn(W)
  BY <1>4, <1>5 DEF WalkOn
<1> QED
  BY <1>2, <1>6

(* Walk comes to these places, and to no others.                           *)
LEMMA WalkIs ==
    ASSUME PoolShape, NEW k, NEW lst, ListOf(k, lst)
    PROVE  \A n \in Nat : Pool!Walk[n] = Place(k, lst)[n]
<1>1. \E f : f = WalkOn(f)
  BY PlaceWalks
<1>2. Pool!Walk = CHOOSE f : f = WalkOn(f)
  BY DEF Pool!Walk, WalkOn, Pool!NULL
<1>3. Pool!Walk = WalkOn(Pool!Walk)
  BY <1>1, <1>2, Zenon
<1>4. PICK F : F = Pool!Walk /\ F = WalkOn(F)
  BY <1>3
<1>5. PICK W : W = Place(k, lst) /\ W = WalkOn(W)
  BY PlaceWalks
<1>6. \A n \in Nat : F[n] = IF n = 0 THEN poolHead ELSE IF F[n - 1] = 0 THEN 0 ELSE poolNext[F[n - 1]]
  BY <1>4 DEF WalkOn
<1>7. \A n \in Nat : W[n] = IF n = 0 THEN poolHead ELSE IF W[n - 1] = 0 THEN 0 ELSE poolNext[W[n - 1]]
  BY <1>5 DEF WalkOn
<1> DEFINE Wrong == {n \in Nat : F[n] # W[n]}
<1>8. Wrong = {}
  <2> SUFFICES ASSUME Wrong # {} PROVE FALSE
    OBVIOUS
  <2>1. PICK n \in Wrong : \A y \in Wrong : ~(<<y, n>> \in OpToRel(<, Nat))
    <3>1. Wrong \subseteq Nat
      OBVIOUS
    <3> HIDE DEF Wrong
    <3> QED
      BY <3>1, WFMin, NatLessThanWellFounded
  <2>2. n \in Nat /\ F[n] # W[n]
    OBVIOUS
  <2>3. n # 0
    BY <1>6, <1>7, <2>2
  <2>4. n - 1 \in Nat /\ n - 1 < n
    BY <2>2, <2>3
  <2>5. n - 1 \notin Wrong
    BY <2>1, <2>2, <2>4 DEF OpToRel
  <2>6. F[n - 1] = W[n - 1]
    BY <2>4, <2>5
  <2>7. F[n] = IF F[n - 1] = 0 THEN 0 ELSE poolNext[F[n - 1]]
    BY <1>6, <2>2, <2>3
  <2>8. W[n] = IF W[n - 1] = 0 THEN 0 ELSE poolNext[W[n - 1]]
    BY <1>7, <2>2, <2>3
  <2> QED
    BY <2>2, <2>6, <2>7, <2>8
<1> QED
  BY <1>4, <1>5, <1>8

(* The walk ends after as many steps as there are blocks, and has seen the *)
(* whole list.                                                             *)
LEMMA WalkSeesAll ==
    ASSUME PoolShape, NEW k, NEW lst, ListOf(k, lst)
    PROVE  /\ Cardinality(Pool!Blocks) \in Nat /\ Pool!Walk[Pool!Cardinality(Pool!Blocks)] = 0
           /\ Pool!OnList = Members(k, lst)
<1>1. k \in Nat /\ \A i \in 1 .. k : lst[i] \in Pool!Blocks /\ lst[i] # 0
  BY ExistingBlocks DEF ListOf
<1>2. PICK N \in Nat : N = Cardinality(Pool!Blocks) /\ N = PoolSize + MaxDynamic /\ IsFiniteSet(Pool!Blocks)
  BY BlockNumbers, PoolConstants, FS_Interval
<1>3. k <= N
  <2>1. IsFiniteSet(1 .. k) /\ Cardinality(1 .. k) = k
    BY <1>1, FS_Interval
  <2>2. lst \in Injection(1 .. k, Pool!Blocks)
    BY <1>1 DEF ListOf, Injection, IsInjective
  <2>3. Cardinality(1 .. k) <= Cardinality(Pool!Blocks)
    BY <2>2, <1>2, FS_Injection
  <2> QED
    BY <2>1, <2>3, <1>2
<1>4. PICK W : W = Place(k, lst)
  OBVIOUS
<1>5. /\ \A n \in Nat : Pool!Walk[n] = W[n]
      /\ \A n \in Nat : n < k => W[n] = lst[k - n]
      /\ \A n \in Nat : ~(n < k) => W[n] = 0
  BY <1>4, WalkIs DEF Place
<1>6. Pool!Walk[N] = 0
  BY <1>1, <1>3, <1>5
<1>7. Pool!OnList = {Pool!Walk[n] : n \in 0 .. N} \ {0}
  BY <1>2, SameCardinality DEF Pool!OnList, Pool!NULL
<1>8. ASSUME NEW n \in 0 .. N, Pool!Walk[n] # 0
      PROVE  Pool!Walk[n] \in Members(k, lst)
  <2>1. n < k /\ Pool!Walk[n] = lst[k - n]
    BY <1>5, <1>8
  <2>2. k - n \in 1 .. k
    BY <2>1, <1>1
  <2> QED
    BY <2>1, <2>2 DEF Members
<1>9. ASSUME NEW i \in 1 .. k
      PROVE  lst[i] \in Pool!OnList
  <2>1. PICK n \in 0 .. N : n = k - i /\ n < k /\ k - n = i
    BY <1>1, <1>3
  <2>2. Pool!Walk[n] = lst[i]
    BY <2>1, <1>5
  <2> QED
    BY <2>2, <1>1, <1>7
<1>10. Pool!OnList = Members(k, lst)
  <2>1. Pool!OnList \subseteq Members(k, lst)
    BY <1>7, <1>8
  <2>2. Members(k, lst) \subseteq Pool!OnList
    BY <1>9 DEF Members
  <2> QED
    BY <2>1, <2>2
<1>11. Pool!Cardinality(Pool!Blocks) = N
  BY <1>2, SameCardinality
<1> QED
  BY <1>2, <1>6, <1>10, <1>11
-----------------------------------------------------------------------------
(* What is known of a count of references wherever its block is.           *)
LEMMA CountBounds ==
    ASSUME NEW L, NEW b \in Pool!Blocks, BlockRight(b, L),
           \A u \in PoolThreads : HolderRight(thr[u], L)
    PROVE  /\ ReaderCount(b) \in 0 .. Mask - 1
           /\ refs[b] \in {0, ReaderCount(b), ReaderCount(b) + 1, Mask + 1 + ReaderCount(b)}
<1>1. PICK m \in Nat : m = ReaderCount(b) /\ m + 1 <= Mask
  <2>1. PICK m : m = ReaderCount(b)
    OBVIOUS
  <2> QED
    <3>1. /\ m \in Nat /\ m <= Cardinality(PoolThreads) /\ Cardinality(PoolThreads) \in Nat
          /\ Cardinality(PoolThreads) + 1 <= Mask /\ Mask \in Nat
      BY <2>1, ReaderCountType, PoolConstants
    <3>2. m + 1 <= Mask
      BY <3>1
    <3> QED
      BY <2>1, <3>1, <3>2
<1>2. CASE Held(b)
  <2>1. PICK u \in PoolThreads : thr[u].pc \in Holding /\ thr[u].node = b
    BY <1>2 DEF Held
  <2>2. PICK r : r = thr[u]
    OBVIOUS
  <2>3. r.pc \in Holding /\ r.node = b /\ HolderRight(r, L)
    BY <2>1, <2>2
  <2>4. r.pc = "flag" \/ r.pc \in Zeroed \/ r.pc \in Pushing \cup {"took"}
    BY <2>3 DEF Holding, Adding
  <2>5. refs[b] \in {m, m + 1} \/ (refs[b] = Mask + 1 /\ m = 0)
    <3>1. CASE r.pc = "flag"
      <4>1. refs[r.node] = ReaderCount(r.node)
        BY <2>3, <3>1 DEF HolderRight
      <4> QED
        BY <2>3, <1>1, <4>1, Zenon
    <3>2. CASE r.pc \in Zeroed
      BY <2>3, <1>1, <3>2 DEF HolderRight
    <3>3. CASE r.pc \in Pushing \cup {"took"}
      <4>1. refs[r.node] = ReaderCount(r.node) + 1
        BY <2>3, <3>3 DEF HolderRight
      <4> QED
        BY <2>3, <1>1, <4>1, Zenon
    <3> QED
      BY <2>4, <3>1, <3>2, <3>3
  <2> QED
    BY <2>5, <1>1, PoolConstants
<1>3. CASE ~Held(b)
  <2>1. refs[b] \in {0, m, m + 1, Mask + 1 + m}
    BY <1>1, <1>3 DEF BlockRight, GivenUp
  <2> QED
    BY <2>1, <1>1, PoolConstants
<1> QED
  BY <1>2, <1>3

(* The invariant implies type correctness of the pool.                     *)
LEMMA PoolTypes == ASSUME PoolInv PROVE Pool!TypeOK
<1>1. PICK k, lst : PoolWith(k, lst)
  BY DEF PoolInv
<1>2. PoolShape /\ ListOf(k, lst)
  BY <1>1 DEF PoolWith
<1>3. poolIndex \in 0 .. PoolSize + Pool!Cardinality(PoolThreads)
  <2>1. /\ Waiting \subseteq PoolThreads /\ poolIndex \in Nat
        /\ poolIndex >= PoolSize => poolIndex + Cardinality(Waiting) <= PoolSize + Cardinality(PoolThreads)
    BY <1>2 DEF Waiting, PoolShape
  <2>2. Cardinality(Waiting) \in Nat
    BY <2>1, PoolConstants, FS_Subset, FS_CardinalityType
  <2>3. poolIndex \in 0 .. PoolSize + Cardinality(PoolThreads)
    BY <2>1, <2>2, PoolConstants
  <2> QED
    BY <2>3, SameCardinality
<1>4. poolHead \in Pool!Blocks \cup {Pool!NULL}
  BY <1>2, HeadSeen DEF Pool!NULL
<1>5. refs \in [Pool!Blocks -> 0 .. 2 * Pool!SHOULD_BE_ON_FREELIST - 1]
  <2>1. ASSUME NEW b \in Pool!Blocks
        PROVE  refs[b] \in 0 .. 2 * (Mask + 1) - 1
    <3>1. /\ ReaderCount(b) \in 0 .. Mask - 1
          /\ refs[b] \in {0, ReaderCount(b), ReaderCount(b) + 1, Mask + 1 + ReaderCount(b)}
      BY <1>1, CountBounds DEF PoolWith
    <3> QED
      BY <3>1, PoolConstants
  <2> QED
    BY <2>1, <1>2 DEF PoolShape, Pool!SHOULD_BE_ON_FREELIST
<1> QED
  BY <1>2, <1>3, <1>4, <1>5 DEF PoolShape, Pool!TypeOK, Pool!NULL

(* The invariant implies that a block has one owner.                       *)
LEMMA PoolOwners == ASSUME PoolInv PROVE Pool!OneOwner
<1>1. PICK k, lst : PoolWith(k, lst)
  BY DEF PoolInv
<1>2. PICK L : L = Members(k, lst)
  OBVIOUS
<1>3. /\ PoolShape /\ OneHolder /\ ListOf(k, lst)
      /\ \A u \in PoolThreads : HolderRight(thr[u], L)
      /\ \A c \in Pool!Blocks : BlockRight(c, L)
  BY <1>1, <1>2 DEF PoolWith
<1>4. Pool!Walk[Pool!Cardinality(Pool!Blocks)] = 0 /\ Pool!OnList = L
  BY <1>2, <1>3, WalkSeesAll
<1>5. used \cap L = {}
  BY <1>3 DEF BlockRight, PoolShape
<1>6. \A t \in PoolThreads : Pool!Taken(t) \cap (used \cup L) = {}
  BY <1>3 DEF Pool!Taken, Pool!At, HolderRight, Holding
<1>7. ASSUME NEW b \in Pool!Blocks
      PROVE  /\ Pool!Cardinality(Pool!Adders(b)) <= 1
             /\ Pool!Adders(b) # {} => b \notin used \cup L
  <2>1. \A t \in Pool!Adders(b) : t \in PoolThreads /\ thr[t].pc \in Holding /\ thr[t].node = b
    BY DEF Pool!Adders, Holding, Adding, Zeroed, Pushing
  <2>2. Pool!Adders(b) # {} => b \notin used \cup L
    BY <2>1, <1>3 DEF HolderRight
  <2>3. CASE Pool!Adders(b) = {}
    <3>1. Cardinality(Pool!Adders(b)) = 0
      BY <2>3, FS_EmptySet
    <3> QED
      BY <3>1, <2>2, SameCardinality
  <2>4. CASE Pool!Adders(b) # {}
    <3>1. PICK t : Pool!Adders(b) = {t}
      BY <2>1, <2>4, <1>3 DEF OneHolder
    <3>2. Cardinality(Pool!Adders(b)) = 1
      BY <3>1, FS_Singleton
    <3> QED
      BY <3>2, <2>2, SameCardinality
  <2> QED
    BY <2>3, <2>4
<1>8. \A t, u \in PoolThreads : t # u => Pool!Taken(t) \cap Pool!Taken(u) = {}
  BY <1>3 DEF OneHolder, Pool!Taken, Pool!At, Holding
<1> QED
  BY <1>4, <1>5, <1>6, <1>7, <1>8 DEF Pool!OneOwner, Pool!NULL

(* The invariant implies that the counts of references are exact.          *)
LEMMA PoolCounts == ASSUME PoolInv PROVE Pool!RefsExact
<1>1. PICK k, lst : PoolWith(k, lst)
  BY DEF PoolInv
<1>2. PICK L : L = Members(k, lst)
  OBVIOUS
<1>3. /\ PoolShape /\ OneHolder /\ ListOf(k, lst)
      /\ \A u \in PoolThreads : HolderRight(thr[u], L) /\ ThreadRight(thr[u])
      /\ \A c \in Pool!Blocks : BlockRight(c, L)
  BY <1>1, <1>2 DEF PoolWith
<1>4. Pool!OnList = L
  BY <1>2, <1>3, WalkSeesAll
<1> DEFINE OnOrNear(b) == \/ b \in Pool!OnList \/ Pool!Pushing(b)
                          \/ \E t \in PoolThreads : b \in Pool!Taken(t)
           Zero(b) == \E t \in Pool!Adders(b) : thr[t].pc \in {"addLoad", "store", "one"}
<1>5. ASSUME NEW b \in Pool!Blocks, OnOrNear(b)
      PROVE  refs[b] = ReaderCount(b) + 1
  <2>1. CASE b \in L
    BY <2>1, <1>3 DEF BlockRight
  <2>2. CASE Pool!Pushing(b)
    <3>1. PICK t \in PoolThreads : thr[t].node = b /\ thr[t].pc \in {"push", "failed"}
      BY <2>2 DEF Pool!Pushing, Pool!Adders
    <3> QED
      BY <3>1, <1>3 DEF HolderRight, Pushing
  <2>3. CASE \E t \in PoolThreads : b \in Pool!Taken(t)
    <3>1. PICK t \in PoolThreads : thr[t].node = b /\ thr[t].pc = "took"
      BY <2>3 DEF Pool!Taken, Pool!At
    <3> QED
      BY <3>1, <1>3 DEF HolderRight, Pushing
  <2> QED
    BY <1>4, <1>5, <2>1, <2>2, <2>3
<1>6. ASSUME NEW b \in Pool!Blocks, ~OnOrNear(b)
      PROVE  refs[b] = ReaderCount(b) \/ refs[b] = Mask + 1 + ReaderCount(b)
  <2>1. CASE b \notin Pool!Existing
    <3>1. refs[b] = 0
      BY <2>1, <1>3 DEF BlockRight
    <3>2. b \notin Seen
      BY <2>1, <1>3, ExistingBlocks
    <3>3. ReaderCount(b) = 0
      BY <3>2, <1>1, NotThereYet
    <3> QED
      BY <3>1, <3>3
  <2>2. CASE Held(b)
    <3>1. PICK t \in PoolThreads : thr[t].pc \in Holding /\ thr[t].node = b
      BY <2>2 DEF Held
    <3>2. thr[t].pc \notin {"took", "push", "failed"}
      BY <3>1, <1>6 DEF Pool!Taken, Pool!At, Pool!Pushing, Pool!Adders
    <3>3. thr[t].pc = "flag" \/ thr[t].pc \in Zeroed
      BY <3>1, <3>2 DEF Holding, Adding, Pushing
    <3>4. HolderRight(thr[t], L)
      BY <1>3
    <3>5. refs[b] = ReaderCount(b) \/ (refs[b] = Mask + 1 /\ ReaderCount(b) = 0)
      <4>1. PICK r : r = thr[t]
        OBVIOUS
      <4>2. r.node = b /\ HolderRight(r, L) /\ (r.pc = "flag" \/ r.pc \in Zeroed)
        BY <3>1, <3>3, <3>4, <4>1
      <4>3. CASE r.pc = "flag"
        <5>1. refs[r.node] = ReaderCount(r.node)
          BY <4>2, <4>3 DEF HolderRight
        <5> QED
          BY <4>2, <5>1, Zenon
      <4>4. CASE r.pc \in Zeroed
        BY <4>2, <4>4 DEF HolderRight
      <4> QED
        BY <4>2, <4>3, <4>4
    <3> QED
      BY <3>5, PoolConstants
  <2>3. CASE b \in Pool!Existing /\ ~Held(b)
    BY <2>3, <1>3, <1>4, <1>6 DEF BlockRight, GivenUp
  <2> QED
    BY <2>1, <2>2, <2>3
<1>7. ASSUME NEW b \in Pool!Blocks, Zero(b)
      PROVE  Pool!Readers(b) = {}
  <2>1. PICK t \in PoolThreads : thr[t].node = b /\ thr[t].pc \in Zeroed
    BY <1>7 DEF Pool!Adders, Zeroed
  <2>2. ReaderCount(b) = 0
    BY <2>1, <1>3 DEF HolderRight
  <2> QED
    BY <2>2, ReaderCountType, FS_EmptySet DEF ReaderCount
<1>8. ASSUME NEW b \in Pool!Blocks
      PROVE  LET list == IF OnOrNear(b) THEN 1 ELSE 0
             IN  /\ Pool!Count(refs[b]) = list + Pool!Cardinality(Pool!Readers(b))
                 /\ Zero(b) => Pool!Readers(b) = {}
                 /\ list = 1 => ~Pool!Flagged(refs[b])
  <2>1. PICK m \in 0 .. Mask - 1 : m = ReaderCount(b) /\ m = Pool!Cardinality(Pool!Readers(b))
    BY <1>3, CountBounds, SameCardinality DEF ReaderCount
  <2>2. m \in 0 .. Mask /\ m + 1 \in 0 .. Mask
    BY PoolConstants
  <2>3. CASE OnOrNear(b)
    <3>1. refs[b] = m + 1
      BY <1>5, <2>1, <2>3
    <3>2. Pool!Count(m + 1) = m + 1 /\ m + 1 < Mask + 1
      BY <2>2, CountValue
    <3>3. ~Pool!Flagged(m + 1)
      BY <2>2, <3>2, PoolConstants DEF Pool!Flagged, Pool!SHOULD_BE_ON_FREELIST
    <3> HIDE DEF OnOrNear, Zero
    <3> QED
      BY <1>7, <2>1, <2>2, <2>3, <3>1, <3>2, <3>3
  <2>4. CASE ~OnOrNear(b)
    <3>1. refs[b] = m \/ refs[b] = Mask + 1 + m
      BY <1>6, <2>1, <2>4
    <3>2. Pool!Count(m) = m /\ Pool!Count(Mask + 1 + m) = m
      BY <2>2, CountValue
    <3>3. Pool!Count(refs[b]) = m
      BY <3>1, <3>2
    <3> HIDE DEF OnOrNear, Zero
    <3> QED
      BY <1>7, <2>1, <2>2, <2>4, <3>3
  <2> QED
    BY <2>3, <2>4
<1> QED
  BY <1>8 DEF Pool!RefsExact

(* The invariant implies that no block is lost.                            *)
LEMMA PoolKeepsAll == ASSUME PoolInv PROVE Pool!NoBlockLost
<1>1. PICK k, lst : PoolWith(k, lst)
  BY DEF PoolInv
<1>2. PICK L : L = Members(k, lst)
  OBVIOUS
<1>3. /\ PoolShape /\ ListOf(k, lst) /\ \A c \in Pool!Blocks : BlockRight(c, L)
  BY <1>1, <1>2 DEF PoolWith
<1>4. Pool!OnList = L
  BY <1>2, <1>3, WalkSeesAll
<1>5. ASSUME NEW b \in Pool!Existing \ (used \cup Pool!OnList)
      PROVE  \/ Pool!Adders(b) # {} \/ \E t \in PoolThreads : b \in Pool!Taken(t)
             \/ Pool!Flagged(refs[b]) /\ Pool!Readers(b) # {}
  <2>1. Held(b) \/ GivenUp(b)
    BY <1>3, <1>4, ExistingBlocks DEF BlockRight
  <2>2. CASE Held(b)
    <3>1. PICK t \in PoolThreads : thr[t].pc \in Holding /\ thr[t].node = b
      BY <2>2 DEF Held
    <3>2. CASE thr[t].pc = "took"
      BY <3>1, <3>2 DEF Pool!Taken, Pool!At
    <3>3. CASE thr[t].pc # "took"
      <4>1. t \in Pool!Adders(b)
        BY <3>1, <3>3 DEF Pool!Adders, Holding, Adding, Zeroed, Pushing
      <4> QED
        BY <4>1
    <3> QED
      BY <3>2, <3>3
  <2>3. CASE GivenUp(b)
    <3>1. Pool!Readers(b) # {}
      BY <2>3, FS_EmptySet DEF GivenUp, ReaderCount
    <3>2. PICK m \in Nat : m = ReaderCount(b)
      BY ReaderCountType
    <3>3. Pool!Flagged(refs[b])
      BY <2>3, <3>2, PoolConstants DEF GivenUp, Pool!Flagged, Pool!SHOULD_BE_ON_FREELIST
    <3> QED
      BY <3>1, <3>3
  <2> QED
    BY <2>1, <2>2, <2>3
<1> QED
  BY <1>5 DEF Pool!NoBlockLost

(* The free list of blocks: a block has one owner however often it leaves  *)
(* the list and comes back while another thread looks at it, the list has  *)
(* no cycle, the count of references is exact and fits, and no block is    *)
(* lost; for every number of threads and blocks.                           *)
THEOREM PoolAlwaysRight == ListsSpec => []PoolRight
<1>1. PoolInv => PoolRight
  BY PoolTypes, PoolOwners, PoolCounts, PoolKeepsAll DEF PoolRight
<1> QED
  BY <1>1, PoolInvariant, PTL
-----------------------------------------------------------------------------
(***************************************************************************)
(* ThreadExit: the ends of threads and of queues.  First the types.        *)
(***************************************************************************)
Exiting == {"callback", "next", "unlock", "undefined"}
Destroying == {"producer", "unsubscribe", "free"}

ExitTypes ==
    /\ exitList \in [ExitThreads -> Seq(Exits!Listeners)]
    /\ chain \in [Exits!Listeners -> ExitThreads \cup {"none"}]
    /\ exitInactive \in [Exits!Listeners -> BOOLEAN]
    /\ made \subseteq Exits!Listeners /\ mutex \in ExitThreads \cup {"none"}
    /\ thread \in [ExitThreads -> [pc : {"run", "subscribe", "gone"} \cup Exiting,
                                   at : Exits!Listeners \cup {Exits!None}, uses : SUBSET ExitQueues]]
    /\ queue \in [ExitQueues -> [pc : {"alive", "destroyed"} \cup Destroying,
                                 at : Exits!Listeners \cup {Exits!None}]]

(***************************************************************************)
(* A thread that ends has the mutex.                                       *)
(***************************************************************************)
MutexRight == \A t \in ExitThreads : thread[t].pc \in Exiting => mutex = t

(***************************************************************************)
(* A listener in a list belongs to a producer in use.  One about to be     *)
(* subscribed does too, it is in no list yet, and nobody else has it.      *)
(***************************************************************************)
ChainedInUse == \A l \in Exits!Listeners : chain[l] # "none" => l \in made /\ ~exitInactive[l]

Subscriber(t) == LET l == thread[t].at
                 IN  /\ l \in made /\ ~exitInactive[l] /\ chain[l] = "none" /\ queue[l[1]].pc = "alive"
                     /\ \A u \in ExitThreads : thread[u].pc = "subscribe" /\ thread[u].at = l => u = t
Subscribers == \A t \in ExitThreads : thread[t].pc = "subscribe" => Subscriber(t)

(***************************************************************************)
(* A queue has its first producers, of which it destroys the last; when it *)
(* is about to free one, that is in no list.                               *)
(***************************************************************************)
FirstOf(q, n) == {q} \X (1 .. n)
ProducersRight == \A q \in ExitQueues : \E n \in 0 .. PerQueue :
                     /\ Exits!Of(q) = FirstOf(q, n)
                     /\ queue[q].pc \in Destroying => n > 0 /\ queue[q].at = <<q, n>>
FreedRight == \A q \in ExitQueues : queue[q].pc = "free" => chain[queue[q].at] = "none"

(***************************************************************************)
(* A thread's list has no listener twice.  What is chained to the thread   *)
(* is in its list from some position on: from the first until it ends, and *)
(* from there on to which it has come afterwards.                          *)
(***************************************************************************)
OnceEach(s) == \A i, j \in 1 .. Len(s) : s[i] = s[j] => i = j
ChainFrom(t, s, k, c) == \A l \in Exits!Listeners : c[l] = t <=> \E j \in k .. Len(s) : s[j] = l
ListRight(t, s, r, c) ==
    /\ OnceEach(s)
    /\ r.pc \in {"run", "subscribe"} => ChainFrom(t, s, 1, c)
    /\ r.pc = "callback" => \E k \in 1 .. Len(s) : s[k] = r.at /\ ChainFrom(t, s, k, c)
    /\ r.pc = "next" => \E k \in 1 .. Len(s) : s[k] = r.at /\ ChainFrom(t, s, k + 1, c)
    /\ r.pc \in {"unlock", "gone"} => \A l \in Exits!Listeners : c[l] # t
ListsRight == \A t \in ExitThreads : ListRight(t, exitList[t], thread[t], chain)

ExitsInv == /\ ExitTypes /\ MutexRight /\ ChainedInUse /\ Subscribers /\ ProducersRight /\ FreedRight
            /\ ListsRight

(* Facts about the constants, and what a listener is.                      *)
LEMMA ExitConstants == "none" \notin ExitThreads /\ PerQueue \in Nat
  BY ListsAssumption DEF Exits!ExitAssumption

LEMMA ListenerIs == /\ \A l \in Exits!Listeners : l[1] \in ExitQueues /\ l[2] \in 1 .. PerQueue /\ l = <<l[1], l[2]>>
                    /\ \A q \in ExitQueues, i \in 1 .. PerQueue : <<q, i>> \in Exits!Listeners
  BY DEF Exits!Listeners

(* The first n producers of a queue are n.                                 *)
LEMMA FirstCount == ASSUME NEW q, NEW n \in Nat
                    PROVE  Exits!Cardinality(FirstOf(q, n)) = n
<1> DEFINE f == [i \in 1 .. n |-> <<q, i>>]
<1>1. f \in [1 .. n -> FirstOf(q, n)]
  BY DEF FirstOf
<1>2. \A i, j \in 1 .. n : f[i] = f[j] => i = j
  OBVIOUS
<1>3. \A x \in FirstOf(q, n) : \E i \in 1 .. n : f[i] = x
  BY DEF FirstOf
<1>4. ExistsBijection(1 .. n, FirstOf(q, n))
  <2> HIDE DEF f
  <2>1. f \in Bijection(1 .. n, FirstOf(q, n))
    BY <1>1, <1>2, <1>3 DEF Bijection, Injection, Surjection, IsInjective
  <2> QED
    BY <2>1 DEF ExistsBijection
<1>5. Cardinality(FirstOf(q, n)) = n
  BY <1>4, FS_CountingElements
<1> QED
  BY <1>5 DEF Exits!Cardinality, Cardinality

(* No two of the first n elements of r are the same.                       *)
NoTwo(n, r) == \A i, j \in 1 .. n : r[i] = r[j] => i = j

(* r is s without the kth of its n elements, no two of which are the same. *)
WithoutOne(n, k, s, r) == /\ NoTwo(n, s)
                          /\ \A j \in 1 .. n - 1 : r[j] = IF j < k THEN s[j] ELSE s[j + 1]
AllBut(n, k, s, r) == \A x : (\E j \in 1 .. n - 1 : r[j] = x) <=> (\E j \in 1 .. n : s[j] = x /\ j # k)

(* What is then in r, once each.                                           *)
LEMMA RemovedAt ==
    ASSUME NEW n \in Nat, NEW k \in 1 .. n, NEW s, NEW r,
           WithoutOne(n, k, s, r)
    PROVE  NoTwo(n - 1, r) /\ AllBut(n, k, s, r)
<1> USE DEF WithoutOne, NoTwo
<1>1. ASSUME NEW i \in 1 .. n - 1, NEW j \in 1 .. n - 1, r[i] = r[j]
      PROVE  i = j
  <2>1. i \in 1 .. n /\ i + 1 \in 1 .. n /\ j \in 1 .. n /\ j + 1 \in 1 .. n
    OBVIOUS
  <2>2. /\ r[i] = IF i < k THEN s[i] ELSE s[i + 1]
        /\ r[j] = IF j < k THEN s[j] ELSE s[j + 1]
    OBVIOUS
  <2>3. CASE i < k /\ j < k
    BY <1>1, <2>1, <2>2, <2>3
  <2>4. CASE ~(i < k) /\ ~(j < k)
    <3>1. s[i + 1] = s[j + 1]
      BY <1>1, <2>2, <2>4
    <3> QED
      BY <2>1, <3>1
  <2>5. CASE i < k /\ ~(j < k)
    <3>1. s[i] = s[j + 1]
      BY <1>1, <2>2, <2>5
    <3> QED
      BY <2>1, <2>5, <3>1
  <2>6. CASE ~(i < k) /\ j < k
    <3>1. s[i + 1] = s[j]
      BY <1>1, <2>2, <2>6
    <3> QED
      BY <2>1, <2>6, <3>1
  <2> QED
    BY <2>3, <2>4, <2>5, <2>6
<1>2. ASSUME NEW x, NEW j \in 1 .. n - 1, r[j] = x
      PROVE  \E i \in 1 .. n : s[i] = x /\ i # k
  <2>1. CASE j < k
    <3> WITNESS j \in 1 .. n
    <3> QED
      BY <1>2, <2>1
  <2>2. CASE ~(j < k)
    <3> WITNESS j + 1 \in 1 .. n
    <3> QED
      BY <1>2, <2>2
  <2> QED
    BY <2>1, <2>2
<1>3. ASSUME NEW x, NEW j \in 1 .. n, s[j] = x, j # k
      PROVE  \E i \in 1 .. n - 1 : r[i] = x
  <2>1. CASE j < k
    <3>1. j \in 1 .. n - 1
      BY <2>1
    <3>2. r[j] = x
      BY <1>3, <2>1, <3>1
    <3> QED
      BY <3>1, <3>2
  <2>2. CASE ~(j < k)
    <3>1. j - 1 \in 1 .. n - 1 /\ ~(j - 1 < k) /\ (j - 1) + 1 = j
      BY <1>3, <2>2
    <3>2. r[j - 1] = IF j - 1 < k THEN s[j - 1] ELSE s[(j - 1) + 1]
      BY <3>1
    <3>3. r[j - 1] = x
      BY <1>3, <3>1, <3>2
    <3> QED
      BY <3>1, <3>3
  <2> QED
    BY <2>1, <2>2
<1> QED
  BY <1>1, <1>2, <1>3 DEF AllBut

(* A sequence without its kth element.                                     *)
HasAllBut(r, s, k) ==
    \A x : (\E j \in 1 .. Len(r) : r[j] = x) <=> (\E j \in 1 .. Len(s) : s[j] = x /\ j # k)

(* It has the other elements, once each.                                   *)
LEMMA RemovedFrom ==
    ASSUME NEW S, NEW s \in Seq(S), OnceEach(s), NEW k \in 1 .. Len(s),
           NEW r, r = SubSeq(s, 1, k - 1) \o SubSeq(s, k + 1, Len(s))
    PROVE  r \in Seq(S) /\ OnceEach(r) /\ HasAllBut(r, s, k)
<1>1. PICK a : a = SubSeq(s, 1, k - 1)
  OBVIOUS
<1>2. PICK b : b = SubSeq(s, k + 1, Len(s))
  OBVIOUS
<1>0. Len(s) \in Nat /\ \A j \in 1 .. Len(s) : s[j] \in S
  BY LenProperties, ElementOfSeq
<1>3. /\ a \in Seq(S) /\ Len(a) = k - 1 /\ \A j \in 1 .. k - 1 : a[j] = s[j]
  BY <1>0, <1>1, SubSeqProperties
<1>4. /\ b \in Seq(S) /\ Len(b) = Len(s) - k /\ \A j \in 1 .. Len(s) - k : b[j] = s[k + j]
  BY <1>0, <1>2, SubSeqProperties
<1>5. /\ a \o b \in Seq(S) /\ Len(a \o b) = Len(a) + Len(b)
      /\ \A j \in 1 .. Len(a) + Len(b) : (a \o b)[j] = IF j <= Len(a) THEN a[j] ELSE b[j - Len(a)]
  BY <1>3, <1>4, ConcatProperties
<1>6. PICK n \in Nat : n = Len(s)
  BY <1>0
<1>7. /\ r \in Seq(S) /\ Len(r) = n - 1
      /\ \A j \in 1 .. n - 1 : r[j] = IF j <= k - 1 THEN a[j] ELSE b[j - (k - 1)]
  <2>1. Len(a) + Len(b) = n - 1
    BY <1>3, <1>4, <1>6
  <2> QED
    BY <1>1, <1>2, <1>3, <1>5, <2>1
<1>8. ASSUME NEW j \in 1 .. n - 1
      PROVE  r[j] = IF j < k THEN s[j] ELSE s[j + 1]
  <2>1. CASE j < k
    <3>1. j \in 1 .. k - 1 /\ j <= k - 1
      BY <1>6, <2>1
    <3>2. a[j] = s[j]
      BY <1>3, <3>1
    <3>3. r[j] = a[j]
      BY <1>7, <1>8, <3>1
    <3> QED
      BY <2>1, <3>2, <3>3
  <2>2. CASE ~(j < k)
    <3>1. j - (k - 1) \in 1 .. n - k /\ k + (j - (k - 1)) = j + 1 /\ ~(j <= k - 1)
      BY <1>6, <2>2
    <3>2. b[j - (k - 1)] = s[j + 1]
      BY <1>4, <1>6, <3>1
    <3>3. r[j] = b[j - (k - 1)]
      BY <1>7, <1>8, <3>1
    <3> QED
      BY <2>2, <3>2, <3>3
  <2> QED
    BY <2>1, <2>2
<1>9. k \in 1 .. n /\ NoTwo(n, s)
  BY <1>6 DEF OnceEach, NoTwo
<1>10. NoTwo(n - 1, r) /\ AllBut(n, k, s, r)
  <2>1. \A j \in 1 .. n - 1 : r[j] = IF j < k THEN s[j] ELSE s[j + 1]
    BY <1>8
  <2>2. WithoutOne(n, k, s, r)
    BY <1>9, <2>1 DEF WithoutOne
  <2> QED
    BY <1>9, <2>2, RemovedAt
<1> QED
  BY <1>6, <1>7, <1>10 DEF OnceEach, NoTwo, AllBut, HasAllBut

(* A thread's list stays right while the list does, and the place of the   *)
(* thread and what is chained to it do.                                    *)
LEMMA ExitListStays ==
    ASSUME NEW t, NEW s, NEW r, NEW w, NEW c, NEW d, ListRight(t, s, r, c),
           \A l \in Exits!Listeners : d[l] = t <=> c[l] = t,
           \/ w.pc = r.pc /\ w.at = r.at
           \/ w.pc \in {"run", "subscribe"} /\ r.pc \in {"run", "subscribe"}
    PROVE  ListRight(t, s, w, d)
<1>1. \A k : ChainFrom(t, s, k, c) => ChainFrom(t, s, k, d)
  BY DEF ChainFrom
<1> QED
  BY <1>1 DEF ListRight

(* What a step does not change stays right.                                *)
LEMMA QueuesStay ==
    ASSUME ProducersRight, UNCHANGED <<made, queue>>
    PROVE  ProducersRight'
  BY DEF ProducersRight, Exits!Of, FirstOf

(* What the types say of one thread and of one queue.                      *)
LEMMA ThreadTypes ==
    ASSUME ExitTypes, NEW t \in ExitThreads
    PROVE  /\ exitList[t] \in Seq(Exits!Listeners)
           /\ thread[t] \in [pc : {"run", "subscribe", "gone"} \cup Exiting,
                             at : Exits!Listeners \cup {Exits!None}, uses : SUBSET ExitQueues]
           /\ t # "none"
  BY ExitConstants DEF ExitTypes

(* The list of a thread does not depend on other threads.                  *)
LEMMA ListOthersStay ==
    ASSUME ExitTypes, ListsRight, NEW t \in ExitThreads, NEW u \in ExitThreads, u # t,
           \A l \in Exits!Listeners : chain'[l] = u <=> chain[l] = u,
           exitList'[u] = exitList[u], thread'[u] = thread[u]
    PROVE  ListRight(u, exitList[u], thread[u], chain)'
<1>1. ListRight(u, exitList[u], thread[u], chain)
  BY DEF ListsRight
<1>2. ListRight(u, exitList[u], thread'[u], chain')
  BY <1>1, ExitListStays
<1> QED
  BY <1>2

(* A thread that walks from position k on, where its chained listeners are.*)
LEMMA WalkRight ==
    ASSUME ExitTypes, NEW t \in ExitThreads, OnceEach(exitList[t]),
           NEW k \in 1 .. Len(exitList[t]) + 1, ChainFrom(t, exitList[t], k, chain),
           NEW w, w = Exits!Walk(t, k)
    PROVE  /\ w \in [pc : {"run", "subscribe", "gone"} \cup Exiting,
                     at : Exits!Listeners \cup {Exits!None}, uses : SUBSET ExitQueues]
           /\ w.pc \in {"callback", "unlock"}
           /\ ListRight(t, exitList[t], w, chain)
<1>1. PICK s : s = exitList[t]
  OBVIOUS
<1>2. s \in Seq(Exits!Listeners) /\ Len(s) \in Nat /\ \A j \in 1 .. Len(s) : s[j] \in Exits!Listeners
  BY <1>1, ThreadTypes, LenProperties, ElementOfSeq
<1>3. CASE k > Len(s)
  <2>1. w = [thread[t] EXCEPT !.pc = "unlock", !.at = Exits!None]
    BY <1>1, <1>3 DEF Exits!Walk
  <2>2. w.pc = "unlock" /\ w \in [pc : {"run", "subscribe", "gone"} \cup Exiting,
                                  at : Exits!Listeners \cup {Exits!None}, uses : SUBSET ExitQueues]
    BY <2>1, ThreadTypes DEF Exiting
  <2>3. \A l \in Exits!Listeners : chain[l] # t
    BY <1>1, <1>2, <1>3 DEF ChainFrom
  <2> QED
    BY <1>1, <2>2, <2>3 DEF ListRight
<1>4. CASE ~(k > Len(s))
  <2>1. w = [thread[t] EXCEPT !.pc = "callback", !.at = s[k]]
    BY <1>1, <1>4 DEF Exits!Walk
  <2>2. k \in 1 .. Len(s) /\ s[k] \in Exits!Listeners
    BY <1>1, <1>2, <1>4
  <2>3. w.pc = "callback" /\ w.at = s[k] /\ w \in [pc : {"run", "subscribe", "gone"} \cup Exiting,
                                  at : Exits!Listeners \cup {Exits!None}, uses : SUBSET ExitQueues]
    BY <2>1, <2>2, ThreadTypes DEF Exiting
  <2> QED
    BY <1>1, <2>2, <2>3 DEF ListRight
<1> QED
  BY <1>3, <1>4

(* Nothing changes if nothing of ThreadExit does.                          *)
LEMMA ExitsSame == ASSUME ExitsInv, UNCHANGED exitsVars
                   PROVE  ExitsInv'
<1>1. /\ exitList' = exitList /\ chain' = chain /\ exitInactive' = exitInactive /\ made' = made
      /\ mutex' = mutex /\ thread' = thread /\ queue' = queue
  BY DEF exitsVars
<1>2. ExitTypes' /\ MutexRight' /\ ChainedInUse' /\ FreedRight'
  BY <1>1 DEF ExitsInv, ExitTypes, MutexRight, ChainedInUse, FreedRight
<1>3. Subscribers'
  BY <1>1 DEF ExitsInv, Subscribers, Subscriber
<1>4. ProducersRight'
  BY <1>1, QueuesStay DEF ExitsInv
<1>5. ListsRight'
  BY <1>1 DEF ExitsInv, ListsRight
<1> QED
  BY <1>2, <1>3, <1>4, <1>5 DEF ExitsInv

(* A thread about to subscribe stays right if what it found stays so.      *)
StillFree(u) ==
    LET l == thread[u].at
    IN  /\ l \in made /\ ~exitInactive[l] /\ chain[l] = "none" /\ queue[l[1]].pc = "alive"

LEMMA SubscribersStay ==
    ASSUME Subscribers,
           \A u \in ExitThreads : thread'[u].pc = "subscribe" =>
              thread[u].pc = "subscribe" /\ thread'[u] = thread[u] /\ (StillFree(u) => StillFree(u)')
    PROVE  Subscribers'
<1> SUFFICES ASSUME NEW u \in ExitThreads, thread'[u].pc = "subscribe"
             PROVE  Subscriber(u)'
  BY DEF Subscribers
<1>1. Subscriber(u) /\ StillFree(u)
  BY DEF Subscribers, Subscriber, StillFree
<1>2. ASSUME NEW v \in ExitThreads, thread'[v].pc = "subscribe", thread'[v].at = thread'[u].at
      PROVE  v = u
  <2>1. thread[v].pc = "subscribe" /\ thread[v].at = thread[u].at
    BY <1>2
  <2> QED
    BY <1>1, <2>1 DEF Subscriber
<1>3. StillFree(u)'
  BY <1>1
<1> QED
  BY <1>2, <1>3 DEF Subscriber, StillFree

(* The producer that a queue destroys is one of its own.                   *)
LEMMA DestroyedIs ==
    ASSUME ProducersRight, NEW q \in ExitQueues, queue[q].pc \in Destroying
    PROVE  queue[q].at \in Exits!Listeners /\ queue[q].at[1] = q
<1>1. PICK n \in 0 .. PerQueue : n > 0 /\ queue[q].at = <<q, n>>
  BY DEF ProducersRight
<1> QED
  BY <1>1, ListenerIs, ExitConstants

(***************************************************************************)
(* One lemma for each action.                                              *)
(***************************************************************************)
(* An enqueue takes a producer nobody uses: a recycled one or a new one.   *)
LEMMA EnqueueRight ==
    ASSUME ExitsInv, NEW t \in ExitThreads, NEW q \in ExitQueues, NEW l \in Exits!Listeners,
           Exits!Enqueue(t, q, l)
    PROVE  ExitsInv'
<1>0. ExitTypes /\ MutexRight /\ ChainedInUse /\ Subscribers /\ ProducersRight /\ FreedRight /\ ListsRight
  BY DEF ExitsInv
<1>1. /\ thread[t].pc = "run" /\ queue[q].pc = "alive" /\ l[1] = q
      /\ made' = made \cup {l} /\ exitInactive' = [exitInactive EXCEPT ![l] = FALSE]
      /\ UNCHANGED <<exitList, chain, mutex, queue>>
  BY DEF Exits!Enqueue, Exits!At
<1>2. /\ thread' = [thread EXCEPT ![t] = thread'[t]]
      /\ thread'[t].pc = "subscribe" /\ thread'[t].at = l
      /\ thread'[t] \in [pc : {"run", "subscribe", "gone"} \cup Exiting,
                         at : Exits!Listeners \cup {Exits!None}, uses : SUBSET ExitQueues]
  <2>1. thread' = [thread EXCEPT ![t] = [pc |-> "subscribe", at |-> l, uses |-> thread[t].uses \cup {q}]]
    BY DEF Exits!Enqueue
  <2>2. thread'[t] = [pc |-> "subscribe", at |-> l, uses |-> thread[t].uses \cup {q}]
    BY <1>0, <2>1 DEF ExitTypes
  <2>3. thread[t].uses \cup {q} \in SUBSET ExitQueues
    BY <1>0, ThreadTypes
  <2>4. thread'[t].pc = "subscribe" /\ thread'[t].at = l
    BY <2>2
  <2>5. thread'[t] \in [pc : {"run", "subscribe", "gone"} \cup Exiting,
                        at : Exits!Listeners \cup {Exits!None}, uses : SUBSET ExitQueues]
    BY <2>2, <2>3
  <2>6. thread' = [thread EXCEPT ![t] = thread'[t]]
    BY <2>1, <2>2
  <2> QED
    BY <2>4, <2>5, <2>6
<1>3. PICK n \in 0 .. PerQueue : Exits!Of(q) = FirstOf(q, n)
  BY <1>0 DEF ProducersRight
<1>4. (l \in made /\ exitInactive[l]) \/ (l = <<q, n + 1>> /\ l \notin made /\ n + 1 \in 0 .. PerQueue)
  <2>1. CASE l \in made /\ exitInactive[l]
    BY <2>1
  <2>2. CASE l[2] = Exits!Cardinality(Exits!Of(q)) + 1
    <3>1. l[2] = n + 1
      BY <1>3, <2>2, FirstCount, ExitConstants
    <3>2. l = <<q, n + 1>> /\ n + 1 \in 0 .. PerQueue
      BY <1>1, <3>1, ListenerIs, ExitConstants
    <3>3. l \notin FirstOf(q, n)
      BY <3>2, ExitConstants DEF FirstOf
    <3> QED
      BY <1>1, <1>3, <3>2, <3>3 DEF Exits!Of
  <2> QED
    BY <2>1, <2>2 DEF Exits!Enqueue
<1>5. chain[l] = "none" /\ ~(l \in made /\ ~exitInactive[l])
  BY <1>0, <1>4 DEF ChainedInUse
<1>6. ExitTypes'
  BY <1>0, <1>1, <1>2 DEF ExitTypes
<1>7. \A u \in ExitThreads : u # t => thread'[u] = thread[u]
  BY <1>0, <1>2 DEF ExitTypes
<1>8. MutexRight'
  BY <1>0, <1>1, <1>2, <1>7 DEF MutexRight, Exiting
<1>9. /\ \A k \in Exits!Listeners : k # l => exitInactive'[k] = exitInactive[k]
      /\ ~exitInactive'[l]
  BY <1>0, <1>1 DEF ExitTypes
<1>10. ChainedInUse'
  BY <1>0, <1>1, <1>5, <1>9 DEF ChainedInUse
<1>11. Subscribers'
  <2> SUFFICES ASSUME NEW u \in ExitThreads, thread'[u].pc = "subscribe"
               PROVE  Subscriber(u)'
    BY DEF Subscribers
  <2>1. \A v \in ExitThreads : v # t /\ thread[v].pc = "subscribe" =>
           thread[v].at \in made /\ ~exitInactive[thread[v].at]
    BY <1>0 DEF Subscribers, Subscriber
  <2>2. \A v \in ExitThreads : v # t /\ thread[v].pc = "subscribe" => thread[v].at # l
    BY <1>5, <2>1
  <2>3. CASE u = t
    BY <1>1, <1>2, <1>5, <1>7, <1>9, <2>2, <2>3 DEF Subscriber
  <2>4. CASE u # t
    <3>1. Subscriber(u) /\ thread[u].pc = "subscribe" /\ thread[u].at \in Exits!Listeners
      BY <1>0, <1>7, <2>4 DEF Subscribers, ExitTypes, Subscriber
    <3> QED
      BY <1>1, <1>2, <1>7, <1>9, <2>2, <2>4, <3>1 DEF Subscriber
  <2> QED
    BY <2>3, <2>4
<1>12. ProducersRight'
  <2> SUFFICES ASSUME NEW p \in ExitQueues
               PROVE  \E m \in 0 .. PerQueue : /\ Exits!Of(p)' = FirstOf(p, m)
                                               /\ queue'[p].pc \in Destroying => m > 0 /\ queue'[p].at = <<p, m>>
    BY DEF ProducersRight, FirstOf
  <2>1. CASE p # q
    <3>1. Exits!Of(p)' = Exits!Of(p)
      BY <1>1, <2>1 DEF Exits!Of
    <3> QED
      BY <1>0, <1>1, <3>1 DEF ProducersRight
  <2>2. CASE p = q /\ l \in made
    <3>1. Exits!Of(q)' = Exits!Of(q)
      BY <1>1, <2>2 DEF Exits!Of
    <3> QED
      BY <1>0, <1>1, <2>2, <3>1 DEF ProducersRight
  <2>3. CASE p = q /\ l \notin made
    <3>1. Exits!Of(q)' = Exits!Of(q) \cup {l}
      BY <1>1 DEF Exits!Of
    <3>2. FirstOf(q, n) \cup {l} = FirstOf(q, n + 1)
      BY <1>4, <2>3, ExitConstants DEF FirstOf
    <3> QED
      BY <1>1, <1>3, <1>4, <2>3, <3>1, <3>2 DEF Destroying
  <2> QED
    BY <2>1, <2>2, <2>3
<1>13. FreedRight'
  BY <1>0, <1>1 DEF FreedRight
<1>14. ListsRight'
  <2> SUFFICES ASSUME NEW u \in ExitThreads
               PROVE  ListRight(u, exitList'[u], thread'[u], chain')
    BY DEF ListsRight
  <2>1. ListRight(u, exitList[u], thread[u], chain)
    BY <1>0 DEF ListsRight
  <2>2. \/ thread'[u].pc = thread[u].pc /\ thread'[u].at = thread[u].at
        \/ thread'[u].pc \in {"run", "subscribe"} /\ thread[u].pc \in {"run", "subscribe"}
    BY <1>1, <1>2, <1>7
  <2> QED
    BY <1>1, <2>1, <2>2, ExitListStays
<1> QED
  BY <1>6, <1>8, <1>10, <1>11, <1>12, <1>13, <1>14 DEF ExitsInv

(* A new first element.                                                    *)
LEMMA Prepended ==
    ASSUME NEW t, NEW c \in [Exits!Listeners -> ExitThreads \cup {"none"}], NEW l \in Exits!Listeners,
           NEW s \in Seq(Exits!Listeners), OnceEach(s), ChainFrom(t, s, 1, c), c[l] # t,
           NEW r, r = <<l>> \o s, NEW d, d = [c EXCEPT ![l] = t]
    PROVE  r \in Seq(Exits!Listeners) /\ OnceEach(r) /\ ChainFrom(t, r, 1, d)
<1>0. /\ Len(s) \in Nat /\ \A j \in 1 .. Len(s) : s[j] \in Exits!Listeners
      /\ <<l>> \in Seq(Exits!Listeners) /\ Len(<<l>>) = 1 /\ <<l>>[1] = l
  BY LenProperties, ElementOfSeq
<1>1. PICK n \in Nat : n = Len(s)
  BY <1>0
<1>2. /\ r \in Seq(Exits!Listeners) /\ Len(r) = n + 1 /\ r[1] = l
      /\ \A j \in 2 .. n + 1 : r[j] = s[j - 1]
  <2>1. /\ r \in Seq(Exits!Listeners) /\ Len(r) = 1 + n
        /\ \A j \in 1 .. 1 + n : r[j] = IF j <= 1 THEN <<l>>[j] ELSE s[j - 1]
    BY <1>0, <1>1, ConcatProperties
  <2> QED
    BY <1>0, <1>1, <2>1
<1>3. \A j \in 1 .. n : s[j] # l /\ r[j + 1] = s[j] /\ j + 1 \in 2 .. n + 1
  BY <1>0, <1>1, <1>2 DEF ChainFrom
<1>4. OnceEach(r)
  <2> SUFFICES ASSUME NEW i \in 1 .. n + 1, NEW j \in 1 .. n + 1, r[i] = r[j]
               PROVE  i = j
    BY <1>2 DEF OnceEach
  <2>1. CASE i = 1 \/ j = 1
    <3>1. \A k \in 2 .. n + 1 : k - 1 \in 1 .. n /\ r[k] # l
      BY <1>1, <1>2, <1>3
    <3> QED
      BY <1>2, <2>1, <3>1
  <2>2. CASE i # 1 /\ j # 1
    <3>1. /\ i \in 2 .. n + 1 /\ j \in 2 .. n + 1 /\ i - 1 \in 1 .. n /\ j - 1 \in 1 .. n
      BY <2>2
    <3>2. s[i - 1] = s[j - 1]
      BY <1>2, <3>1
    <3>3. i - 1 = j - 1
      BY <1>1, <3>1, <3>2 DEF OnceEach
    <3> QED
      BY <3>1, <3>3
  <2> QED
    BY <2>1, <2>2
<1>5. ASSUME NEW x \in Exits!Listeners
      PROVE  d[x] = t <=> \E j \in 1 .. n + 1 : r[j] = x
  <2>1. CASE x = l
    <3>1. d[x] = t /\ 1 \in 1 .. n + 1 /\ r[1] = x
      BY <1>2, <2>1
    <3> QED
      BY <3>1
  <2>2. CASE x # l
    <3>1. d[x] = t <=> \E j \in 1 .. n : s[j] = x
      BY <1>1, <2>2 DEF ChainFrom
    <3>2. ASSUME NEW j \in 1 .. n, s[j] = x PROVE \E k \in 1 .. n + 1 : r[k] = x
      <4>1. j + 1 \in 1 .. n + 1
        OBVIOUS
      <4>2. r[j + 1] = x
        BY <1>3, <3>2
      <4> QED
        BY <4>1, <4>2
    <3>3. ASSUME NEW j \in 1 .. n + 1, r[j] = x PROVE \E k \in 1 .. n : s[k] = x
      <4>1. j \in 2 .. n + 1 /\ j - 1 \in 1 .. n
        BY <1>2, <2>2, <3>3
      <4> QED
        BY <1>2, <3>3, <4>1
    <3> QED
      BY <3>1, <3>2, <3>3
  <2> QED
    BY <2>1, <2>2
<1> QED
  BY <1>2, <1>4, <1>5 DEF ChainFrom

(* subscribe(): the listener is in no list yet, and no thread is ending.   *)
LEMMA SubscribeRight ==
    ASSUME ExitsInv, NEW t \in ExitThreads, Exits!Subscribe(t)
    PROVE  ExitsInv'
<1>0. ExitTypes /\ MutexRight /\ ChainedInUse /\ Subscribers /\ ProducersRight /\ FreedRight /\ ListsRight
  BY DEF ExitsInv
<1>1. PICK l : l = thread[t].at
  OBVIOUS
<1>2. /\ thread[t].pc = "subscribe" /\ mutex = "none"
      /\ exitList' = [exitList EXCEPT ![t] = <<l>> \o exitList[t]]
      /\ chain' = [chain EXCEPT ![l] = t]
      /\ thread' = [thread EXCEPT ![t].pc = "run", ![t].at = Exits!None]
      /\ UNCHANGED <<exitInactive, made, mutex, queue>>
  BY <1>1 DEF Exits!Subscribe, Exits!At
<1>3. /\ l \in made /\ l \in Exits!Listeners /\ ~exitInactive[l] /\ chain[l] = "none"
      /\ queue[l[1]].pc = "alive"
      /\ \A u \in ExitThreads : thread[u].pc = "subscribe" /\ thread[u].at = l => u = t
  BY <1>0, <1>1, <1>2 DEF Subscribers, Subscriber, ExitTypes
<1>4. /\ thread'[t].pc = "run"
      /\ thread'[t] \in [pc : {"run", "subscribe", "gone"} \cup Exiting,
                         at : Exits!Listeners \cup {Exits!None}, uses : SUBSET ExitQueues]
      /\ thread' = [thread EXCEPT ![t] = thread'[t]]
  <2>1. thread' = [thread EXCEPT ![t] = [[thread[t] EXCEPT !.pc = "run"] EXCEPT !.at = Exits!None]]
    BY <1>0, <1>2 DEF ExitTypes
  <2>2. thread'[t] = [[thread[t] EXCEPT !.pc = "run"] EXCEPT !.at = Exits!None]
    BY <1>0, <2>1 DEF ExitTypes
  <2>3. /\ thread'[t].pc = "run"
        /\ thread'[t] \in [pc : {"run", "subscribe", "gone"} \cup Exiting,
                           at : Exits!Listeners \cup {Exits!None}, uses : SUBSET ExitQueues]
    BY <1>0, <2>2, ThreadTypes
  <2> QED
    BY <2>1, <2>2, <2>3
<1>5. \A u \in ExitThreads : u # t => thread'[u] = thread[u] /\ exitList'[u] = exitList[u]
  BY <1>0, <1>2, <1>4 DEF ExitTypes
<1>6. /\ chain' \in [Exits!Listeners -> ExitThreads \cup {"none"}] /\ chain'[l] = t
      /\ \A k \in Exits!Listeners : k # l => chain'[k] = chain[k]
  BY <1>0, <1>2, <1>3 DEF ExitTypes
<1>7. ListRight(t, exitList[t], thread[t], chain)
  BY <1>0 DEF ListsRight
<1>8. exitList'[t] \in Seq(Exits!Listeners) /\ OnceEach(exitList'[t]) /\ ChainFrom(t, exitList'[t], 1, chain')
  <2>1. OnceEach(exitList[t]) /\ ChainFrom(t, exitList[t], 1, chain) /\ chain[l] # t
    BY <1>0, <1>2, <1>3, <1>7, ThreadTypes DEF ListRight
  <2>2. exitList'[t] = <<l>> \o exitList[t]
    BY <1>0, <1>2 DEF ExitTypes
  <2>3. exitList[t] \in Seq(Exits!Listeners) /\ chain \in [Exits!Listeners -> ExitThreads \cup {"none"}]
    BY <1>0 DEF ExitTypes
  <2>4. PICK s : s = exitList[t]
    OBVIOUS
  <2>5. PICK c : c = chain
    OBVIOUS
  <2>6. PICK r : r = exitList'[t]
    OBVIOUS
  <2>7. PICK d : d = chain'
    OBVIOUS
  <2>8. r \in Seq(Exits!Listeners) /\ OnceEach(r) /\ ChainFrom(t, r, 1, d)
    <3>1. /\ c \in [Exits!Listeners -> ExitThreads \cup {"none"}] /\ s \in Seq(Exits!Listeners)
          /\ OnceEach(s) /\ ChainFrom(t, s, 1, c) /\ c[l] # t
      BY <2>1, <2>3, <2>4, <2>5
    <3>2. r = <<l>> \o s /\ d = [c EXCEPT ![l] = t]
      BY <1>2, <2>2, <2>4, <2>5, <2>6, <2>7
    <3> QED
      BY <1>3, <3>1, <3>2, Prepended
  <2> QED
    BY <2>6, <2>7, <2>8
<1>9. ExitTypes'
  <2>1. exitList' \in [ExitThreads -> Seq(Exits!Listeners)]
    BY <1>0, <1>2, <1>8 DEF ExitTypes
  <2>2. thread' \in [ExitThreads -> [pc : {"run", "subscribe", "gone"} \cup Exiting,
                         at : Exits!Listeners \cup {Exits!None}, uses : SUBSET ExitQueues]]
    BY <1>0, <1>4 DEF ExitTypes
  <2> QED
    BY <1>0, <1>2, <1>6, <2>1, <2>2 DEF ExitTypes
<1>10. MutexRight'
  BY <1>0, <1>2, <1>4, <1>5 DEF MutexRight, Exiting
<1>11. ChainedInUse'
  BY <1>0, <1>2, <1>3, <1>6 DEF ChainedInUse
<1>12. Subscribers'
  <2> SUFFICES ASSUME NEW u \in ExitThreads, thread'[u].pc = "subscribe"
               PROVE  /\ thread[u].pc = "subscribe" /\ thread'[u] = thread[u]
                      /\ StillFree(u) => StillFree(u)'
    BY <1>0, SubscribersStay
  <2>1. u # t /\ thread'[u] = thread[u] /\ thread[u].pc = "subscribe"
    BY <1>4, <1>5
  <2>2. thread[u].at # l /\ (StillFree(u) => thread[u].at \in Exits!Listeners)
    BY <1>0, <1>3, <2>1 DEF StillFree, ExitTypes
  <2> QED
    BY <1>2, <1>6, <2>1, <2>2 DEF StillFree
<1>13. ProducersRight'
  BY <1>0, <1>2, QueuesStay
<1>14. FreedRight'
  <2> SUFFICES ASSUME NEW q \in ExitQueues, queue[q].pc = "free"
               PROVE  chain'[queue[q].at] = "none"
    BY <1>2 DEF FreedRight
  <2>1. queue[q].at \in Exits!Listeners /\ queue[q].at[1] = q
    BY <1>0, DestroyedIs DEF Destroying
  <2> QED
    BY <1>0, <1>3, <1>6, <2>1 DEF FreedRight
<1>15. ListsRight'
  <2> SUFFICES ASSUME NEW u \in ExitThreads
               PROVE  ListRight(u, exitList'[u], thread'[u], chain')
    BY DEF ListsRight
  <2>1. CASE u = t
    BY <1>4, <1>8, <2>1 DEF ListRight
  <2>2. CASE u # t
    <3>1. \A k \in Exits!Listeners : chain'[k] = u <=> chain[k] = u
      BY <1>0, <1>3, <1>6, <2>2, ThreadTypes
    <3> QED
      BY <1>0, <1>5, <2>2, <3>1, ListOthersStay
  <2> QED
    BY <2>1, <2>2
<1> QED
  BY <1>9, <1>10, <1>11, <1>12, <1>13, <1>14, <1>15 DEF ExitsInv

(* A thread begins to end: it walks its list from the first position on.   *)
LEMMA ExitRight ==
    ASSUME ExitsInv, NEW t \in ExitThreads, Exits!Exit(t)
    PROVE  ExitsInv'
<1>0. ExitTypes /\ MutexRight /\ ChainedInUse /\ Subscribers /\ ProducersRight /\ FreedRight /\ ListsRight
  BY DEF ExitsInv
<1>1. /\ thread[t].pc = "run" /\ mutex = "none" /\ mutex' = t
      /\ thread' = [thread EXCEPT ![t] = Exits!Walk(t, 1)]
      /\ UNCHANGED <<exitList, chain, exitInactive, made, queue>>
  BY DEF Exits!Exit, Exits!At
<1>2. PICK w : w = Exits!Walk(t, 1)
  OBVIOUS
<1>3. /\ w \in [pc : {"run", "subscribe", "gone"} \cup Exiting,
                at : Exits!Listeners \cup {Exits!None}, uses : SUBSET ExitQueues]
      /\ w.pc \in {"callback", "unlock"}
      /\ ListRight(t, exitList[t], w, chain)
  <2>1. OnceEach(exitList[t]) /\ ChainFrom(t, exitList[t], 1, chain)
    BY <1>0, <1>1 DEF ListsRight, ListRight
  <2>2. 1 \in 1 .. Len(exitList[t]) + 1
    BY <1>0, ThreadTypes, LenProperties
  <2> QED
    BY <1>0, <1>2, <2>1, <2>2, WalkRight
<1>4. thread' = [thread EXCEPT ![t] = w] /\ thread'[t] = w /\ \A u \in ExitThreads : u # t => thread'[u] = thread[u]
  BY <1>0, <1>1, <1>2 DEF ExitTypes
<1>5. ExitTypes'
  BY <1>0, <1>1, <1>3, <1>4 DEF ExitTypes
<1>6. MutexRight'
  BY <1>0, <1>1, <1>4, ThreadTypes DEF MutexRight
<1>7. ChainedInUse' /\ FreedRight'
  BY <1>0, <1>1 DEF ChainedInUse, FreedRight
<1>8. Subscribers'
  BY <1>0, <1>1, <1>3, <1>4 DEF Subscribers, Subscriber
<1>9. ProducersRight'
  BY <1>0, <1>1, QueuesStay
<1>10. ListsRight'
  <2> SUFFICES ASSUME NEW u \in ExitThreads
               PROVE  ListRight(u, exitList'[u], thread'[u], chain')
    BY DEF ListsRight
  <2> QED
    BY <1>0, <1>1, <1>3, <1>4, ListOthersStay
<1> QED
  BY <1>5, <1>6, <1>7, <1>8, <1>9, <1>10 DEF ExitsInv

(* A callback: the thread's first chained listener is chained no more.     *)
LEMMA CallbackRight ==
    ASSUME ExitsInv, NEW t \in ExitThreads, Exits!Callback(t)
    PROVE  ExitsInv'
<1>0. ExitTypes /\ MutexRight /\ ChainedInUse /\ Subscribers /\ ProducersRight /\ FreedRight /\ ListsRight
  BY DEF ExitsInv
<1>1. PICK l : l = thread[t].at
  OBVIOUS
<1>2. /\ thread[t].pc = "callback"
      /\ chain' = [chain EXCEPT ![l] = "none"] /\ exitInactive' = [exitInactive EXCEPT ![l] = TRUE]
      /\ thread' = [thread EXCEPT ![t].pc = "next"]
      /\ UNCHANGED <<exitList, made, mutex, queue>>
  BY <1>1 DEF Exits!Callback, Exits!At
<1>3. PICK s : s = exitList[t]
  OBVIOUS
<1>4. /\ s \in Seq(Exits!Listeners) /\ Len(s) \in Nat /\ OnceEach(s)
      /\ \A j \in 1 .. Len(s) : s[j] \in Exits!Listeners
  BY <1>0, <1>3, ThreadTypes, LenProperties, ElementOfSeq DEF ListsRight, ListRight
<1>5. PICK k \in 1 .. Len(s) : s[k] = l /\ ChainFrom(t, s, k, chain)
  BY <1>0, <1>1, <1>2, <1>3 DEF ListsRight, ListRight
<1>6. l \in Exits!Listeners /\ chain[l] = t /\ l \in made
  <2>1. l \in Exits!Listeners /\ k \in k .. Len(s)
    BY <1>4, <1>5
  <2>2. chain[l] = t
    BY <1>5, <2>1 DEF ChainFrom
  <2> QED
    BY <1>0, <2>1, <2>2, ThreadTypes DEF ChainedInUse
<1>7. /\ thread'[t] = [thread[t] EXCEPT !.pc = "next"] /\ thread'[t].pc = "next" /\ thread'[t].at = l
      /\ thread'[t] \in [pc : {"run", "subscribe", "gone"} \cup Exiting,
                         at : Exits!Listeners \cup {Exits!None}, uses : SUBSET ExitQueues]
      /\ \A u \in ExitThreads : u # t => thread'[u] = thread[u]
      /\ thread' = [thread EXCEPT ![t] = thread'[t]]
  <2>1. thread'[t] = [thread[t] EXCEPT !.pc = "next"] /\ thread' = [thread EXCEPT ![t] = thread'[t]]
    BY <1>0, <1>2 DEF ExitTypes
  <2>2. /\ thread'[t].pc = "next" /\ thread'[t].at = l
        /\ thread'[t] \in [pc : {"run", "subscribe", "gone"} \cup Exiting,
                           at : Exits!Listeners \cup {Exits!None}, uses : SUBSET ExitQueues]
    BY <1>0, <1>1, <2>1, ThreadTypes DEF Exiting
  <2>3. \A u \in ExitThreads : u # t => thread'[u] = thread[u]
    BY <1>0, <2>1 DEF ExitTypes
  <2> QED
    BY <2>1, <2>2, <2>3
<1>8. /\ chain'[l] = "none" /\ exitInactive'[l]
      /\ \A x \in Exits!Listeners : x # l => chain'[x] = chain[x] /\ exitInactive'[x] = exitInactive[x]
  BY <1>0, <1>2, <1>6 DEF ExitTypes
<1>9. ExitTypes'
  BY <1>0, <1>2, <1>7 DEF ExitTypes
<1>10. MutexRight'
  BY <1>0, <1>2, <1>7 DEF MutexRight, Exiting
<1>11. ChainedInUse'
  BY <1>0, <1>2, <1>8 DEF ChainedInUse
<1>12. Subscribers'
  <2> SUFFICES ASSUME NEW u \in ExitThreads, thread'[u].pc = "subscribe"
               PROVE  /\ thread[u].pc = "subscribe" /\ thread'[u] = thread[u]
                      /\ StillFree(u) => StillFree(u)'
    BY <1>0, SubscribersStay
  <2>1. u # t /\ thread'[u] = thread[u] /\ thread[u].pc = "subscribe"
    BY <1>7
  <2>2. StillFree(u) => thread[u].at # l /\ thread[u].at \in Exits!Listeners
    BY <1>0, <1>6, ThreadTypes DEF StillFree, ExitTypes
  <2> QED
    BY <1>2, <1>8, <2>1, <2>2 DEF StillFree
<1>13. ProducersRight'
  BY <1>0, <1>2, QueuesStay
<1>14. FreedRight'
  <2> SUFFICES ASSUME NEW q \in ExitQueues, queue[q].pc = "free"
               PROVE  chain'[queue[q].at] = "none"
    BY <1>2 DEF FreedRight
  <2>1. queue[q].at \in Exits!Listeners /\ queue[q].at[1] = q
    BY <1>0, DestroyedIs DEF Destroying
  <2> QED
    BY <1>0, <1>8, <2>1 DEF FreedRight
<1>15. ChainFrom(t, s, k + 1, chain')
  <2> SUFFICES ASSUME NEW x \in Exits!Listeners
               PROVE  chain'[x] = t <=> \E j \in k + 1 .. Len(s) : s[j] = x
    BY DEF ChainFrom
  <2>1. CASE x = l
    <3>1. chain'[x] # t
      BY <1>0, <1>8, <2>1, ThreadTypes
    <3>2. \A j \in k + 1 .. Len(s) : s[j] # x
      BY <1>4, <1>5, <2>1 DEF OnceEach
    <3> QED
      BY <3>1, <3>2
  <2>2. CASE x # l
    <3>1. chain'[x] = t <=> \E j \in k .. Len(s) : s[j] = x
      BY <1>5, <1>8, <2>2 DEF ChainFrom
    <3>2. \A j : j \in k .. Len(s) <=> j = k \/ j \in k + 1 .. Len(s)
      BY <1>4
    <3> QED
      BY <1>5, <2>2, <3>1, <3>2
  <2> QED
    BY <2>1, <2>2
<1>16. ListsRight'
  <2> SUFFICES ASSUME NEW u \in ExitThreads
               PROVE  ListRight(u, exitList'[u], thread'[u], chain')
    BY DEF ListsRight
  <2>1. CASE u = t
    <3>1. \E i \in 1 .. Len(s) : s[i] = thread'[t].at /\ ChainFrom(t, s, i + 1, chain')
      BY <1>5, <1>7, <1>15
    <3> QED
      BY <1>2, <1>3, <1>4, <1>7, <2>1, <3>1 DEF ListRight
  <2>2. CASE u # t
    <3>1. \A x \in Exits!Listeners : chain'[x] = u <=> chain[x] = u
      BY <1>0, <1>6, <1>8, <2>2, ThreadTypes
    <3> QED
      BY <1>0, <1>2, <1>7, <2>2, <3>1, ListOthersStay
  <2> QED
    BY <2>1, <2>2
<1> QED
  BY <1>9, <1>10, <1>11, <1>12, <1>13, <1>14, <1>16 DEF ExitsInv

(* A read of next_: the walk goes on behind the listener, if it is alive.  *)
LEMMA ReadNextRight ==
    ASSUME ExitsInv, NEW t \in ExitThreads, Exits!ReadNext(t)
    PROVE  ExitsInv'
<1>0. ExitTypes /\ MutexRight /\ ChainedInUse /\ Subscribers /\ ProducersRight /\ FreedRight /\ ListsRight
  BY DEF ExitsInv
<1>1. PICK l : l = thread[t].at
  OBVIOUS
<1>2. /\ thread[t].pc = "next" /\ UNCHANGED <<exitList, chain, exitInactive, made, mutex, queue>>
      /\ thread' = [thread EXCEPT ![t] = IF l \in made THEN Exits!Walk(t, Exits!Index(t, l) + 1)
                                         ELSE [thread[t] EXCEPT !.pc = "undefined"]]
  BY <1>1 DEF Exits!ReadNext, Exits!At
<1>3. PICK s : s = exitList[t]
  OBVIOUS
<1>4. s \in Seq(Exits!Listeners) /\ Len(s) \in Nat /\ DOMAIN s = 1 .. Len(s) /\ OnceEach(s)
  BY <1>0, <1>3, ThreadTypes, LenProperties DEF ListsRight, ListRight
<1>5. PICK k \in 1 .. Len(s) : s[k] = l /\ ChainFrom(t, s, k + 1, chain)
  BY <1>0, <1>1, <1>2, <1>3 DEF ListsRight, ListRight
<1>6. Exits!Index(t, l) = k
  BY <1>3, <1>4, <1>5 DEF Exits!Index, OnceEach
<1>7. PICK w : w = IF l \in made THEN Exits!Walk(t, k + 1) ELSE [thread[t] EXCEPT !.pc = "undefined"]
  OBVIOUS
<1>8. /\ w \in [pc : {"run", "subscribe", "gone"} \cup Exiting,
                at : Exits!Listeners \cup {Exits!None}, uses : SUBSET ExitQueues]
      /\ w.pc \in {"callback", "unlock", "undefined"}
      /\ ListRight(t, s, w, chain)
  <2>1. CASE l \in made
    <3>1. k + 1 \in 1 .. Len(s) + 1
      BY <1>4
    <3>2. w = Exits!Walk(t, k + 1)
      BY <1>7, <2>1
    <3> QED
      BY <1>0, <1>3, <1>4, <1>5, <3>1, <3>2, WalkRight
  <2>2. CASE l \notin made
    <3>1. w = [thread[t] EXCEPT !.pc = "undefined"]
      BY <1>7, <2>2
    <3>2. /\ w \in [pc : {"run", "subscribe", "gone"} \cup Exiting,
                    at : Exits!Listeners \cup {Exits!None}, uses : SUBSET ExitQueues]
          /\ w.pc = "undefined"
      BY <1>0, <3>1, ThreadTypes DEF Exiting
    <3> QED
      BY <1>4, <3>2 DEF ListRight
  <2> QED
    BY <2>1, <2>2
<1>9. thread' = [thread EXCEPT ![t] = w] /\ thread'[t] = w /\ \A u \in ExitThreads : u # t => thread'[u] = thread[u]
  BY <1>0, <1>2, <1>6, <1>7 DEF ExitTypes
<1>10. ExitTypes'
  BY <1>0, <1>2, <1>8, <1>9 DEF ExitTypes
<1>11. MutexRight'
  BY <1>0, <1>2, <1>9 DEF MutexRight, Exiting
<1>12. ChainedInUse' /\ FreedRight'
  BY <1>0, <1>2 DEF ChainedInUse, FreedRight
<1>13. Subscribers'
  BY <1>0, <1>2, <1>8, <1>9, SubscribersStay DEF StillFree
<1>14. ProducersRight'
  BY <1>0, <1>2, QueuesStay
<1>15. ListsRight'
  <2> SUFFICES ASSUME NEW u \in ExitThreads
               PROVE  ListRight(u, exitList'[u], thread'[u], chain')
    BY DEF ListsRight
  <2> QED
    BY <1>0, <1>2, <1>3, <1>8, <1>9, ListOthersStay
<1> QED
  BY <1>10, <1>11, <1>12, <1>13, <1>14, <1>15 DEF ExitsInv

(* The end of a thread: nothing is chained to it any more.                 *)
LEMMA GoneRight ==
    ASSUME ExitsInv, NEW t \in ExitThreads, Exits!Gone(t)
    PROVE  ExitsInv'
<1>0. ExitTypes /\ MutexRight /\ ChainedInUse /\ Subscribers /\ ProducersRight /\ FreedRight /\ ListsRight
  BY DEF ExitsInv
<1>1. /\ thread[t].pc = "unlock" /\ mutex' = (IF mutex = t THEN "none" ELSE mutex)
      /\ thread' = [thread EXCEPT ![t].pc = "gone"] /\ exitList' = [exitList EXCEPT ![t] = <<>>]
      /\ UNCHANGED <<chain, exitInactive, made, queue>>
  BY DEF Exits!Gone, Exits!At
<1>2. mutex = t /\ mutex' = "none"
  BY <1>0, <1>1 DEF MutexRight, Exiting
<1>3. /\ thread'[t].pc = "gone"
      /\ thread'[t] \in [pc : {"run", "subscribe", "gone"} \cup Exiting,
                         at : Exits!Listeners \cup {Exits!None}, uses : SUBSET ExitQueues]
      /\ \A u \in ExitThreads : u # t => thread'[u] = thread[u]
      /\ thread' = [thread EXCEPT ![t] = thread'[t]]
  <2>1. thread'[t] = [thread[t] EXCEPT !.pc = "gone"] /\ thread' = [thread EXCEPT ![t] = thread'[t]]
    BY <1>0, <1>1 DEF ExitTypes
  <2>2. /\ thread'[t].pc = "gone"
        /\ thread'[t] \in [pc : {"run", "subscribe", "gone"} \cup Exiting,
                           at : Exits!Listeners \cup {Exits!None}, uses : SUBSET ExitQueues]
    BY <1>0, <2>1, ThreadTypes
  <2>3. \A u \in ExitThreads : u # t => thread'[u] = thread[u]
    BY <1>0, <2>1 DEF ExitTypes
  <2> QED
    BY <2>1, <2>2, <2>3
<1>4. <<>> \in Seq(Exits!Listeners) /\ Len(<<>>) = 0 /\ OnceEach(<<>>)
  BY EmptySeq DEF OnceEach
<1>5. exitList'[t] = <<>> /\ \A u \in ExitThreads : u # t => exitList'[u] = exitList[u]
  BY <1>0, <1>1 DEF ExitTypes
<1>6. ExitTypes'
  <2>1. exitList' \in [ExitThreads -> Seq(Exits!Listeners)]
    BY <1>0, <1>1, <1>4 DEF ExitTypes
  <2>2. thread' \in [ExitThreads -> [pc : {"run", "subscribe", "gone"} \cup Exiting,
                         at : Exits!Listeners \cup {Exits!None}, uses : SUBSET ExitQueues]]
    BY <1>0, <1>3 DEF ExitTypes
  <2> QED
    BY <1>0, <1>1, <1>2, <2>1, <2>2 DEF ExitTypes
<1>7. MutexRight'
  BY <1>0, <1>2, <1>3 DEF MutexRight, Exiting
<1>8. ChainedInUse' /\ FreedRight'
  BY <1>0, <1>1 DEF ChainedInUse, FreedRight
<1>9. Subscribers'
  BY <1>0, <1>1, <1>3, SubscribersStay DEF StillFree
<1>10. ProducersRight'
  BY <1>0, <1>1, QueuesStay
<1>11. ListsRight'
  <2> SUFFICES ASSUME NEW u \in ExitThreads
               PROVE  ListRight(u, exitList'[u], thread'[u], chain')
    BY DEF ListsRight
  <2>1. CASE u = t
    <3>1. \A l \in Exits!Listeners : chain[l] # t
      BY <1>0, <1>1 DEF ListsRight, ListRight
    <3> QED
      BY <1>1, <1>3, <1>4, <1>5, <2>1, <3>1 DEF ListRight
  <2>2. CASE u # t
    BY <1>0, <1>1, <1>3, <1>5, <2>2, ListOthersStay
  <2> QED
    BY <2>1, <2>2
<1> QED
  BY <1>6, <1>7, <1>8, <1>9, <1>10, <1>11 DEF ExitsInv

(* Where the lists, the threads and what is chained stay, so do the lists. *)
LEMMA ListsStay == ASSUME ListsRight, UNCHANGED <<exitList, chain, thread>>
                   PROVE  ListsRight'
  BY DEF ListsRight

(* A queue is destroyed from its last producer on.                         *)
LEMMA DestroyRight ==
    ASSUME ExitsInv, NEW q \in ExitQueues, Exits!Destroy(q)
    PROVE  ExitsInv'
<1>0. ExitTypes /\ MutexRight /\ ChainedInUse /\ Subscribers /\ ProducersRight /\ FreedRight /\ ListsRight
  BY DEF ExitsInv
<1>1. /\ queue' = [queue EXCEPT ![q] = Exits!Pick(q)]
      /\ \A t \in ExitThreads : ~(thread[t].pc = "subscribe" /\ thread[t].at[1] = q)
      /\ UNCHANGED <<exitList, chain, exitInactive, made, mutex, thread>>
  BY DEF Exits!Destroy, Exits!At
<1>2. PICK n \in 0 .. PerQueue : Exits!Of(q) = FirstOf(q, n)
  BY <1>0 DEF ProducersRight
<1>3. PICK w : w = Exits!Pick(q)
  OBVIOUS
<1>4. \/ w.pc = "destroyed" /\ w = [pc |-> "destroyed", at |-> Exits!None]
      \/ n > 0 /\ w = [pc |-> "producer", at |-> <<q, n>>]
  <2>1. CASE n = 0
    <3>1. Exits!Of(q) = {}
      BY <1>2, <2>1 DEF FirstOf
    <3> QED
      BY <1>3, <3>1 DEF Exits!Pick
  <2>2. CASE n # 0
    <3>1. n > 0 /\ <<q, n>> \in FirstOf(q, n)
      BY <2>2, ExitConstants DEF FirstOf
    <3>2. \A k \in FirstOf(q, n) : k = <<q, k[2]>> /\ k[2] \in 1 .. n
      BY DEF FirstOf
    <3>3. (CHOOSE l \in FirstOf(q, n) : \A k \in FirstOf(q, n) : k[2] <= l[2]) = <<q, n>>
      <4>1. \A k \in FirstOf(q, n) : k[2] <= <<q, n>>[2]
        BY <3>2, ExitConstants
      <4>2. \A l \in FirstOf(q, n) : (\A k \in FirstOf(q, n) : k[2] <= l[2]) => l = <<q, n>>
        <5> SUFFICES ASSUME NEW l \in FirstOf(q, n), \A k \in FirstOf(q, n) : k[2] <= l[2]
                     PROVE  l = <<q, n>>
          OBVIOUS
        <5>1. n <= l[2]
          BY <3>1
        <5>2. l[2] \in 1 .. n /\ l = <<q, l[2]>>
          BY <3>2
        <5>3. l[2] = n
          BY <5>1, <5>2, ExitConstants
        <5> QED
          BY <5>2, <5>3
      <4> QED
        BY <3>1, <4>1, <4>2
    <3> QED
      BY <1>2, <1>3, <3>1, <3>3 DEF Exits!Pick
  <2> QED
    BY <2>1, <2>2
<1>5. w \in [pc : {"alive", "destroyed"} \cup Destroying, at : Exits!Listeners \cup {Exits!None}]
  <2>1. n > 0 => <<q, n>> \in Exits!Listeners
    BY ListenerIs, ExitConstants
  <2> QED
    BY <1>4, <2>1 DEF Destroying
<1>6. queue' = [queue EXCEPT ![q] = w] /\ queue'[q] = w /\ \A p \in ExitQueues : p # q => queue'[p] = queue[p]
  BY <1>0, <1>1, <1>3 DEF ExitTypes
<1>7. ExitTypes'
  BY <1>0, <1>1, <1>5, <1>6 DEF ExitTypes
<1>8. MutexRight' /\ ChainedInUse'
  BY <1>0, <1>1 DEF MutexRight, ChainedInUse
<1>9. Subscribers'
  <2> SUFFICES ASSUME NEW u \in ExitThreads, thread[u].pc = "subscribe"
               PROVE  StillFree(u) => StillFree(u)'
    BY <1>0, <1>1, SubscribersStay
  <2>1. StillFree(u) => thread[u].at \in Exits!Listeners /\ thread[u].at[1] # q
    BY <1>0, <1>1 DEF StillFree, ExitTypes
  <2> QED
    BY <1>1, <1>6, <2>1, ListenerIs DEF StillFree
<1>10. ProducersRight'
  <2> SUFFICES ASSUME NEW p \in ExitQueues
               PROVE  \E m \in 0 .. PerQueue : /\ Exits!Of(p)' = FirstOf(p, m)
                                               /\ queue'[p].pc \in Destroying => m > 0 /\ queue'[p].at = <<p, m>>
    BY DEF ProducersRight, FirstOf
  <2>1. Exits!Of(p)' = Exits!Of(p)
    BY <1>1 DEF Exits!Of
  <2>2. CASE p # q
    BY <1>0, <1>6, <2>1, <2>2 DEF ProducersRight
  <2>3. CASE p = q
    BY <1>2, <1>4, <1>6, <2>1, <2>3 DEF Destroying
  <2> QED
    BY <2>2, <2>3
<1>11. FreedRight'
  BY <1>0, <1>1, <1>4, <1>6 DEF FreedRight
<1>12. ListsRight'
  BY <1>0, <1>1, ListsStay
<1> QED
  BY <1>7, <1>8, <1>9, <1>10, <1>11, <1>12 DEF ExitsInv

(* The producers of a queue, when only its place in them changes.          *)
LEMMA PlaceStays ==
    ASSUME ProducersRight, NEW q \in ExitQueues, made' = made,
           \A p \in ExitQueues : p # q => queue'[p] = queue[p],
           queue[q].pc \in Destroying, queue'[q].at = queue[q].at
    PROVE  ProducersRight'
<1> SUFFICES ASSUME NEW p \in ExitQueues
             PROVE  \E m \in 0 .. PerQueue : /\ Exits!Of(p)' = FirstOf(p, m)
                                             /\ queue'[p].pc \in Destroying => m > 0 /\ queue'[p].at = <<p, m>>
  BY DEF ProducersRight, FirstOf
<1>1. Exits!Of(p)' = Exits!Of(p)
  BY DEF Exits!Of
<1>2. CASE p # q
  BY <1>1, <1>2 DEF ProducersRight
<1>3. CASE p = q
  BY <1>1, <1>3 DEF ProducersRight
<1> QED
  BY <1>2, <1>3

(* An inactive producer is in no list: it need not be taken out of one.    *)
LEMMA LoadInactiveRight ==
    ASSUME ExitsInv, NEW q \in ExitQueues, Exits!LoadInactive(q)
    PROVE  ExitsInv'
<1>0. ExitTypes /\ MutexRight /\ ChainedInUse /\ Subscribers /\ ProducersRight /\ FreedRight /\ ListsRight
  BY DEF ExitsInv
<1>1. PICK l : l = queue[q].at
  OBVIOUS
<1>2. /\ queue[q].pc = "producer"
      /\ queue' = [queue EXCEPT ![q].pc = IF exitInactive[l] THEN "free" ELSE "unsubscribe"]
      /\ UNCHANGED <<exitList, chain, exitInactive, made, mutex, thread>>
  BY <1>1 DEF Exits!LoadInactive
<1>3. l \in Exits!Listeners
  BY <1>0, <1>1, <1>2, DestroyedIs DEF Destroying
<1>4. /\ queue'[q].at = l /\ queue'[q].pc = (IF exitInactive[l] THEN "free" ELSE "unsubscribe")
      /\ queue'[q] \in [pc : {"alive", "destroyed"} \cup Destroying, at : Exits!Listeners \cup {Exits!None}]
      /\ \A p \in ExitQueues : p # q => queue'[p] = queue[p]
      /\ queue' = [queue EXCEPT ![q] = queue'[q]]
  <2>1. queue[q] \in [pc : {"alive", "destroyed"} \cup Destroying, at : Exits!Listeners \cup {Exits!None}]
    BY <1>0 DEF ExitTypes
  <2>2. queue'[q] = [queue[q] EXCEPT !.pc = IF exitInactive[l] THEN "free" ELSE "unsubscribe"]
    BY <1>0, <1>2 DEF ExitTypes
  <2>3. /\ \A p \in ExitQueues : p # q => queue'[p] = queue[p]
        /\ queue' = [queue EXCEPT ![q] = queue'[q]]
    BY <1>0, <1>2, <2>2 DEF ExitTypes
  <2> QED
    BY <1>1, <2>1, <2>2, <2>3 DEF Destroying
<1>5. ExitTypes'
  BY <1>0, <1>2, <1>4 DEF ExitTypes
<1>6. MutexRight' /\ ChainedInUse'
  BY <1>0, <1>2 DEF MutexRight, ChainedInUse
<1>7. Subscribers'
  <2> SUFFICES ASSUME NEW u \in ExitThreads, thread[u].pc = "subscribe"
               PROVE  StillFree(u) => StillFree(u)'
    BY <1>0, <1>2, SubscribersStay
  <2>1. StillFree(u) => thread[u].at \in Exits!Listeners /\ thread[u].at[1] # q
    BY <1>0, <1>2 DEF StillFree, ExitTypes
  <2> QED
    BY <1>2, <1>4, <2>1, ListenerIs DEF StillFree
<1>8. ProducersRight'
  BY <1>0, <1>1, <1>2, <1>4, PlaceStays DEF Destroying
<1>9. FreedRight'
  BY <1>0, <1>2, <1>3, <1>4 DEF FreedRight, ChainedInUse
<1>10. ListsRight'
  BY <1>0, <1>2, ListsStay
<1> QED
  BY <1>5, <1>6, <1>7, <1>8, <1>9, <1>10 DEF ExitsInv

(* unsubscribe(): the listener is taken out of the list that it is in, of  *)
(* a thread that is not ending.                                            *)
LEMMA UnsubscribeRight ==
    ASSUME ExitsInv, NEW q \in ExitQueues, Exits!Unsubscribe(q)
    PROVE  ExitsInv'
<1>0. ExitTypes /\ MutexRight /\ ChainedInUse /\ Subscribers /\ ProducersRight /\ FreedRight /\ ListsRight
  BY DEF ExitsInv
<1>1. PICK l : l = queue[q].at
  OBVIOUS
<1>2. /\ queue[q].pc = "unsubscribe" /\ mutex = "none"
      /\ \/ chain[l] = "none" /\ UNCHANGED <<exitList, chain>>
         \/ /\ chain[l] # "none" /\ exitList' = Exits!Unlink(l)
            /\ chain' = [chain EXCEPT ![l] = "none"]
      /\ queue' = [queue EXCEPT ![q].pc = "free"]
      /\ UNCHANGED <<exitInactive, made, mutex, thread>>
  BY <1>1 DEF Exits!Unsubscribe
<1>3. l \in Exits!Listeners
  BY <1>0, <1>1, <1>2, DestroyedIs DEF Destroying
<1>4. /\ queue'[q].at = l /\ queue'[q].pc = "free"
      /\ queue'[q] \in [pc : {"alive", "destroyed"} \cup Destroying, at : Exits!Listeners \cup {Exits!None}]
      /\ \A p \in ExitQueues : p # q => queue'[p] = queue[p]
      /\ queue' = [queue EXCEPT ![q] = queue'[q]]
  <2>1. queue[q] \in [pc : {"alive", "destroyed"} \cup Destroying, at : Exits!Listeners \cup {Exits!None}]
    BY <1>0 DEF ExitTypes
  <2>2. queue'[q] = [queue[q] EXCEPT !.pc = "free"]
    BY <1>0, <1>2 DEF ExitTypes
  <2>3. /\ \A p \in ExitQueues : p # q => queue'[p] = queue[p]
        /\ queue' = [queue EXCEPT ![q] = queue'[q]]
    BY <1>0, <1>2, <2>2 DEF ExitTypes
  <2> QED
    BY <1>1, <2>1, <2>2, <2>3 DEF Destroying
<1>5. /\ chain' \in [Exits!Listeners -> ExitThreads \cup {"none"}] /\ chain'[l] = "none"
      /\ \A x \in Exits!Listeners : x # l => chain'[x] = chain[x]
  BY <1>0, <1>2, <1>3 DEF ExitTypes
<1>6. exitList' \in [ExitThreads -> Seq(Exits!Listeners)] /\ ListsRight'
  <2>1. CASE chain[l] = "none"
    BY <1>0, <1>2, <2>1, ListsStay DEF ExitTypes
  <2>2. CASE chain[l] # "none"
    <3>1. PICK u \in ExitThreads : u = chain[l]
      BY <1>0, <1>3, <2>2 DEF ExitTypes
    <3>2. PICK s : s = exitList[u]
      OBVIOUS
    <3>3. s \in Seq(Exits!Listeners) /\ Len(s) \in Nat /\ DOMAIN s = 1 .. Len(s) /\ OnceEach(s)
      BY <1>0, <3>2, ThreadTypes, LenProperties DEF ListsRight, ListRight
    <3>4. thread[u].pc \in {"run", "subscribe"} /\ ChainFrom(u, s, 1, chain)
      <4>1. thread[u].pc \notin Exiting
        BY <1>0, <1>2, ThreadTypes DEF MutexRight
      <4>2. thread[u].pc # "gone"
        BY <1>0, <1>3, <3>1 DEF ListsRight, ListRight
      <4>3. thread[u].pc \in {"run", "subscribe"}
        BY <1>0, <4>1, <4>2, ThreadTypes
      <4> QED
        BY <1>0, <3>2, <4>3 DEF ListsRight, ListRight
    <3>5. PICK k \in 1 .. Len(s) : s[k] = l
      BY <1>3, <3>1, <3>4 DEF ChainFrom
    <3>6. Exits!Index(u, l) = k
      BY <3>2, <3>3, <3>5 DEF Exits!Index, OnceEach
    <3>7. PICK r : r = SubSeq(s, 1, k - 1) \o SubSeq(s, k + 1, Len(s))
      OBVIOUS
    <3>8. exitList' = [exitList EXCEPT ![u] = r]
      BY <1>2, <2>2, <3>1, <3>2, <3>6, <3>7 DEF Exits!Unlink, Exits!RemoveAt
    <3>9. r \in Seq(Exits!Listeners) /\ OnceEach(r) /\ HasAllBut(r, s, k)
      BY <3>3, <3>5, <3>7, RemovedFrom
    <3>10. exitList' \in [ExitThreads -> Seq(Exits!Listeners)]
      BY <1>0, <3>8, <3>9 DEF ExitTypes
    <3>11. exitList'[u] = r /\ \A t \in ExitThreads : t # u => exitList'[t] = exitList[t]
      BY <1>0, <3>8 DEF ExitTypes
    <3>12. ChainFrom(u, r, 1, chain')
      <4> SUFFICES ASSUME NEW x \in Exits!Listeners
                   PROVE  chain'[x] = u <=> \E j \in 1 .. Len(r) : r[j] = x
        BY DEF ChainFrom
      <4>1. chain[x] = u <=> \E j \in 1 .. Len(s) : s[j] = x
        BY <3>4 DEF ChainFrom
      <4>2. (\E j \in 1 .. Len(r) : r[j] = x) <=> (\E j \in 1 .. Len(s) : s[j] = x /\ j # k)
        BY <3>9 DEF HasAllBut
      <4>3. CASE x = l
        <5>1. chain'[x] # u
          BY <1>5, <4>3, ExitConstants
        <5>2. ~\E j \in 1 .. Len(s) : s[j] = x /\ j # k
          BY <3>3, <3>5, <4>3 DEF OnceEach
        <5> QED
          BY <4>2, <5>1, <5>2
      <4>4. CASE x # l
        <5>1. chain'[x] = chain[x]
          BY <1>5, <4>4
        <5>2. (\E j \in 1 .. Len(s) : s[j] = x /\ j # k) <=> \E j \in 1 .. Len(s) : s[j] = x
          BY <3>5, <4>4
        <5> QED
          BY <4>1, <4>2, <5>1, <5>2
      <4> QED
        BY <4>3, <4>4
    <3>13. ListsRight'
      <4> SUFFICES ASSUME NEW t \in ExitThreads
                   PROVE  ListRight(t, exitList'[t], thread'[t], chain')
        BY DEF ListsRight
      <4>1. CASE t = u
        BY <1>2, <3>4, <3>9, <3>11, <3>12, <4>1 DEF ListRight
      <4>2. CASE t # u
        <5>1. \A x \in Exits!Listeners : chain'[x] = t <=> chain[x] = t
          BY <1>5, <3>1, <4>2, ExitConstants
        <5> QED
          BY <1>0, <1>2, <3>11, <4>2, <5>1, ListOthersStay
      <4> QED
        BY <4>1, <4>2
    <3> QED
      BY <3>10, <3>13
  <2> QED
    BY <2>1, <2>2
<1>7. ExitTypes'
  BY <1>0, <1>2, <1>4, <1>5, <1>6 DEF ExitTypes
<1>8. MutexRight' /\ ChainedInUse'
  BY <1>0, <1>2, <1>5 DEF MutexRight, ChainedInUse
<1>9. Subscribers'
  <2> SUFFICES ASSUME NEW u \in ExitThreads, thread[u].pc = "subscribe"
               PROVE  StillFree(u) => StillFree(u)'
    BY <1>0, <1>2, SubscribersStay
  <2>1. StillFree(u) => thread[u].at \in Exits!Listeners /\ thread[u].at[1] # q
    BY <1>0, <1>2 DEF StillFree, ExitTypes
  <2> QED
    BY <1>2, <1>4, <1>5, <2>1, ListenerIs DEF StillFree
<1>10. ProducersRight'
  BY <1>0, <1>1, <1>2, <1>4, PlaceStays DEF Destroying
<1>11. FreedRight'
  <2> SUFFICES ASSUME NEW p \in ExitQueues, queue'[p].pc = "free"
               PROVE  chain'[queue'[p].at] = "none"
    BY DEF FreedRight
  <2>1. CASE p = q
    BY <1>4, <1>5, <2>1
  <2>2. CASE p # q
    <3>1. queue[p].at \in Exits!Listeners /\ chain[queue[p].at] = "none"
      BY <1>0, <1>4, <2>2, DestroyedIs DEF Destroying, FreedRight
    <3> QED
      BY <1>4, <1>5, <2>2, <3>1
  <2> QED
    BY <2>1, <2>2
<1> QED
  BY <1>6, <1>7, <1>8, <1>9, <1>10, <1>11 DEF ExitsInv

(* The last producer goes; it is in no list.                               *)
LEMMA FreeRight ==
    ASSUME ExitsInv, NEW q \in ExitQueues, Exits!Free(q)
    PROVE  ExitsInv'
<1>0. ExitTypes /\ MutexRight /\ ChainedInUse /\ Subscribers /\ ProducersRight /\ FreedRight /\ ListsRight
  BY DEF ExitsInv
<1>1. PICK n \in 0 .. PerQueue : Exits!Of(q) = FirstOf(q, n) /\ n > 0 /\ queue[q].at = <<q, n>>
  BY <1>0 DEF ProducersRight, Destroying, Exits!Free
<1>2. PICK l : l = <<q, n>>
  OBVIOUS
<1>3. l \in Exits!Listeners /\ l[1] = q /\ l[2] = n /\ n \in Nat /\ n - 1 \in 0 .. PerQueue
  BY <1>1, <1>2, ListenerIs, ExitConstants
<1>4. /\ queue[q].pc = "free" /\ made' = made \ {l} /\ chain[l] = "none"
      /\ queue' = [queue EXCEPT ![q] = IF Exits!Of(q) = {l} THEN [pc |-> "destroyed", at |-> Exits!None]
                                       ELSE [pc |-> "producer", at |-> <<q, n - 1>>]]
      /\ UNCHANGED <<exitList, chain, exitInactive, mutex, thread>>
  BY <1>0, <1>1, <1>2, <1>3 DEF Exits!Free, FreedRight
<1>5. /\ queue'[q] = IF Exits!Of(q) = {l} THEN [pc |-> "destroyed", at |-> Exits!None]
                     ELSE [pc |-> "producer", at |-> <<q, n - 1>>]
      /\ \A p \in ExitQueues : p # q => queue'[p] = queue[p]
      /\ queue' = [queue EXCEPT ![q] = queue'[q]]
  BY <1>0, <1>4 DEF ExitTypes
<1>6. n # 1 => Exits!Of(q) # {l} /\ n - 1 > 0 /\ <<q, n - 1>> \in Exits!Listeners
  <2> SUFFICES ASSUME n # 1 PROVE Exits!Of(q) # {l} /\ n - 1 > 0 /\ <<q, n - 1>> \in Exits!Listeners
    OBVIOUS
  <2>1. n - 1 > 0 /\ n - 1 \in 1 .. n /\ n - 1 \in 1 .. PerQueue /\ n - 1 # n
    BY <1>1, ExitConstants
  <2>2. <<q, n - 1>> \in FirstOf(q, n) /\ <<q, n - 1>> # l
    BY <1>2, <2>1 DEF FirstOf
  <2> QED
    BY <1>1, <2>1, <2>2, ListenerIs
<1>7. n = 1 => Exits!Of(q) = {l}
  BY <1>1, <1>2 DEF FirstOf
<1>8. queue'[q] \in [pc : {"alive", "destroyed"} \cup Destroying, at : Exits!Listeners \cup {Exits!None}]
  BY <1>5, <1>6, <1>7 DEF Destroying
<1>9. ExitTypes'
  BY <1>0, <1>4, <1>5, <1>8 DEF ExitTypes
<1>10. MutexRight' /\ ChainedInUse'
  BY <1>0, <1>4 DEF MutexRight, ChainedInUse
<1>11. Subscribers'
  <2> SUFFICES ASSUME NEW u \in ExitThreads, thread[u].pc = "subscribe"
               PROVE  StillFree(u) => StillFree(u)'
    BY <1>0, <1>4, SubscribersStay
  <2>1. StillFree(u) => thread[u].at \in Exits!Listeners /\ thread[u].at[1] # q
    BY <1>0, <1>4 DEF StillFree, ExitTypes
  <2>2. StillFree(u) => thread[u].at # l
    BY <1>3, <2>1
  <2> QED
    BY <1>4, <1>5, <2>1, <2>2, ListenerIs DEF StillFree
<1>12. ProducersRight'
  <2> SUFFICES ASSUME NEW p \in ExitQueues
               PROVE  \E m \in 0 .. PerQueue : /\ Exits!Of(p)' = FirstOf(p, m)
                                               /\ queue'[p].pc \in Destroying => m > 0 /\ queue'[p].at = <<p, m>>
    BY DEF ProducersRight, FirstOf
  <2>1. Exits!Of(p)' = Exits!Of(p) \ {l}
    BY <1>4 DEF Exits!Of
  <2>2. CASE p # q
    <3>1. Exits!Of(p)' = Exits!Of(p)
      BY <1>3, <2>1, <2>2 DEF Exits!Of
    <3> QED
      BY <1>0, <1>5, <2>2, <3>1 DEF ProducersRight
  <2>3. CASE p = q
    <3>1. FirstOf(q, n) \ {l} = FirstOf(q, n - 1)
      BY <1>2, <1>3 DEF FirstOf
    <3>2. queue'[q].pc \in Destroying => n - 1 > 0 /\ queue'[q].at = <<q, n - 1>>
      BY <1>5, <1>6, <1>7 DEF Destroying
    <3> QED
      BY <1>1, <1>3, <2>1, <2>3, <3>1, <3>2
  <2> QED
    BY <2>2, <2>3
<1>13. FreedRight'
  BY <1>0, <1>4, <1>5 DEF FreedRight
<1>14. ListsRight'
  BY <1>0, <1>4, ListsStay
<1> QED
  BY <1>9, <1>10, <1>11, <1>12, <1>13, <1>14 DEF ExitsInv

(* Every step of ThreadExit keeps the invariant.                           *)
LEMMA NextExits == ASSUME ExitsInv, Exits!Next
                   PROVE  ExitsInv'
<1>1. CASE \E t \in ExitThreads : Exits!ThreadStep(t)
  <2>1. PICK t \in ExitThreads : Exits!ThreadStep(t)
    BY <1>1
  <2>2. CASE \E q \in ExitQueues, l \in Exits!Listeners : Exits!Enqueue(t, q, l)
    BY <2>2, EnqueueRight
  <2>3. CASE Exits!Subscribe(t) \/ Exits!Exit(t)
    BY <2>3, SubscribeRight, ExitRight
  <2>4. CASE Exits!Callback(t) \/ Exits!ReadNext(t) \/ Exits!Gone(t)
    BY <2>4, CallbackRight, ReadNextRight, GoneRight
  <2> QED
    BY <2>1, <2>2, <2>3, <2>4 DEF Exits!ThreadStep
<1>2. CASE \E q \in ExitQueues : Exits!QueueStep(q)
  BY <1>2, DestroyRight, LoadInactiveRight, UnsubscribeRight, FreeRight DEF Exits!QueueStep
<1> QED
  BY <1>1, <1>2 DEF Exits!Next

(* At the start no thread has a list and no queue has a producer.          *)
LEMMA InitExits == Exits!Init => ExitsInv
<1> SUFFICES ASSUME Exits!Init
             PROVE  ExitsInv
  OBVIOUS
<1>1. /\ exitList = [t \in ExitThreads |-> <<>>] /\ chain = [l \in Exits!Listeners |-> "none"]
      /\ exitInactive = [l \in Exits!Listeners |-> FALSE] /\ made = {} /\ mutex = "none"
      /\ thread = [t \in ExitThreads |-> [pc |-> "run", at |-> Exits!None, uses |-> {}]]
      /\ queue = [q \in ExitQueues |-> [pc |-> "alive", at |-> Exits!None]]
  BY DEF Exits!Init
<1>2. <<>> \in Seq(Exits!Listeners) /\ Len(<<>>) = 0
  BY EmptySeq
<1>3. ExitTypes
  BY <1>1, <1>2 DEF ExitTypes
<1>4. MutexRight /\ ChainedInUse /\ Subscribers /\ FreedRight
  BY <1>1 DEF MutexRight, Exiting, ChainedInUse, Subscribers, FreedRight
<1>5. ProducersRight
  <2> SUFFICES ASSUME NEW q \in ExitQueues
               PROVE  /\ 0 \in 0 .. PerQueue /\ Exits!Of(q) = FirstOf(q, 0)
                      /\ queue[q].pc \notin Destroying
    BY DEF ProducersRight
  <2>1. Exits!Of(q) = {} /\ FirstOf(q, 0) = {}
    BY <1>1 DEF Exits!Of, FirstOf
  <2> QED
    BY <1>1, <2>1, ExitConstants DEF Destroying
<1>6. ListsRight
  <2> SUFFICES ASSUME NEW t \in ExitThreads
               PROVE  ListRight(t, <<>>, thread[t], chain)
    BY <1>1 DEF ListsRight
  <2>1. thread[t].pc = "run" /\ \A l \in Exits!Listeners : chain[l] # t
    BY <1>1, ExitConstants
  <2>2. OnceEach(<<>>) /\ ChainFrom(t, <<>>, 1, chain)
    BY <1>2, <2>1 DEF OnceEach, ChainFrom
  <2> QED
    BY <2>1, <2>2 DEF ListRight
<1> QED
  BY <1>3, <1>4, <1>5, <1>6 DEF ExitsInv

(***************************************************************************)
(* Where the lists of threads are, for every number of threads, queues and *)
(* producers of a queue: the inductive invariant of ThreadExit holds.      *)
(***************************************************************************)
THEOREM ExitsInvariant == ListsSpec => []ExitsInv
<1>1. ListsInit => ExitsInv
  BY InitExits DEF ListsInit
<1>2. ExitsInv /\ [ListsNext]_listsVars => ExitsInv'
  <2> SUFFICES ASSUME ExitsInv, [ListsNext]_listsVars
               PROVE  ExitsInv'
    OBVIOUS
  <2>1. Exits!Next \/ UNCHANGED exitsVars
    BY DEF ListsNext, listsVars, BlockPool, ThreadExit
  <2> QED
    BY <2>1, NextExits, ExitsSame
<1> QED
  BY <1>1, <1>2, PTL DEF ListsSpec

(* A callback's listener is chained to the thread, hence in use.           *)
LEMMA CallbacksAlive == ExitsInv => Exits!CallbackAlive
<1> SUFFICES ASSUME ExitsInv, NEW t \in ExitThreads, thread[t].pc = "callback"
             PROVE  thread[t].at \in made
  BY DEF Exits!CallbackAlive, Exits!At
<1>1. PICK s : s = exitList[t]
  OBVIOUS
<1>2. Len(s) \in Nat /\ \A j \in 1 .. Len(s) : s[j] \in Exits!Listeners
  BY <1>1, ThreadTypes, LenProperties, ElementOfSeq DEF ExitsInv
<1>3. PICK k \in 1 .. Len(s) : s[k] = thread[t].at /\ ChainFrom(t, s, k, chain)
  BY <1>1 DEF ExitsInv, ListsRight, ListRight
<1>4. thread[t].at \in Exits!Listeners /\ k \in k .. Len(s)
  BY <1>2, <1>3
<1>5. chain[thread[t].at] = t
  BY <1>3, <1>4 DEF ChainFrom
<1> QED
  BY <1>4, <1>5, ThreadTypes DEF ExitsInv, ChainedInUse

(* A list without repetitions is as long as it has elements.               *)
LEMMA RangeCount == ASSUME NEW S, NEW s \in Seq(S), OnceEach(s)
                    PROVE  Exits!Cardinality(Exits!Range(s)) = Len(s)
<1>1. Len(s) \in Nat /\ DOMAIN s = 1 .. Len(s) /\ s \in [1 .. Len(s) -> S]
  BY LenProperties
<1>2. PICK R : R = {s[i] : i \in 1 .. Len(s)}
  OBVIOUS
<1>3. Exits!Range(s) = R
  BY <1>1, <1>2 DEF Exits!Range
<1>4. s \in [1 .. Len(s) -> R] /\ \A x \in R : \E i \in 1 .. Len(s) : s[i] = x
  BY <1>1, <1>2
<1>5. s \in Bijection(1 .. Len(s), R)
  BY <1>1, <1>4 DEF OnceEach, Bijection, Injection, Surjection, IsInjective
<1>6. ExistsBijection(1 .. Len(s), R)
  BY <1>5 DEF ExistsBijection
<1>7. Cardinality(R) = Len(s)
  BY <1>1, <1>6, FS_CountingElements
<1> QED
  BY <1>3, <1>7 DEF Exits!Cardinality, Cardinality

(* The list of a thread that has not begun to end has what is chained to it.*)
LEMMA ListsAreExact == ExitsInv => Exits!ListsExact
<1> SUFFICES ASSUME ExitsInv, NEW t \in ExitThreads, thread[t].pc \in {"run", "subscribe"}
             PROVE  /\ \A k \in DOMAIN exitList[t] : /\ chain[exitList[t][k]] = t /\ exitList[t][k] \in made
                                                     /\ ~exitInactive[exitList[t][k]]
                    /\ {l \in Exits!Listeners : chain[l] = t} = Exits!Range(exitList[t])
                    /\ Exits!Cardinality(Exits!Range(exitList[t])) = Len(exitList[t])
  BY DEF Exits!ListsExact, Exits!Waiting
<1>1. PICK s : s = exitList[t]
  OBVIOUS
<1>2. /\ s \in Seq(Exits!Listeners) /\ Len(s) \in Nat /\ DOMAIN s = 1 .. Len(s)
      /\ \A j \in 1 .. Len(s) : s[j] \in Exits!Listeners
  BY <1>1, ThreadTypes, LenProperties, ElementOfSeq DEF ExitsInv
<1>3. OnceEach(s) /\ ChainFrom(t, s, 1, chain)
  BY <1>1 DEF ExitsInv, ListsRight, ListRight
<1>4. \A k \in 1 .. Len(s) : chain[s[k]] = t
  BY <1>2, <1>3 DEF ChainFrom
<1>5. \A k \in 1 .. Len(s) : s[k] \in made /\ ~exitInactive[s[k]]
  BY <1>2, <1>4, ThreadTypes DEF ExitsInv, ChainedInUse
<1>6. {l \in Exits!Listeners : chain[l] = t} = Exits!Range(s)
  BY <1>2, <1>3, <1>4 DEF ChainFrom, Exits!Range
<1>7. Exits!Cardinality(Exits!Range(s)) = Len(s)
  BY <1>2, <1>3, RangeCount
<1> QED
  BY <1>1, <1>2, <1>4, <1>5, <1>6, <1>7

(***************************************************************************)
(* The callbacks of a thread that ends find their producers alive, and the *)
(* lists of the others hold exactly the producers in use.                  *)
(***************************************************************************)
THEOREM ExitsAlwaysRight == ListsSpec => []ExitsRight
<1>1. ExitsInv => ExitsRight
  BY CallbacksAlive, ListsAreExact DEF ExitsRight
<1> QED
  BY <1>1, ExitsInvariant, PTL
=============================================================================
