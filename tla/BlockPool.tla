----------------------------- MODULE BlockPool -----------------------------
(***************************************************************************)
(* concurrentqueue/concurrentqueue.h: where blocks come from and go to.    *)
(* requisition_block() tries the initial pool, then the lock-free free     *)
(* list, then allocates; add_block_to_free_list() destroys an allocated    *)
(* block or puts it on the list.                                           *)
(*                                                                         *)
(* The free list is a stack whose nodes count references: freeListRefs is  *)
(* one for the list and one per thread looking at the node, and its top    *)
(* bit says that the node is to be put on the list by whoever drops the    *)
(* last reference.  Every atomic access is a step.  Accesses take effect   *)
(* in program order: of the relaxed loads, each is confirmed by the        *)
(* exchange that uses it.                                                  *)
(***************************************************************************)
EXTENDS Integers, FiniteSets

CONSTANTS Threads,
          PoolSize,      \* initialBlockPoolSize
          MaxDynamic,    \* bound: blocks allocated at a time
          MaxCalls,      \* bound: calls in a behaviour
          Recycle,       \* values of Traits::RECYCLE_ALLOCATED_BLOCKS the model starts with
          Mask           \* REFS_MASK, the largest reference count

PoolAssumption == /\ PoolSize \in Nat /\ MaxDynamic \in Nat /\ MaxCalls \in Nat
                  /\ Recycle \subseteq BOOLEAN
                  /\ Mask \in Nat /\ IsFiniteSet(Threads) /\ Cardinality(Threads) + 1 <= Mask

VARIABLES recycle,
          poolIndex,     \* initialBlockPoolIndex
          head,          \* freeListHead
          next, refs,    \* freeListNext and freeListRefs of each block
          thr,           \* thr[t]: where t is, and its local variables
          used,          \* blocks that were handed out and not given back
          live,          \* allocated blocks that exist
          calls

vars == <<recycle, poolIndex, head, next, refs, thr, used, live, calls>>

NULL == 0
Pool == 1 .. PoolSize
Dynamic == PoolSize + 1 .. PoolSize + MaxDynamic
Blocks == Pool \cup Dynamic
SHOULD_BE_ON_FREELIST == Mask + 1
Count(r) == r % SHOULD_BE_ON_FREELIST
Flagged(r) == r >= SHOULD_BE_ON_FREELIST

At(t, l) == thr[t].pc = l
Idle == [pc |-> "idle", node |-> NULL, head |-> NULL, aux |-> 0, back |-> "idle"]
Goto(t, l) == thr' = [thr EXCEPT ![t].pc = l]
GotoWith(t, l, h) == thr' = [thr EXCEPT ![t].pc = l, ![t].head = h]
Subtract(b, n) == refs' = [refs EXCEPT ![b] = @ - n]

Init == /\ recycle \in Recycle
        /\ poolIndex = 0 /\ head = NULL
        /\ next = [b \in Blocks |-> NULL] /\ refs = [b \in Blocks |-> 0]
        /\ thr = [t \in Threads |-> Idle]
        /\ used = {} /\ live = {} /\ calls = 0
-----------------------------------------------------------------------------
(***************************************************************************)
(* The end of requisition_block() and of an addition to the list.  An      *)
(* addition may have been made by try_get(), which then goes on.           *)
(***************************************************************************)
Deliver(t, b) == /\ thr' = [thr EXCEPT ![t] = Idle]
                 /\ used' = used \cup {b}

EndAdd(t) == thr' = [thr EXCEPT ![t] = IF @.back = "idle" THEN Idle ELSE [Idle EXCEPT !.pc = "loop", !.head = thr[t].aux]]
-----------------------------------------------------------------------------
(***************************************************************************)
(* A faulty variant: a reference taken without looking at the count again. *)
(***************************************************************************)
TakeRefBlindly(t) == /\ At(t, "ref")
                     /\ Subtract(thr[t].node, -1) /\ Goto(t, "next")
                     /\ UNCHANGED <<recycle, poolIndex, head, next, used, live, calls>>

-----------------------------------------------------------------------------
(***************************************************************************)
(* try_get_block_from_initial_pool(): a check, then a fetch_add that may   *)
(* pass the end.                                                           *)
(***************************************************************************)
Requisition(t) == /\ At(t, "idle") /\ calls < MaxCalls /\ calls' = calls + 1
                  /\ Goto(t, IF poolIndex >= PoolSize THEN "load" ELSE "pool")
                  /\ UNCHANGED <<recycle, poolIndex, head, next, refs, used, live>>

TakeFromPool(t) == /\ At(t, "pool")
                   /\ poolIndex' = poolIndex + 1
                   /\ IF poolIndex < PoolSize THEN Deliver(t, poolIndex + 1)
                      ELSE Goto(t, "load") /\ UNCHANGED used
                   /\ UNCHANGED <<recycle, head, next, refs, live, calls>>
-----------------------------------------------------------------------------
(***************************************************************************)
(* try_get().  A node is looked at only with a reference of one's own,     *)
(* taken from a count that was not zero.                                   *)
(***************************************************************************)
LoadHead(t) == /\ At(t, "load")
               /\ GotoWith(t, "loop", head)
               /\ UNCHANGED <<recycle, poolIndex, head, next, refs, used, live, calls>>

LoadRefs(t) == LET h == thr[t].head
               IN  /\ At(t, "loop") /\ h # NULL
                   /\ IF Count(refs[h]) = 0 THEN Goto(t, "load")
                      ELSE thr' = [thr EXCEPT ![t] = [@ EXCEPT !.pc = "ref", !.node = h, !.aux = refs[h]]]
                   /\ UNCHANGED <<recycle, poolIndex, head, next, refs, used, live, calls>>

TakeRef(t) == LET h == thr[t].node
              IN  /\ At(t, "ref")
                  /\ IF refs[h] = thr[t].aux THEN Subtract(h, -1) /\ Goto(t, "next")
                     ELSE Goto(t, "load") /\ UNCHANGED refs
                  /\ UNCHANGED <<recycle, poolIndex, head, next, used, live, calls>>

LoadNext(t) == /\ At(t, "next")
               /\ thr' = [thr EXCEPT ![t].pc = "pop", ![t].aux = next[thr[t].node]]
               /\ UNCHANGED <<recycle, poolIndex, head, next, refs, used, live, calls>>

PopHead(t) == /\ At(t, "pop")
              /\ IF head = thr[t].node THEN head' = thr[t].aux /\ Goto(t, "took")
                 ELSE GotoWith(t, "unref", head) /\ UNCHANGED head
              /\ UNCHANGED <<recycle, poolIndex, next, refs, used, live, calls>>

DropTwo(t) == /\ At(t, "took")
              /\ Subtract(thr[t].node, 2)
              /\ Deliver(t, thr[t].node)
              /\ UNCHANGED <<recycle, poolIndex, head, next, live, calls>>

DropOne(t) == LET b == thr[t].node
              IN  /\ At(t, "unref")
                  /\ Subtract(b, 1)
                  /\ IF refs[b] = SHOULD_BE_ON_FREELIST + 1
                     THEN thr' = [thr EXCEPT ![t] = [@ EXCEPT !.pc = "addLoad", !.aux = thr[t].head, !.back = "loop"]]
                     ELSE Goto(t, "loop")
                  /\ UNCHANGED <<recycle, poolIndex, head, next, used, live, calls>>

(***************************************************************************)
(* An empty list: create<Block>(), which may fail, if the caller may       *)
(* allocate.                                                               *)
(***************************************************************************)
Allocate(t) == /\ At(t, "loop") /\ thr[t].head = NULL
               /\ \/ \E b \in Dynamic \ live : /\ Deliver(t, b) /\ live' = live \cup {b}
                                               /\ refs' = [refs EXCEPT ![b] = 0]
                                               /\ next' = [next EXCEPT ![b] = NULL]
                  \/ thr' = [thr EXCEPT ![t] = Idle] /\ UNCHANGED <<used, live, refs, next>>
               /\ UNCHANGED <<recycle, poolIndex, head, calls>>
-----------------------------------------------------------------------------
(***************************************************************************)
(* add_block_to_free_list(): a block that was given up, by whichever       *)
(* thread found it empty.                                                  *)
(***************************************************************************)
GiveBack(t, b) == /\ At(t, "idle") /\ b \in used /\ calls < MaxCalls /\ calls' = calls + 1
                  /\ used' = used \ {b}
                  /\ IF ~recycle /\ b \in Dynamic THEN live' = live \ {b} /\ UNCHANGED thr
                     ELSE thr' = [thr EXCEPT ![t] = [Idle EXCEPT !.pc = "flag", !.node = b]] /\ UNCHANGED live
                  /\ UNCHANGED <<recycle, poolIndex, head, next, refs>>

(***************************************************************************)
(* add(): raise the flag; the thread that finds no reader left does the    *)
(* rest.                                                                   *)
(***************************************************************************)
SetFlag(t) == LET b == thr[t].node
              IN  /\ At(t, "flag")
                  /\ refs' = [refs EXCEPT ![b] = @ + SHOULD_BE_ON_FREELIST]
                  /\ IF refs[b] = 0 THEN Goto(t, "addLoad") ELSE EndAdd(t)
                  /\ UNCHANGED <<recycle, poolIndex, head, next, used, live, calls>>

(***************************************************************************)
(* add_knowing_refcount_is_zero()                                          *)
(***************************************************************************)
AddLoadHead(t) == /\ At(t, "addLoad")
                  /\ GotoWith(t, "store", head)
                  /\ UNCHANGED <<recycle, poolIndex, head, next, refs, used, live, calls>>

StoreNext(t) == /\ At(t, "store")
                /\ next' = [next EXCEPT ![thr[t].node] = thr[t].head]
                /\ Goto(t, "one")
                /\ UNCHANGED <<recycle, poolIndex, head, refs, used, live, calls>>

StoreRefs(t) == /\ At(t, "one")
                /\ refs' = [refs EXCEPT ![thr[t].node] = 1]
                /\ Goto(t, "push")
                /\ UNCHANGED <<recycle, poolIndex, head, next, used, live, calls>>

PushHead(t) == /\ At(t, "push")
               /\ IF head = thr[t].head THEN head' = thr[t].node /\ EndAdd(t)
                  ELSE GotoWith(t, "failed", head) /\ UNCHANGED head
               /\ UNCHANGED <<recycle, poolIndex, next, refs, used, live, calls>>

PushFailed(t) == LET b == thr[t].node
                 IN  /\ At(t, "failed")
                     /\ refs' = [refs EXCEPT ![b] = @ + SHOULD_BE_ON_FREELIST - 1]
                     /\ IF refs[b] = 1 THEN Goto(t, "store") ELSE EndAdd(t)
                     /\ UNCHANGED <<recycle, poolIndex, head, next, used, live, calls>>
-----------------------------------------------------------------------------
Step(t) == \/ TakeFromPool(t) \/ LoadHead(t) \/ LoadRefs(t) \/ TakeRef(t) \/ LoadNext(t) \/ PopHead(t)
           \/ DropTwo(t) \/ DropOne(t) \/ Allocate(t)
           \/ SetFlag(t) \/ AddLoadHead(t) \/ StoreNext(t) \/ StoreRefs(t) \/ PushHead(t) \/ PushFailed(t)

Next == \E t \in Threads : Step(t) \/ Requisition(t) \/ \E b \in Blocks : GiveBack(t, b)

Spec == Init /\ [][Next]_vars

(***************************************************************************)
(* Threads inside a call keep running.                                     *)
(***************************************************************************)
FairSpec == Spec /\ \A t \in Threads : WF_vars(Step(t))
-----------------------------------------------------------------------------
Readers(b) == {t \in Threads : thr[t].node = b /\ thr[t].pc \in {"next", "pop", "took", "unref"}}
Adders(b) == {t \in Threads : thr[t].node = b /\ thr[t].pc \in {"flag", "addLoad", "store", "one", "push", "failed"}}
TypeOK == /\ poolIndex \in 0 .. PoolSize + Cardinality(Threads)
          /\ head \in Blocks \cup {NULL}
          /\ next \in [Blocks -> Blocks \cup {NULL}] /\ refs \in [Blocks -> 0 .. 2 * SHOULD_BE_ON_FREELIST - 1]
          /\ used \subseteq Blocks /\ live \subseteq Dynamic

(***************************************************************************)
(* The blocks on the list: what is reached from the head.                  *)
(***************************************************************************)
Walk[n \in Nat] == IF n = 0 THEN head ELSE IF Walk[n - 1] = NULL THEN NULL ELSE next[Walk[n - 1]]
OnList == {Walk[n] : n \in 0 .. Cardinality(Blocks)} \ {NULL}

(***************************************************************************)
(* A block has one place: in use, on the list, in the hands of one thread  *)
(* that takes it off or puts it on, or not handed out.  It never gets to   *)
(* two owners, however often a node leaves and comes back while another    *)
(* thread looks at it, and the list has no cycle.                          *)
(***************************************************************************)
Taken(t) == IF At(t, "took") THEN {thr[t].node} ELSE {}
OneOwner == /\ Walk[Cardinality(Blocks)] = NULL
            /\ used \cap OnList = {}
            /\ \A t \in Threads : Taken(t) \cap (used \cup OnList) = {}
            /\ \A b \in Blocks : /\ Cardinality(Adders(b)) <= 1
                                 /\ Adders(b) # {} => b \notin used \cup OnList
            /\ \A t, u \in Threads : t # u => Taken(t) \cap Taken(u) = {}

(***************************************************************************)
(* The count is exact: one for the list (or for the push about to happen)  *)
(* and one for each thread with a reference.  The assertion of try_get()   *)
(* is part of it: no node that was just taken off has the flag.            *)
(***************************************************************************)
Pushing(b) == \E t \in Adders(b) : thr[t].pc \in {"push", "failed"}
RefsExact == \A b \in Blocks :
                LET list == IF b \in OnList \/ Pushing(b) \/ \E t \in Threads : b \in Taken(t) THEN 1 ELSE 0
                    zero == \E t \in Adders(b) : thr[t].pc \in {"addLoad", "store", "one"}
                IN  /\ Count(refs[b]) = list + Cardinality(Readers(b))
                    /\ zero => Readers(b) = {}
                    /\ list = 1 => ~Flagged(refs[b])

(***************************************************************************)
(* No block is lost: one that was given back and is not on the list is in  *)
(* the hands of a thread, or its flag is up and a reader will see it.      *)
(***************************************************************************)
Existing == {b \in Pool : b <= poolIndex} \cup live
NoBlockLost == \A b \in Existing \ (used \cup OnList) :
                  \/ Adders(b) # {} \/ \E t \in Threads : b \in Taken(t)
                  \/ Flagged(refs[b]) /\ Readers(b) # {}
=============================================================================
