-------------------------- MODULE MCConcurrentLists --------------------------
(***************************************************************************)
(* The two kinds of lists in moodycamel::ConcurrentQueue that any thread   *)
(* may come to at any time: the lock-free free list of blocks, and the     *)
(* lists of listeners for the exit of threads.  A behaviour runs one of    *)
(* them, the one that part names, or neither.                              *)
(***************************************************************************)
EXTENDS Naturals

CONSTANTS PoolThreads, PoolSize, MaxDynamic, MaxCalls, Mask,   \* of BlockPool
          ExitThreads, ExitQueues, PerQueue                    \* of ThreadExit

VARIABLES part,
          recycle, poolIndex, poolHead, poolNext, refs, thr, used, live, calls,
          exitList, chain, exitInactive, made, mutex, thread, queue

poolVars == <<recycle, poolIndex, poolHead, poolNext, refs, thr, used, live, calls>>
exitsVars == <<exitList, chain, exitInactive, made, mutex, thread, queue>>
listsVars == <<part, poolVars, exitsVars>>

Pool == INSTANCE BlockPool WITH
    Threads <- PoolThreads, Recycle <- BOOLEAN, head <- poolHead, next <- poolNext
Exits == INSTANCE ThreadExit WITH
    Threads <- ExitThreads, Queues <- ExitQueues, list <- exitList, inactive <- exitInactive

ASSUME ListsAssumption == Pool!PoolAssumption /\ Exits!ExitAssumption

ListsInit == Pool!Init /\ Exits!Init

BlockPool == part = "pool" /\ Pool!Next /\ UNCHANGED <<part, exitsVars>>
ThreadExit == part = "exits" /\ Exits!Next /\ UNCHANGED <<part, poolVars>>

ListsNext == BlockPool \/ ThreadExit

ListsSpec == ListsInit /\ [][ListsNext]_listsVars
-----------------------------------------------------------------------------
(***************************************************************************)
(* The free list of blocks: a block has one owner however often it leaves  *)
(* the list and comes back while another thread looks at it, the count of  *)
(* references is exact, and no block is lost.                              *)
(***************************************************************************)
PoolRight == part = "pool" => Pool!TypeOK /\ Pool!OneOwner /\ Pool!RefsExact /\ Pool!NoBlockLost

(***************************************************************************)
(* A thread's exit finds the producers it must tell alive, whoever         *)
(* destroys the queue meanwhile, and its list has them and no others.      *)
(***************************************************************************)
ExitsRight == part = "exits" => Exits!CallbackAlive /\ Exits!ListsExact
==============================================================================
