------------------------- MODULE MCConcurrentCalls -------------------------
(***************************************************************************)
(* How threads come to their sub-queues in moodycamel::ConcurrentQueue,    *)
(* side by side: the hash table of implicit producers, the choice of a     *)
(* producer by consumers with and without tokens, and the                  *)
(* BlockingConcurrentQueue with its semaphore.  A behaviour runs one of    *)
(* them; the others stay as they are at the start.                         *)
(*                                                                         *)
(* Two threads' ids collide at the end of the table, and the third's is    *)
(* where their probing comes round to.                                     *)
(***************************************************************************)
EXTENDS Naturals

VARIABLES part,
          table, hashCount, resizing, inactive, thread, mine, exits,
          list, producerCount, size, ids, offset, token, con, full, served,
          inner, enqueued, toSignal, taken, blkCount, kernel, pc, call, posts, given, granted

tableVars == <<table, hashCount, resizing, inactive, thread, mine, exits>>
tokenVars == <<list, producerCount, size, ids, offset, token, con, full, served>>
blockingVars == <<inner, enqueued, toSignal, taken, blkCount, kernel, pc, call, posts, given,
                  granted>>

Table == INSTANCE ImplicitHash WITH
    Threads <- {"t1", "t2", "t3"},
    Hash <- [t \in {"t1", "t2", "t3"} |-> IF t = "t3" THEN 4 ELSE 7], InitialSize <- 2,
    MaxTables <- 3, MaxProducers <- 3, MaxExits <- 0, MayFail <- FALSE, count <- hashCount
TableFails == INSTANCE ImplicitHash WITH
    Threads <- {"t1", "t2"}, Hash <- [t \in {"t1", "t2"} |-> 7], InitialSize <- 4, MaxTables <- 2,
    MaxProducers <- 3, MaxExits <- 3, MayFail <- TRUE, count <- hashCount
Plain == INSTANCE ConsumerTokens WITH
    Consumers <- {"c1"}, Calls <- {<<"any", 1>>, <<"inorder", 2>>}, QUOTA <- 2, Width <- 2,
    MaxProducers <- 3, MaxSize <- 2
Mixed == INSTANCE ConsumerTokens WITH
    Consumers <- {"c1"}, Calls <- {<<"token", 1>>, <<"tokenBulk", 3>>}, QUOTA <- 2, Width <- 2,
    MaxProducers <- 3, MaxSize <- 1
Fair == INSTANCE ConsumerTokens WITH
    Consumers <- {"c1"}, Calls <- {<<"token", 1>>}, QUOTA <- 2, Width <- 2, MaxProducers <- 3,
    MaxSize <- 1
Blocking == INSTANCE BlockingConcurrentQueue WITH
    Producers <- {"p1"}, Consumers <- {"c1", "c2"}, MaxItems <- 2, Batch <- 2, count <- blkCount

ASSUME PartsAssumption == /\ Table!HashAssumption /\ TableFails!HashAssumption
                          /\ Plain!TokenAssumption /\ Mixed!TokenAssumption /\ Fair!TokenAssumption
                          /\ Blocking!QueueAssumption /\ Blocking!sema!SemaphoreAssumption

Init == /\ part \in {"hash", "hash fails", "plain", "mixed", "fair", "blocking"}
        /\ IF part = "hash fails" THEN TableFails!Init ELSE Table!Init
        /\ Plain!Init /\ Blocking!Init

vars == <<part, tableVars, tokenVars, blockingVars>>

ImplicitHash == /\ \/ part = "hash" /\ Table!Next
                   \/ part = "hash fails" /\ TableFails!Next
                /\ UNCHANGED <<part, tokenVars, blockingVars>>
ConsumerTokens == /\ \/ part = "plain" /\ Plain!Next
                     \/ part = "mixed" /\ Mixed!Next
                     \/ part = "fair" /\ Fair!Next
                  /\ UNCHANGED <<part, tableVars, blockingVars>>
BlockingQueue == part = "blocking" /\ Blocking!Next /\ UNCHANGED <<part, tableVars, tokenVars>>

(***************************************************************************)
(* No more items to come, and consumers that wait for one.                 *)
(***************************************************************************)
Rest == part = "blocking" /\ UNCHANGED vars

Next == ImplicitHash \/ ConsumerTokens \/ BlockingQueue \/ Rest

(***************************************************************************)
(* Threads inside a call keep running, the consumer with a token polls     *)
(* without end, as app9's main loop does at every wake-up, and the inner   *)
(* queue hands out an item that stays in it after finitely many attempts.  *)
(***************************************************************************)
Fairness ==
    /\ \A t \in {"t1", "t2"} : WF_tableVars(part = "hash fails" /\ TableFails!Step(t) /\ UNCHANGED exits)
    /\ WF_tokenVars(part = "fair" /\ (Fair!Begin("c1") \/ Fair!Step("c1")))
    /\ WF_blockingVars(part = "blocking" /\ Blocking!SignalEnqueued("p1"))
    /\ \A c \in {"c1", "c2"} : /\ WF_blockingVars(part = "blocking" /\ Blocking!DequeueInner(c))
                                /\ WF_blockingVars(part = "blocking" /\ Blocking!ReturnItems(c))
    /\ \A t \in {"p1", "c1", "c2"} : WF_blockingVars(part = "blocking" /\ Blocking!SemaStep(t))

Spec == Init /\ [][Next]_vars /\ Fairness
-----------------------------------------------------------------------------
(***************************************************************************)
(* The hash table: no two threads have the same producer, probing always   *)
(* finds a free slot in whatever table a thread still uses, and a thread   *)
(* gets the same producer from each call until it exits, over all moves to *)
(* bigger tables and failures to make one.                                 *)
(***************************************************************************)
HashRight == /\ [](part = "hash" => Table!OwnProducer /\ Table!FreeSlot)
             /\ [](part = "hash fails" => TableFails!OwnProducer /\ TableFails!FreeSlot)
             /\ [][/\ part = "hash" => Table!KeepsProducer
                   /\ part = "hash fails" => TableFails!KeepsProducer]_tableVars

(***************************************************************************)
(* A dequeue that nobody disturbs does not report empty while a producer   *)
(* had elements all the time, although producers join and tokens rotate;   *)
(* and between calls no token has taken its quota from one producer        *)
(* without a rotation that it will see.  The latter in "fair" only, where  *)
(* tokens use single calls: bulk calls may carry the count past the quota. *)
(***************************************************************************)
TokensRight == /\ part = "plain" => Plain!NoFalseEmpty
               /\ part = "mixed" => Mixed!NoFalseEmpty
               /\ part = "fair" => Fair!NoFalseEmpty /\ Fair!QuotaRotates

(***************************************************************************)
(* The semaphore and the queue around it: no unit is taken twice, made up  *)
(* or lost, the kernel has one for each waiter a signal has answered and   *)
(* no other, waitMany() keeps its contract, a wait fails only when units   *)
(* are short, and units and items agree.                                   *)
(***************************************************************************)
UnitsRight == /\ [](part = "blocking" => /\ Blocking!sema!TypeOK /\ Blocking!sema!CountIsAccurate
                                        /\ Blocking!sema!KernelMatches /\ Blocking!sema!BatchContract
                                        /\ Blocking!UnitsMatchItems /\ Blocking!SizeNeverOver)
              /\ Blocking!sema!FailsOnlyShort

(***************************************************************************)
(* Calls return: of a thread that waits for another to make the bigger     *)
(* table, although that one may fail; of a consumer with its units; nobody *)
(* sleeps over items; and no producer starves where consumers rotate.      *)
(***************************************************************************)
CallsReturn == /\ part = "hash fails" => TableFails!CallsReturn
               /\ part = "fair" => Fair!EveryoneServed
               /\ Blocking!DequeueReturns /\ Blocking!NobodySleepsOverItems
=============================================================================
