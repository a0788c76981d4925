-------------------------- MODULE MCConcurrentQueue --------------------------
(***************************************************************************)
(* The parts of moodycamel::ConcurrentQueue that hold its elements and     *)
(* objects, side by side: the lists of MCConcurrentLists, the counters of  *)
(* a sub-queue, its two kinds of producer, with and without failures, and  *)
(* the pointers between queues, tokens, producers and hash tables.  A      *)
(* behaviour runs one of them; the others stay as they are at the start.   *)
(***************************************************************************)
EXTENDS MCConcurrentLists

CONSTANTS q1, q2      \* two queues

VARIABLES countTail, countHead, opt, over, countCon, dequeues,
          exTail, exHead, exProd, exTailBlock, exNext, exElem, empty, index, slotsUsed, prFront,
          prSize, given, halfWay, exCon,
          imTail, imHead, imProd, imTailBlock, imElem, dequeued, free, entry, header, imCon,
          alive, objList, parent, holder, objInactive, explicit, producer, hash, prev, entries

countersVars == <<countTail, countHead, opt, over, countCon, dequeues>>
explicitVars == <<exTail, exHead, exProd, exTailBlock, exNext, exElem, empty, index, slotsUsed,
                  prFront, prSize, given, halfWay, exCon>>
implicitVars == <<imTail, imHead, imProd, imTailBlock, imElem, dequeued, free, entry, header, imCon>>
objectsVars == <<alive, objList, parent, holder, objInactive, explicit, producer, hash, prev,
                 entries>>

Counters == INSTANCE SubQueue WITH
    Consumers <- {"c1", "c2", "c3"}, Width <- 4, Start <- 14, MaxBulk <- 2, MaxEnqueue <- 3,
    MaxDequeue <- 3, tail <- countTail, head <- countHead, con <- countCon
Explicit == INSTANCE ExplicitProducer WITH
    Consumers <- {"c1", "c2"}, Width <- 5, BLOCK_SIZE <- 2, IndexSize <- 2, Start <- 28,
    MaxBulk <- 3, MaxEnqueue <- 6, MAX_SUBQUEUE_SIZE <- 31, MaxBlocks <- 5, Faults <- {},
    tail <- exTail, head <- exHead, prod <- exProd, tailBlock <- exTailBlock, next <- exNext,
    elem <- exElem, con <- exCon
ExplicitFails == INSTANCE ExplicitProducer WITH
    Consumers <- {"c1", "c2"}, Width <- 5, BLOCK_SIZE <- 2, IndexSize <- 2, Start <- 0,
    MaxBulk <- 3, MaxEnqueue <- 6, MAX_SUBQUEUE_SIZE <- 6, MaxBlocks <- 4, Faults <- {"fail"},
    tail <- exTail, head <- exHead, prod <- exProd, tailBlock <- exTailBlock, next <- exNext,
    elem <- exElem, con <- exCon
ExplicitThrows == INSTANCE ExplicitProducer WITH
    Consumers <- {"c1"}, Width <- 5, BLOCK_SIZE <- 2, IndexSize <- 2, Start <- 0, MaxBulk <- 3,
    MaxEnqueue <- 6, MAX_SUBQUEUE_SIZE <- 31, MaxBlocks <- 4, Faults <- {"fail", "throw"},
    tail <- exTail, head <- exHead, prod <- exProd, tailBlock <- exTailBlock, next <- exNext,
    elem <- exElem, con <- exCon
Implicit == INSTANCE ImplicitProducer WITH
    Consumers <- {"c1", "c2"}, Width <- 5, BLOCK_SIZE <- 2, IndexSize <- 2, Start <- 28,
    MaxBulk <- 3, MaxEnqueue <- 5, MAX_SUBQUEUE_SIZE <- 31, MaxBlocks <- 3, Faults <- {},
    tail <- imTail, head <- imHead, prod <- imProd, tailBlock <- imTailBlock, elem <- imElem,
    con <- imCon
ImplicitGrows == INSTANCE ImplicitProducer WITH
    Consumers <- {"c1"}, Width <- 5, BLOCK_SIZE <- 2, IndexSize <- 2, Start <- 28, MaxBulk <- 3,
    MaxEnqueue <- 7, MAX_SUBQUEUE_SIZE <- 31, MaxBlocks <- 3, Faults <- {}, tail <- imTail,
    head <- imHead, prod <- imProd, tailBlock <- imTailBlock, elem <- imElem, con <- imCon
ImplicitFails == INSTANCE ImplicitProducer WITH
    Consumers <- {"c1"}, Width <- 5, BLOCK_SIZE <- 2, IndexSize <- 2, Start <- 0, MaxBulk <- 3,
    MaxEnqueue <- 6, MAX_SUBQUEUE_SIZE <- 4, MaxBlocks <- 3, Faults <- {"fail", "throw"},
    tail <- imTail, head <- imHead, prod <- imProd, tailBlock <- imTailBlock, elem <- imElem,
    con <- imCon
Objects == INSTANCE QueueMove WITH
    Queues <- {q1, q2}, Tokens <- {"k1", "k2"}, MaxProducers <- 3, MaxTables <- 2, list <- objList,
    inactive <- objInactive

ASSUME PartsAssumption ==
    /\ Counters!SubQueueAssumption /\ Counters!Grants!GrantAssumption
    /\ Explicit!GrantAssumption /\ Explicit!BlockAssumption
    /\ ExplicitFails!BlockAssumption /\ ExplicitThrows!BlockAssumption
    /\ Implicit!GrantAssumption /\ Implicit!BlockAssumption /\ ImplicitGrows!BlockAssumption
    /\ ImplicitFails!BlockAssumption

Init == /\ part \in {"pool", "counters", "explicit", "explicit fails", "explicit throws",
                     "implicit", "implicit grows", "implicit fails", "objects", "exits"}
        /\ ListsInit /\ Counters!Init /\ Objects!Init
        /\ part # "pool" => recycle
        /\ CASE part = "explicit fails" -> ExplicitFails!ExplicitInit
             [] part = "explicit throws" -> ExplicitThrows!ExplicitInit
             [] OTHER -> Explicit!ExplicitInit
        /\ CASE part = "implicit grows" -> ImplicitGrows!ImplicitInit
             [] part = "implicit fails" -> ImplicitFails!ImplicitInit
             [] OTHER -> Implicit!ImplicitInit

vars == <<listsVars, countersVars, explicitVars, implicitVars, objectsVars>>

Lists == ListsNext /\ UNCHANGED <<countersVars, explicitVars, implicitVars, objectsVars>>
SubQueue == part = "counters" /\ Counters!Next
            /\ UNCHANGED <<listsVars, explicitVars, implicitVars, objectsVars>>
ExplicitProducer == /\ \/ part = "explicit" /\ Explicit!ExplicitNext
                       \/ part = "explicit fails" /\ ExplicitFails!IndexIntact /\ ExplicitFails!ExplicitNext
                       \/ part = "explicit throws" /\ ExplicitThrows!IndexIntact /\ ExplicitThrows!ExplicitNext
                    /\ UNCHANGED <<listsVars, countersVars, implicitVars, objectsVars>>
ImplicitProducer == /\ \/ part = "implicit" /\ Implicit!ImplicitNext
                       \/ part = "implicit grows" /\ ImplicitGrows!ImplicitNext
                       \/ part = "implicit fails" /\ ImplicitFails!ImplicitNext
                    /\ UNCHANGED <<listsVars, countersVars, explicitVars, objectsVars>>
QueueMove == part = "objects" /\ Objects!Next
             /\ UNCHANGED <<listsVars, countersVars, explicitVars, implicitVars>>

Next == Lists \/ SubQueue \/ ExplicitProducer \/ ImplicitProducer \/ QueueMove

Spec == Init /\ [][Next]_vars
-----------------------------------------------------------------------------
(***************************************************************************)
(* Consumers that claim first and give back afterwards never get past the  *)
(* tail, the counters stay exact, also where they wrap, and they implement *)
(* what the producers build on: every index is granted once, in order.     *)
(***************************************************************************)
CountersRight == /\ [](part = "counters" => Counters!NeverPastTail /\ Counters!CountersExact)
                 /\ Counters!ImplementsGrants

(***************************************************************************)
(* ExplicitProducer: a consumer finds its element although the producer    *)
(* extends, overwrites and replaces the block index meanwhile, and the     *)
(* destructor destroys what is in the queue and nothing else.              *)
(*                                                                         *)
(* With failures two exceptions have to be made.  A bulk enqueue that      *)
(* fails half way keeps the blocks it inserted, but does not count them;   *)
(* lookups stay right until the blocks are more than the index has entries *)
(* for.  From then on, or if a call took blocks ahead, replaced the index  *)
(* and failed, IndexIntact is false and lookups may go wrong:              *)
(* ExplicitHalfWay.cfg shows it, and a behaviour is not followed further   *)
(* here.  The destructor may be wrong already after any call that failed   *)
(* half way, and after a throwing constructor (a block looks full that     *)
(* holds nothing): it is claimed without those.                            *)
(***************************************************************************)
ExplicitRight == /\ part = "explicit" => Explicit!ExplicitTypeOK /\ Explicit!LookupRight /\ Explicit!DestroysElements
                 /\ part = "explicit fails" => /\ ExplicitFails!IndexIntact => ExplicitFails!LookupRight
                                               /\ halfWay = {} => ExplicitFails!DestroysElements
                 /\ part = "explicit throws" /\ ExplicitThrows!IndexIntact => ExplicitThrows!LookupRight

(***************************************************************************)
(* ImplicitProducer: the same, although entries are reused and a failed    *)
(* enqueue moves the tail of the index back; the destructor gives back     *)
(* exactly the blocks the producer has; and the size limit holds.          *)
(***************************************************************************)
ImplicitRight == /\ part = "implicit" => Implicit!ImplicitLookupRight /\ Implicit!DestructorRight
                 /\ part = "implicit grows" => ImplicitGrows!ImplicitLookupRight /\ ImplicitGrows!DestructorRight
                 /\ part = "implicit fails" => /\ ImplicitFails!ImplicitLookupRight
                                               /\ ImplicitFails!DestructorRight
                                               /\ ImplicitFails!ImplicitWithinLimit

(***************************************************************************)
(* Objects and what points to them: after any moves, swaps and             *)
(* destructions tokens, parents and chains of hash tables are right.       *)
(***************************************************************************)
OwnersRight == part = "objects" => Objects!TokensValid /\ Objects!ParentsRight /\ Objects!ChainsRight
==============================================================================
