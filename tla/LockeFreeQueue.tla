-------------------------- MODULE LockeFreeQueue --------------------------
(***************************************************************************)
(* inc/LockeFreeQueue.h: a linked queue that any number of threads append  *)
(* to without a lock, and one thread empties with swap().  emplace_back()  *)
(* exchanges tail_ and links its predecessor in a second step, so between  *)
(* the two the list is cut; swap() deletes nodes while that happens.       *)
(*                                                                         *)
(* A node is named by the element it holds: an address is never compared,  *)
(* so reusing one changes nothing.  tail_ is exchanged with acq_rel order  *)
(* and next is stored with release and loaded with acquire order, so each  *)
(* of them is a step of its own and interleaving the steps is exact.       *)
(***************************************************************************)
EXTENDS Integers, Sequences, FiniteSets

CONSTANTS Producers,   \* the threads that call emplace_back()
          MaxNodes     \* bound: elements appended in a behaviour

NodesAssumption == MaxNodes \in Nat

VARIABLES head, tail,     \* head_ and tail_
          next,           \* next[n]: the atomic pointer of node n
          live,           \* the nodes allocated and not deleted
          ppc, new, prev, \* a producer's place in emplace_back(), newNode and prev
          cpc, cur, nxt,  \* the consumer's place in swap() or the destructor, cur and next
          order,          \* history: the nodes in the order tail_ was exchanged
          out             \* history: the elements swap() appended to its list

vars == <<head, tail, next, live, ppc, new, prev, cpc, cur, nxt, order, out>>
producerVars == <<ppc, new, prev>>
consumerVars == <<cpc, cur, nxt, out>>

Dummy == 0                 \* the node the constructor allocates
Null == -1
Elements == 1 .. MaxNodes
Nodes == Elements \cup {Dummy}
Made == Cardinality({n \in Elements : n \in live \/ \E i \in DOMAIN out : out[i] = n})

Init == /\ head = Dummy /\ tail = Dummy
        /\ next = [n \in Nodes |-> Null]
        /\ live = {Dummy}
        /\ ppc = [p \in Producers |-> "idle"]
        /\ new = [p \in Producers |-> Null] /\ prev = [p \in Producers |-> Null]
        /\ cpc = "idle" /\ cur = Null /\ nxt = Null
        /\ order = << >> /\ out = << >>
-----------------------------------------------------------------------------
(***************************************************************************)
(* Faulty variants of the steps below, used to see that the properties     *)
(* notice them: a link that is never stored, a swap() that forgets to move *)
(* head_.                                                                  *)
(***************************************************************************)
LinkForgotten(p) == /\ ppc[p] = "link"
                    /\ ppc' = [ppc EXCEPT ![p] = "idle"]
                    /\ UNCHANGED <<head, tail, next, live, new, prev, consumerVars, order>>

SwapKeepsHead == /\ cpc = "loop" /\ nxt = Null
                 /\ cpc' = "idle"
                 /\ UNCHANGED <<head, tail, next, live, producerVars, cur, nxt, order, out>>

-----------------------------------------------------------------------------
(***************************************************************************)
(* emplace_back(): allocate the node, exchange tail_, link the node that   *)
(* was last.  Storing to prev->next of a deleted node is undefined.        *)
(***************************************************************************)
Allocate(p) == /\ ppc[p] = "idle" /\ cpc \notin {"destroy", "destroyed"}
               /\ Made < MaxNodes
               /\ LET n == Made + 1
                  IN  /\ new' = [new EXCEPT ![p] = n]
                      /\ live' = live \cup {n}
               /\ prev' = [prev EXCEPT ![p] = Null]
               /\ ppc' = [ppc EXCEPT ![p] = "exchange"]
               /\ UNCHANGED <<head, tail, next, consumerVars, order>>

Exchange(p) == /\ ppc[p] = "exchange"
               /\ prev' = [prev EXCEPT ![p] = tail]
               /\ tail' = new[p]
               /\ order' = Append(order, new[p])
               /\ ppc' = [ppc EXCEPT ![p] = "link"]
               /\ UNCHANGED <<head, next, live, new, consumerVars>>

Link(p) == /\ ppc[p] = "link"
           /\ next' = [next EXCEPT ![prev[p]] = new[p]]
           /\ ppc' = [ppc EXCEPT ![p] = "idle"]
           /\ UNCHANGED <<head, tail, live, new, prev, consumerVars, order>>
-----------------------------------------------------------------------------
(***************************************************************************)
(* swap(): follow the links from head_, deleting each node left behind and *)
(* moving the element of each node reached; the last node stays as the new *)
(* head_, its element moved from.                                          *)
(***************************************************************************)
SwapBegin == /\ cpc = "idle"
             /\ cur' = head /\ nxt' = next[head]
             /\ cpc' = "loop"
             /\ UNCHANGED <<head, tail, next, live, producerVars, order, out>>

SwapAdvance == /\ cpc = "loop" /\ nxt # Null
               /\ live' = live \ {cur}
               /\ cur' = nxt
               /\ out' = Append(out, nxt)
               /\ cpc' = "load"
               /\ UNCHANGED <<head, tail, next, producerVars, nxt, order>>

SwapLoad == /\ cpc = "load"
            /\ nxt' = next[cur]
            /\ cpc' = "loop"
            /\ UNCHANGED <<head, tail, next, live, producerVars, cur, order, out>>

SwapEnd == /\ cpc = "loop" /\ nxt = Null
           /\ head' = cur
           /\ cpc' = "idle"
           /\ UNCHANGED <<tail, next, live, producerVars, cur, nxt, order, out>>

(***************************************************************************)
(* ~LockeFreeQueue(), once the producers are done: delete from head_ on.   *)
(***************************************************************************)
Destroy == /\ cpc = "idle" /\ \A p \in Producers : ppc[p] = "idle"
           /\ cur' = head
           /\ cpc' = "destroy"
           /\ UNCHANGED <<head, tail, next, live, producerVars, nxt, order, out>>

DestroyNode == /\ cpc = "destroy"
               /\ live' = live \ {cur}
               /\ cur' = next[cur]
               /\ cpc' = IF next[cur] = Null THEN "destroyed" ELSE "destroy"
               /\ UNCHANGED <<head, tail, next, producerVars, nxt, order, out>>

Destroyed == cpc = "destroyed" /\ UNCHANGED vars
-----------------------------------------------------------------------------
Swap == SwapBegin \/ SwapAdvance \/ SwapLoad \/ SwapEnd

Next == \/ \E p \in Producers : Allocate(p) \/ Exchange(p) \/ Link(p)
        \/ Swap \/ Destroy \/ DestroyNode \/ Destroyed

Spec == Init /\ [][Next]_vars

(***************************************************************************)
(* A producer that entered emplace_back() keeps running, and the consumer  *)
(* keeps calling swap().  Nothing makes the queue be destroyed.            *)
(***************************************************************************)
FairSpec == /\ Spec
            /\ \A p \in Producers : WF_vars(Exchange(p)) /\ WF_vars(Link(p))
            /\ WF_vars(Swap)
-----------------------------------------------------------------------------
TypeOK == /\ head \in Nodes /\ tail \in Nodes /\ live \in SUBSET Nodes
          /\ next \in [Nodes -> Nodes \cup {Null}]
          /\ ppc \in [Producers -> {"idle", "exchange", "link"}]
          /\ new \in [Producers -> Nodes \cup {Null}] /\ prev \in [Producers -> Nodes \cup {Null}]
          /\ cpc \in {"idle", "loop", "load", "destroy", "destroyed"}
          /\ cur \in Nodes \cup {Null} /\ nxt \in Nodes \cup {Null}
          /\ order \in Seq(Elements) /\ out \in Seq(Elements)

(***************************************************************************)
(* No thread touches a deleted node: not the producer that links a         *)
(* predecessor swap() may have reached, not the next swap() that starts at *)
(* head_, not the destructor.                                              *)
(***************************************************************************)
NoUseAfterDelete == /\ \A p \in Producers : ppc[p] = "link" => prev[p] \in live
                    /\ cpc = "idle" => head \in live
                    /\ cpc \in {"loop", "load", "destroy"} => cur \in live
                    /\ cpc # "destroyed" => tail \in live

(***************************************************************************)
(* The list is only ever cut where a producer is about to link: following  *)
(* the order in which tail_ was exchanged, every node that is still there  *)
(* points to its successor or has a producer on its way to do that.        *)
(***************************************************************************)
OnlyCutByLinkers ==
  \A i \in 1 .. Len(order) :
    LET before == IF i = 1 THEN Dummy ELSE order[i - 1]
    IN  \/ next[before] = order[i]
        \/ /\ next[before] = Null
           /\ Cardinality({p \in Producers : ppc[p] = "link" /\ prev[p] = before /\ new[p] = order[i]}) = 1

(***************************************************************************)
(* swap() moves every element once, in the order tail_ was exchanged.      *)
(***************************************************************************)
TakenInOrder == Len(out) <= Len(order) /\ out = SubSeq(order, 1, Len(out))

(***************************************************************************)
(* The destructor leaves nothing: swap() and it together delete all nodes. *)
(***************************************************************************)
NoLeak == cpc = "destroyed" => live = {}

(***************************************************************************)
(* An element whose producer has entered emplace_back() is moved to a list *)
(* eventually, however its predecessors' producers are delayed, unless the *)
(* queue is destroyed.                                                     *)
(***************************************************************************)
EventuallyTaken == \A e \in Elements : e \in live ~> (\E i \in DOMAIN out : out[i] = e) \/ cpc = "destroy"
=============================================================================
