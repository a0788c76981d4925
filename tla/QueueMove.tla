----------------------------- MODULE QueueMove ------------------------------
(***************************************************************************)
(* concurrentqueue/concurrentqueue.h: who points to whom when              *)
(* ConcurrentQueues and ProducerTokens are created, moved, swapped and     *)
(* destroyed: queues and their producers, producers and their tokens,      *)
(* queues and the chain of hash tables that ends with the table inside the *)
(* queue object.  None of this may overlap with another use of the queue,  *)
(* so an operation is one step.                                            *)
(*                                                                         *)
(* HooksOne is a faulty variant of Hooked.                                 *)
(***************************************************************************)
EXTENDS Naturals, Sequences, FiniteSets, SequencesExt

CONSTANTS Queues, Tokens,   \* the objects
          MaxProducers,     \* bound: producers
          MaxTables         \* bound: hash tables on the heap

VARIABLES alive,      \* the queue objects that exist
          list,       \* list[q]: the producers from producerListTail on
          parent,     \* parent[p]
          holder,     \* holder[p]: the token that p->token points to, "none" for none
          inactive,   \* inactive[p]
          explicit,   \* isExplicit of the producers
          producer,   \* producer[k]: 0 if token k is not valid, Absent if it does not exist
          hash,       \* hash[q]: implicitProducerHash
          prev,       \* prev[h], for the tables on the heap
          entries     \* entries[h]: the producers a table has

vars == <<alive, list, parent, holder, inactive, explicit, producer, hash, prev, entries>>

Producers == 1 .. MaxProducers
Absent == MaxProducers + 1
None == "none"
NoTable == <<>>
Initial(q) == <<q>>                     \* the table inside q
Heap == {<<i>> : i \in 1 .. MaxTables}
Made == UNION {Range(list[q]) : q \in alive}

Init == /\ alive = Queues
        /\ list = [q \in Queues |-> <<>>]
        /\ parent = [p \in Producers |-> None] /\ holder = [p \in Producers |-> None]
        /\ inactive = [p \in Producers |-> FALSE] /\ explicit = [p \in Producers |-> FALSE]
        /\ producer = [k \in Tokens |-> Absent]
        /\ hash = [q \in Queues |-> Initial(q)]
        /\ prev = [h \in Heap |-> NoTable]
        /\ entries = [h \in Heap \cup {Initial(q) : q \in Queues} |-> {}]

queues == <<alive, list, parent, explicit, hash, prev, entries>>
-----------------------------------------------------------------------------
(***************************************************************************)
(* recycle_or_create_producer() for a token (ex) or a thread; it may fail. *)
(***************************************************************************)
Recycled(q, ex, p) == /\ p \in Range(list[q]) /\ inactive[p] /\ explicit[p] = ex
                      /\ inactive' = [inactive EXCEPT ![p] = FALSE]
                      /\ UNCHANGED <<list, parent, explicit>>
Created(q, ex, p) == /\ p \in Producers \ Made
                     /\ \A r \in Range(list[q]) : ~(inactive[r] /\ explicit[r] = ex)
                     /\ list' = [list EXCEPT ![q] = <<p>> \o @]
                     /\ parent' = [parent EXCEPT ![p] = q]
                     /\ explicit' = [explicit EXCEPT ![p] = ex] /\ inactive' = [inactive EXCEPT ![p] = FALSE]

NewToken(k, q, p) == /\ producer[k] = Absent /\ q \in alive
                     /\ Recycled(q, TRUE, p) \/ Created(q, TRUE, p)
                     /\ producer' = [producer EXCEPT ![k] = p]
                     /\ holder' = [holder EXCEPT ![p] = k]
                     /\ UNCHANGED <<alive, hash, prev, entries>>

NoMemory(k, q) == /\ producer[k] = Absent /\ q \in alive
                  /\ \A r \in Range(list[q]) : ~(inactive[r] /\ explicit[r])
                  /\ producer' = [producer EXCEPT ![k] = 0]
                  /\ UNCHANGED <<queues, holder, inactive>>

(***************************************************************************)
(* ProducerToken(ProducerToken&&), operator=, which swaps, and the         *)
(* destructor.                                                             *)
(***************************************************************************)
MoveToken(k, m) == /\ producer[k] = Absent /\ producer[m] # Absent
                   /\ producer' = [producer EXCEPT ![k] = producer[m], ![m] = 0]
                   /\ holder' = IF producer[m] = 0 THEN holder ELSE [holder EXCEPT ![producer[m]] = k]
                   /\ UNCHANGED <<queues, inactive>>

SwapTokens(k, m) == /\ Absent \notin {producer[k], producer[m]}
                    /\ producer' = [producer EXCEPT ![k] = producer[m], ![m] = producer[k]]
                    /\ holder' = [p \in Producers |-> IF p = producer[m] THEN k ELSE IF p = producer[k] THEN m ELSE holder[p]]
                    /\ UNCHANGED <<queues, inactive>>

DropToken(k) == /\ producer[k] # Absent
                /\ producer' = [producer EXCEPT ![k] = Absent]
                /\ IF producer[k] = 0 THEN UNCHANGED <<holder, inactive>>
                   ELSE /\ holder' = [holder EXCEPT ![producer[k]] = None]
                        /\ inactive' = [inactive EXCEPT ![producer[k]] = TRUE]
                /\ UNCHANGED queues
-----------------------------------------------------------------------------
(***************************************************************************)
(* A thread enqueues for the first time, in the newest table or a bigger   *)
(* one before it (ImplicitHash has the details).                           *)
(***************************************************************************)
InUse == {h \in Heap : prev[h] # NoTable}
Register(q, p) == /\ q \in alive /\ Created(q, FALSE, p)
                  /\ entries' = [entries EXCEPT ![hash[q]] = @ \cup {p}]
                  /\ UNCHANGED <<alive, holder, producer, hash, prev>>

Grow(q, h) == /\ q \in alive /\ h \in Heap \ InUse
              /\ prev' = [prev EXCEPT ![h] = hash[q]] /\ hash' = [hash EXCEPT ![q] = h]
              /\ UNCHANGED <<alive, list, parent, holder, inactive, explicit, producer, entries>>
-----------------------------------------------------------------------------
(***************************************************************************)
(* swap_implicit_producer_hashes(): the tables inside the objects change   *)
(* their entries, the pointers change places, and whatever led to the      *)
(* other's inner table is hooked to the own one.                           *)
(***************************************************************************)
Chain[h \in Heap \cup {Initial(q) : q \in Queues}, n \in 0 .. MaxTables] ==
    IF h \in Heap /\ n > 0 THEN {h} \cup Chain[prev[h], n - 1] ELSE {h}
Tables(q) == Chain[hash[q], MaxTables]

HookedWith(a, b, both) ==
    /\ hash' = [hash EXCEPT ![a] = IF hash[b] = Initial(b) THEN Initial(a) ELSE hash[b],
                            ![b] = IF hash[a] = Initial(a) THEN Initial(b) ELSE hash[a]]
    /\ prev' = [h \in Heap |-> IF prev[h] = Initial(b) /\ h \in Tables(b) THEN Initial(a)
                               ELSE IF both /\ prev[h] = Initial(a) /\ h \in Tables(a) THEN Initial(b) ELSE prev[h]]
    /\ entries' = [entries EXCEPT ![Initial(a)] = entries[Initial(b)], ![Initial(b)] = entries[Initial(a)]]
HooksOne(a, b) == HookedWith(a, b, FALSE)
Hooked(a, b) == HookedWith(a, b, TRUE)

(***************************************************************************)
(* swap_internal(), also for operator=: all of the state changes places,   *)
(* and the producers get new parents.                                      *)
(***************************************************************************)
Exchanged(a, b) == list' = [list EXCEPT ![a] = list[b], ![b] = list[a]]
Reowned(a, b) == parent' = [p \in Producers |-> IF p \in Range(list[b]) THEN a ELSE IF p \in Range(list[a]) THEN b ELSE parent[p]]

Swap(a, b) == /\ a # b /\ {a, b} \subseteq alive
              /\ Exchanged(a, b) /\ Hooked(a, b) /\ Reowned(a, b)
              /\ UNCHANGED <<alive, holder, inactive, explicit, producer>>

(***************************************************************************)
(* ConcurrentQueue(ConcurrentQueue&&): a new queue a takes all from b,     *)
(* which is left empty.                                                    *)
(***************************************************************************)
Move(a, b) == /\ a \notin alive /\ b \in alive
              /\ alive' = alive \cup {a}
              /\ Exchanged(a, b) /\ Hooked(a, b) /\ Reowned(a, b)
              /\ UNCHANGED <<holder, inactive, explicit, producer>>

Create(q) == /\ q \notin alive
             /\ alive' = alive \cup {q}
             /\ UNCHANGED <<list, parent, holder, inactive, explicit, producer, hash, prev, entries>>

(***************************************************************************)
(* ~ConcurrentQueue(): tells the tokens, and frees producers and tables.   *)
(* A table that is not in the chain is not freed.                          *)
(***************************************************************************)
Destroy(q) ==
    /\ q \in alive
    /\ alive' = alive \ {q}
    /\ producer' = [k \in Tokens |-> IF \E p \in Range(list[q]) : holder[p] = k THEN 0 ELSE producer[k]]
    /\ holder' = [p \in Producers |-> IF p \in Range(list[q]) THEN None ELSE holder[p]]
    /\ parent' = [p \in Producers |-> IF p \in Range(list[q]) THEN None ELSE parent[p]]
    /\ inactive' = [p \in Producers |-> IF p \in Range(list[q]) THEN FALSE ELSE inactive[p]]
    /\ explicit' = [p \in Producers |-> IF p \in Range(list[q]) THEN FALSE ELSE explicit[p]]
    /\ list' = [list EXCEPT ![q] = <<>>] /\ hash' = [hash EXCEPT ![q] = Initial(q)]
    /\ prev' = [h \in Heap |-> IF h \in Tables(q) THEN NoTable ELSE prev[h]]
    /\ entries' = [h \in DOMAIN entries |-> IF h \in Tables(q) \cup {Initial(q)} THEN {} ELSE entries[h]]
-----------------------------------------------------------------------------
Next == \/ \E k \in Tokens : \/ DropToken(k)
                             \/ \E m \in Tokens : MoveToken(k, m) \/ SwapTokens(k, m)
                             \/ \E q \in Queues : NoMemory(k, q) \/ \E p \in Producers : NewToken(k, q, p)
        \/ \E q \in Queues : \/ Create(q) \/ Destroy(q)
                             \/ \E r \in Queues : Swap(q, r) \/ Move(q, r)
                             \/ \E p \in Producers : Register(q, p)
                             \/ \E h \in Heap : Grow(q, h)

Spec == Init /\ [][Next]_vars
-----------------------------------------------------------------------------
(***************************************************************************)
(* "A token is always valid unless memory allocation failed, it was moved, *)
(* or the queue was destroyed": a valid token has an active producer of a  *)
(* queue that exists, which points back to it, and no other token has it.  *)
(***************************************************************************)
TokensValid == /\ \A k \in Tokens : producer[k] \in Producers =>
                     producer[k] \in Made /\ ~inactive[producer[k]] /\ holder[producer[k]] = k
               /\ \A p \in Made : explicit[p] /\ ~inactive[p] => \E k \in Tokens : holder[p] = k /\ producer[k] = p

(***************************************************************************)
(* After any moves each producer's parent is the queue it is in, from      *)
(* whose pools it takes its blocks.                                        *)
(***************************************************************************)
ParentsRight == \A q \in alive : \A p \in Range(list[q]) : parent[p] = q

(***************************************************************************)
(* Each queue's chain of tables ends inside the queue itself, leads only   *)
(* to its own producers, and with the others has all tables: none leaks.   *)
(***************************************************************************)
ChainsRight == /\ \A q \in alive : /\ Initial(q) \in Tables(q)
                                   /\ UNION {entries[h] : h \in Tables(q)} = {p \in Range(list[q]) : ~explicit[p]}
               /\ InUse = Heap \cap UNION {Tables(q) : q \in alive}
=============================================================================
