---------------------------- MODULE ImplicitHash ----------------------------
(***************************************************************************)
(* concurrentqueue/concurrentqueue.h: how a thread without a token gets    *)
(* its ImplicitProducer.  A chain of hash tables maps thread ids to        *)
(* producers; a bigger table is put before the others when the newest gets *)
(* half full, and entries move to it lazily.  A thread that exits makes    *)
(* its slots reusable in every table and its producer inactive, and a      *)
(* later thread, perhaps with the same id, recycles both.                  *)
(*                                                                         *)
(* AllocKeepsFlag and SweepNewest are faulty variants of Allocate and      *)
(* Sweep.                                                                  *)
(***************************************************************************)
EXTENDS Naturals, Sequences, FiniteSets

CONSTANTS Threads,           \* the thread ids
          Hash,              \* Hash[t]: hash_thread_id(t)
          InitialSize,       \* INITIAL_IMPLICIT_PRODUCER_HASH_SIZE
          MaxTables,         \* bound: tables that fit into memory
          MaxProducers,      \* bound: producers that fit into memory
          MaxExits,          \* bound: thread exits
          MayFail            \* whether an allocation that fits may fail too

HashAssumption == /\ Hash \in [Threads -> Nat] /\ InitialSize \in Nat \ {0}
                         /\ MaxTables \in Nat \ {0} /\ MaxProducers \in Nat /\ MaxExits \in Nat
                         /\ MayFail \in BOOLEAN

VARIABLES table,      \* the tables, the newest last: implicitProducerHash points there
          count,      \* implicitProducerHashCount
          resizing,   \* implicitProducerHashResizeInProgress
          inactive,   \* inactive[p], for the producers created so far, the newest last: producerListTail
          thread,     \* thread[t]: where it is and its local variables
          mine,       \* mine[t]: the producer the last call returned to t, 0 if none
          exits       \* the number of exits so far

shared == <<table, count, resizing, inactive>>
vars == <<shared, thread, mine, exits>>

Empty == "invalid_thread_id"
Reusable == "invalid_thread_id2"
NewTable(n) == [size |-> n, key |-> [i \in 0 .. n - 1 |-> Empty], value |-> [i \in 0 .. n - 1 |-> 0]]

Idle == [pc |-> "idle", main |-> 0, h |-> 0, i |-> 0, n |-> 0, p |-> 0]
At(t, l) == thread[t].pc = l
Goto(t, r) == thread' = [thread EXCEPT ![t] = r]
Home(t, h) == Hash[t] % table[h].size
Ahead(t, h) == (thread[t].i + 1) % table[h].size
Key(h, i) == table[h].key[i]
Newest == Len(table)

Init == /\ table = <<NewTable(InitialSize)>> /\ count = 0 /\ resizing = FALSE
        /\ inactive = <<>>
        /\ thread = [t \in Threads |-> Idle] /\ mine = [t \in Threads |-> 0] /\ exits = 0

Write(h, i, k, p) == table' = [table EXCEPT ![h].key[i] = k, ![h].value[i] = p]
Return(t, p) == Goto(t, Idle) /\ mine' = [mine EXCEPT ![t] = p]
-----------------------------------------------------------------------------
(***************************************************************************)
(* get_or_add_implicit_producer(): search the tables from the newest on.   *)
(***************************************************************************)
Call(t) == /\ At(t, "idle")
           /\ Goto(t, [Idle EXCEPT !.pc = "probe", !.main = Newest, !.h = Newest, !.i = Home(t, Newest)])
           /\ UNCHANGED <<shared, mine>>

Probe(t) ==
    LET r == thread[t]
        k == Key(r.h, r.i)
        p == table[r.h].value[r.i]
    IN  /\ At(t, "probe")
        /\ \/ k = t /\ r.h = r.main /\ Return(t, p)
           \/ k = t /\ r.h # r.main /\ Goto(t, [r EXCEPT !.pc = "move", !.h = 0, !.i = Home(t, r.main), !.p = p]) /\ UNCHANGED mine
           \/ k = Empty /\ r.h > 1 /\ Goto(t, [r EXCEPT !.h = r.h - 1, !.i = Home(t, r.h - 1)]) /\ UNCHANGED mine
           \/ k = Empty /\ r.h = 1 /\ Goto(t, [r EXCEPT !.pc = "count", !.h = 0, !.i = 0]) /\ UNCHANGED mine
           \/ k \notin {t, Empty} /\ Goto(t, [r EXCEPT !.i = Ahead(t, r.h)]) /\ UNCHANGED mine
        /\ UNCHANGED shared


(***************************************************************************)
(* Found in an older table: add it to the one that was the newest.         *)
(***************************************************************************)
Move(t) ==
    LET r == thread[t]
    IN  /\ At(t, "move")
        /\ \/ Key(r.main, r.i) \in {Empty, Reusable} /\ Write(r.main, r.i, t, r.p) /\ Return(t, r.p)
           \/ Key(r.main, r.i) \notin {Empty, Reusable} /\ Goto(t, [r EXCEPT !.i = Ahead(t, r.main)]) /\ UNCHANGED <<table, mine>>
        /\ UNCHANGED <<count, resizing, inactive>>

(***************************************************************************)
(* Not found: count the new entry, and make a bigger table if this one is  *)
(* half full and nobody else does so.                                      *)
(***************************************************************************)
Count(t) == /\ At(t, "count")
            /\ count' = count + 1
            /\ Goto(t, [thread[t] EXCEPT !.pc = "resize", !.n = count + 1])
            /\ UNCHANGED <<table, resizing, inactive, mine>>

HalfFull(n, h) == n >= table[h].size \div 2
Size(n) == LET sizes == {table[Newest].size * 2 ^ k : k \in 1 .. n}
           IN  CHOOSE s \in sizes : n < s \div 2 /\ \A z \in sizes : n < z \div 2 => s <= z

TestAndSet(t) == /\ At(t, "resize")
                 /\ LET wins == HalfFull(thread[t].n, thread[t].main) /\ ~resizing
                    IN  /\ resizing' = (resizing \/ wins)
                        /\ Goto(t, [thread[t] EXCEPT !.pc = IF wins THEN "allocate" ELSE "room"])
                 /\ UNCHANGED <<table, count, inactive, mine>>

AllocateWith(t, cleared) ==
    LET r == thread[t]
    IN  /\ At(t, "allocate")
        /\ \/ /\ HalfFull(r.n, Newest) /\ Newest < MaxTables
              /\ table' = Append(table, NewTable(Size(r.n)))
              /\ Goto(t, [r EXCEPT !.pc = "clear", !.main = Newest + 1])
              /\ UNCHANGED <<count, resizing, mine>>
           \/ /\ HalfFull(r.n, Newest) /\ (MayFail \/ Newest = MaxTables)
              /\ count' = count - 1 /\ resizing' = cleared
              /\ Return(t, 0)
              /\ UNCHANGED table
           \/ /\ ~HalfFull(r.n, Newest)
              /\ Goto(t, [r EXCEPT !.pc = "clear", !.main = Newest])
              /\ UNCHANGED <<table, count, resizing, mine>>
        /\ UNCHANGED inactive

AllocKeepsFlag(t) == AllocateWith(t, TRUE)
Allocate(t) == AllocateWith(t, FALSE)

Clear(t) == /\ At(t, "clear")
            /\ resizing' = FALSE
            /\ Goto(t, [thread[t] EXCEPT !.pc = "room"])
            /\ UNCHANGED <<table, count, inactive, mine>>

(***************************************************************************)
(* Less than three quarters full: go on with this table.  Otherwise wait   *)
(* for the thread that is making a bigger one.                             *)
(***************************************************************************)
Room(n, h) == n < table[h].size \div 2 + table[h].size \div 4

Look(t) == /\ At(t, "room")
           /\ Goto(t, IF Room(thread[t].n, thread[t].main)
                      THEN [thread[t] EXCEPT !.pc = "scan", !.p = Len(inactive)]
                      ELSE [thread[t] EXCEPT !.pc = "resize", !.main = Newest])
           /\ UNCHANGED <<shared, mine>>
-----------------------------------------------------------------------------
(***************************************************************************)
(* recycle_or_create_producer(): the first inactive producer, or a new one *)
(* in front of the list.  Threads only add in front, so the list goes from *)
(* the newest producer to the oldest.                                      *)
(***************************************************************************)
Scan(t) == /\ At(t, "scan") /\ thread[t].p > 0
           /\ Goto(t, IF inactive[thread[t].p] THEN [thread[t] EXCEPT !.pc = "catch"] ELSE [thread[t] EXCEPT !.p = @ - 1])
           /\ UNCHANGED <<shared, mine>>

Recycle(t) == /\ At(t, "catch")
              /\ inactive' = [inactive EXCEPT ![thread[t].p] = FALSE]
              /\ Goto(t, IF inactive[thread[t].p] THEN [thread[t] EXCEPT !.pc = "put", !.i = Home(t, thread[t].main)]
                         ELSE [thread[t] EXCEPT !.pc = "scan", !.p = @ - 1])
              /\ UNCHANGED <<table, count, resizing, mine>>

Create(t) == /\ At(t, "scan") /\ thread[t].p = 0
             /\ \/ /\ Len(inactive) < MaxProducers
                   /\ inactive' = Append(inactive, FALSE)
                   /\ Goto(t, [thread[t] EXCEPT !.pc = "put", !.p = Len(inactive) + 1, !.i = Home(t, thread[t].main)])
                   /\ UNCHANGED <<count, mine>>
                \/ /\ MayFail \/ Len(inactive) = MaxProducers
                   /\ count' = count - 1 /\ Return(t, 0)
                   /\ UNCHANGED inactive
             /\ UNCHANGED <<table, resizing>>

(***************************************************************************)
(* The first free slot of the table; a reusable one was counted before.    *)
(***************************************************************************)
Put(t) ==
    LET r == thread[t]
        k == Key(r.main, r.i)
    IN  /\ At(t, "put")
        /\ \/ k \in {Empty, Reusable} /\ Write(r.main, r.i, t, r.p) /\ Return(t, r.p)
              /\ count' = IF k = Reusable THEN count - 1 ELSE count
           \/ k \notin {Empty, Reusable} /\ Goto(t, [r EXCEPT !.i = Ahead(t, r.main)]) /\ UNCHANGED <<table, count, mine>>
        /\ UNCHANGED <<resizing, inactive>>
-----------------------------------------------------------------------------
(***************************************************************************)
(* implicit_producer_thread_exited(), for a thread with a producer: make   *)
(* its slot reusable in every table, then its producer.  The value in the  *)
(* slot, which nobody reads any more, is cleared.                          *)
(***************************************************************************)
Exit(t) == /\ At(t, "idle") /\ mine[t] # 0 /\ exits < MaxExits
           /\ Goto(t, [Idle EXCEPT !.pc = "sweep", !.h = Newest, !.i = Home(t, Newest), !.p = mine[t]])
           /\ mine' = [mine EXCEPT ![t] = 0] /\ exits' = exits + 1
           /\ UNCHANGED shared

SweepTo(t, last) ==
    LET r == thread[t]
        k == Key(r.h, r.i)
        Onward == Goto(t, IF r.h > last THEN [r EXCEPT !.h = r.h - 1, !.i = Home(t, r.h - 1)] ELSE [r EXCEPT !.pc = "leave", !.h = 0, !.i = 0])
    IN  /\ At(t, "sweep")
        /\ \/ k = t /\ table' = [table EXCEPT ![r.h].key[r.i] = Reusable] /\ Onward
           \/ k = Empty /\ Onward /\ UNCHANGED table
           \/ k \notin {t, Empty} /\ Goto(t, [r EXCEPT !.i = Ahead(t, r.h)]) /\ UNCHANGED table
        /\ UNCHANGED <<count, resizing, inactive, mine>>

SweepNewest(t) == SweepTo(t, thread[t].h)
Sweep(t) == SweepTo(t, 1)

Leave(t) == /\ At(t, "leave")
            /\ inactive' = [inactive EXCEPT ![thread[t].p] = TRUE]
            /\ Goto(t, Idle)
            /\ UNCHANGED <<table, count, resizing, mine>>
-----------------------------------------------------------------------------
Step(t) == \/ Probe(t) \/ Move(t) \/ Count(t) \/ TestAndSet(t) \/ Allocate(t) \/ Clear(t) \/ Look(t)
           \/ Scan(t) \/ Recycle(t) \/ Create(t) \/ Put(t) \/ Sweep(t) \/ Leave(t)

Next == \E t \in Threads : Exit(t) \/ ((Call(t) \/ Step(t)) /\ UNCHANGED exits)

Spec == Init /\ [][Next]_vars /\ \A t \in Threads : WF_vars(Step(t) /\ UNCHANGED exits)
-----------------------------------------------------------------------------
(***************************************************************************)
(* No two threads ever have the same producer, which only one thread may   *)
(* use: neither one that is about to be returned, nor one of a thread that *)
(* is on its way out.                                                      *)
(***************************************************************************)
Has(t) == IF mine[t] # 0 THEN mine[t]
          ELSE IF thread[t].pc \in {"put", "sweep", "leave"} THEN thread[t].p ELSE 0
OwnProducer == /\ \A t, u \in Threads : t # u /\ Has(t) # 0 => Has(t) # Has(u)
               /\ \A t \in Threads : Has(t) # 0 => ~inactive[Has(t)]

(***************************************************************************)
(* "Not an infinite loop because at least one slot is free in the hash     *)
(* table", whatever tables the threads are still using.                    *)
(***************************************************************************)
FreeSlot == \A h \in DOMAIN table : \E i \in 0 .. table[h].size - 1 : Key(h, i) = Empty

(***************************************************************************)
(* A thread that has a producer gets the same one from each call until it  *)
(* exits, over all moves to bigger tables: its elements stay in order.     *)
(***************************************************************************)
KeepsProducer == \A t \in Threads : mine[t] # 0 => mine'[t] \in {mine[t], 0} /\ (mine'[t] = 0 => thread'[t].pc = "sweep")
(***************************************************************************)
(* Every call and every exit comes to its end, unless others ask for a     *)
(* bigger table and fail forever: a thread that waits for another to make  *)
(* the table is not left behind when that one fails.                       *)
(***************************************************************************)
CallsReturn == \A t \in Threads : []<>At(t, "idle") \/ []<>(\E u \in Threads \ {t} : At(u, "allocate"))
=============================================================================
