--------------------------- MODULE PipeDescriptors ---------------------------
(***************************************************************************)
(* inc/PipedEvent.h: the descriptors of PipedEvents from pipe() to         *)
(* close(), with Fire() and Consume() in between.  Descriptor 0 stands for *)
(* "closed" in _fds; the kernel gives the lowest free numbers, and 0 is    *)
(* free in a process that was started without standard input.  PipedEvent  *)
(* has the interleavings of Fire() and Consume(); here a call is one step. *)
(***************************************************************************)
EXTENDS Integers, FiniteSets

CONSTANTS Events,
          Standard,     \* the standard descriptors that are open at the start
          MaxFd         \* bound: the highest descriptor

StandardAssumption == Standard \subseteq 0 .. 2 /\ MaxFd \in Nat

VARIABLES owner,    \* owner[d]: "free", "standard", or the event and the end of its pipe
          fds,      \* fds[e]: _fds
          fired,    \* fired[e]: _fired
          bytes,    \* bytes[e]: the bytes in its pipe
          life,     \* life[e]: "none", "alive", "destroyed"
          asked,    \* asked[e]: Fire() returned and Consume() was not called since
          stray     \* whether a byte was written to a descriptor that is not the event's

vars == <<owner, fds, fired, bytes, life, asked, stray>>

Fds == 0 .. MaxFd
End(e, i) == <<e, i>>                \* 0 the source, 1 the sink
IsOpen(e, i) == \E d \in Fds : owner[d] = End(e, i)
Free == {d \in Fds : owner[d] = <<"free">>}
Lowest(S) == CHOOSE d \in S : \A x \in S : d <= x

Init == /\ owner = [d \in Fds |-> IF d \in Standard THEN <<"standard">> ELSE <<"free">>]
        /\ fds = [e \in Events |-> [i \in 0 .. 1 |-> -1]] /\ fired = [e \in Events |-> FALSE]
        /\ bytes = [e \in Events |-> 0] /\ life = [e \in Events |-> "none"]
        /\ asked = [e \in Events |-> FALSE] /\ stray = FALSE
-----------------------------------------------------------------------------
Construct(e) == /\ life[e] = "none" /\ Cardinality(Free) > 1
                /\ LET r == Lowest(Free)
                       w == Lowest(Free \ {r})
                   IN  /\ owner' = [owner EXCEPT ![r] = End(e, 0), ![w] = End(e, 1)]
                       /\ fds' = [fds EXCEPT ![e] = [i \in 0 .. 1 |-> IF i = 0 THEN r ELSE w]]
                /\ life' = [life EXCEPT ![e] = "alive"]
                /\ UNCHANGED <<fired, bytes, asked, stray>>

Throw(e) == /\ life[e] = "none" /\ Cardinality(Free) < 2
            /\ life' = [life EXCEPT ![e] = "destroyed"]
            /\ UNCHANGED <<owner, fds, fired, bytes, asked, stray>>

Fire(e) == /\ life[e] = "alive"
           /\ asked' = [asked EXCEPT ![e] = TRUE]
           /\ IF fds[e][0] # 0 /\ ~fired[e]
              THEN /\ fired' = [fired EXCEPT ![e] = TRUE]
                   /\ LET mine == owner[fds[e][1]] = End(e, 1)
                      IN  bytes' = [bytes EXCEPT ![e] = IF mine THEN @ + 1 ELSE @] /\ stray' = (stray \/ ~mine)
              ELSE UNCHANGED <<fired, bytes, stray>>
           /\ UNCHANGED <<owner, fds, life>>

(***************************************************************************)
(* read() waits while the pipe is empty and its sink is open.              *)
(***************************************************************************)
Consume(e) ==
    /\ life[e] = "alive"
    /\ IF fds[e][0] # 0 /\ fired[e]
       THEN /\ bytes[e] > 0 \/ ~IsOpen(e, 1)
            /\ bytes' = [bytes EXCEPT ![e] = IF @ = 0 THEN 0 ELSE @ - 1]
            /\ fired' = [fired EXCEPT ![e] = FALSE]
       ELSE UNCHANGED <<bytes, fired>>
    /\ asked' = [asked EXCEPT ![e] = FALSE]
    /\ UNCHANGED <<owner, fds, life, stray>>

(***************************************************************************)
(* CloseSource(), CloseSink(), and the destructor, which calls both.       *)
(***************************************************************************)
Closed(e, ends) ==
    LET gone == {fds[e][i] : i \in {i \in ends : fds[e][i] # 0}}
    IN  /\ owner' = [d \in Fds |-> IF d \in gone THEN <<"free">> ELSE owner[d]]
        /\ fds' = [fds EXCEPT ![e] = [i \in 0 .. 1 |-> IF i \in ends THEN 0 ELSE fds[e][i]]]

Close(e, i) == /\ life[e] = "alive"
               /\ Closed(e, {i})
               /\ UNCHANGED <<fired, bytes, life, asked, stray>>

Destroy(e) == /\ life[e] = "alive" /\ Closed(e, {0, 1})
              /\ life' = [life EXCEPT ![e] = "destroyed"]
              /\ UNCHANGED <<fired, bytes, asked, stray>>

Next == \E e \in Events : \/ Construct(e) \/ Throw(e) \/ Fire(e) \/ Consume(e) \/ Destroy(e)
                          \/ \E i \in {0, 1} : Close(e, i)

Spec == Init /\ [][Next]_vars
-----------------------------------------------------------------------------
(***************************************************************************)
(* After Fire() and before Consume() an event whose pipe is open has its   *)
(* byte, whatever events come and go and reuse descriptors.                *)
(***************************************************************************)
FireSignals == \A e \in Events : asked[e] /\ IsOpen(e, 0) /\ IsOpen(e, 1) => bytes[e] = 1

(***************************************************************************)
(* The destructor leaves no descriptor of the event open.                  *)
(***************************************************************************)
NoneLeaks == \A e \in Events : life[e] = "destroyed" => ~IsOpen(e, 0) /\ ~IsOpen(e, 1)
=============================================================================
