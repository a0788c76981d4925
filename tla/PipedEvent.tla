----------------------------- MODULE PipedEvent -----------------------------
(***************************************************************************)
(* inc/PipedEvent.h: a pipe used as a wake-up signal, and the atomic flag  *)
(* _fired that keeps at most one byte in it.  One thread (the manager's)   *)
(* calls Fire(), another (the main loop) calls Consume(); neither takes a  *)
(* lock, so every access to _fired and every system call is a step of its  *)
(* own.  _fired is only accessed with sequentially consistent order, so    *)
(* interleaving the steps is exact.                                        *)
(*                                                                         *)
(* The module describes a family of PipedEvent objects, one per element of *)
(* Pipes.  The descriptors are open throughout: _fds is only changed by    *)
(* the destructor, after the threads that use the object were joined.      *)
(***************************************************************************)
EXTENDS Integers

CONSTANTS Pipes,         \* the PipedEvent objects
          PipeCapacity   \* bytes the kernel buffers before write() blocks

ASSUME PipeAssumption == PipeCapacity \in Nat \ {0}

VARIABLES fired,   \* fired[p]: the atomic flag _fired
          bytes,   \* bytes[p]: bytes in the pipe, i.e. readable if > 0
          fpc,     \* fpc[p]: where the firing thread is inside Fire()
          cpc      \* cpc[p]: where the consuming thread is inside Consume()

vars == <<fired, bytes, fpc, cpc>>

(***************************************************************************)
(* PipedEvent(): pipe() succeeded (the constructor throws otherwise).      *)
(***************************************************************************)
Init == /\ fired = [p \in Pipes |-> FALSE]
        /\ bytes = [p \in Pipes |-> 0]
        /\ fpc = [p \in Pipes |-> "idle"]
        /\ cpc = [p \in Pipes |-> "idle"]

Readable(p) == bytes[p] > 0

(***************************************************************************)
(* Faulty variants of the steps below, used to see that the properties     *)
(* notice them: Fire() without its check, without its store, or with a     *)
(* write() that fails; Consume() without its reset.                        *)
(***************************************************************************)
FireUnchecked(p) == /\ fpc[p] = "idle"
                    /\ fpc' = [fpc EXCEPT ![p] = "store"]
                    /\ UNCHANGED <<fired, bytes, cpc>>

FireWithoutStore(p) == /\ fpc[p] = "store"
                       /\ fpc' = [fpc EXCEPT ![p] = "write"]
                       /\ UNCHANGED <<fired, bytes, cpc>>

FireWriteFails(p) == /\ fpc[p] = "write"
                     /\ fpc' = [fpc EXCEPT ![p] = "idle"]
                     /\ UNCHANGED <<fired, bytes, cpc>>

ConsumeWithoutReset(p) == /\ cpc[p] = "reset"
                          /\ cpc' = [cpc EXCEPT ![p] = "idle"]
                          /\ UNCHANGED <<fired, bytes, fpc>>

(***************************************************************************)
(* Fire(): load _fired, return if it is set; otherwise set it and write    *)
(* one byte.  write() blocks while the pipe is full.                       *)
(***************************************************************************)
FireCheck(p) == /\ fpc[p] = "idle"
                /\ fpc' = [fpc EXCEPT ![p] = IF fired[p] THEN "idle" ELSE "store"]
                /\ UNCHANGED <<fired, bytes, cpc>>

FireStore(p) == /\ fpc[p] = "store"
                /\ fired' = [fired EXCEPT ![p] = TRUE]
                /\ fpc' = [fpc EXCEPT ![p] = "write"]
                /\ UNCHANGED <<bytes, cpc>>

FireWrite(p) == /\ fpc[p] = "write"
                /\ bytes[p] < PipeCapacity
                /\ bytes' = [bytes EXCEPT ![p] = @ + 1]
                /\ fpc' = [fpc EXCEPT ![p] = "idle"]
                /\ UNCHANGED <<fired, cpc>>

(***************************************************************************)
(* Consume(): load _fired, return if it is clear; otherwise read one byte, *)
(* blocking while there is none, and clear the flag.                       *)
(***************************************************************************)
ConsumeCheck(p) == /\ cpc[p] = "idle"
                   /\ cpc' = [cpc EXCEPT ![p] = IF fired[p] THEN "read" ELSE "idle"]
                   /\ UNCHANGED <<fired, bytes, fpc>>

ConsumeRead(p) == /\ cpc[p] = "read"
                  /\ Readable(p)
                  /\ bytes' = [bytes EXCEPT ![p] = @ - 1]
                  /\ cpc' = [cpc EXCEPT ![p] = "reset"]
                  /\ UNCHANGED <<fired, fpc>>

ConsumeReset(p) == /\ cpc[p] = "reset"
                   /\ fired' = [fired EXCEPT ![p] = FALSE]
                   /\ cpc' = [cpc EXCEPT ![p] = "idle"]
                   /\ UNCHANGED <<bytes, fpc>>

Next == \E p \in Pipes : \/ FireCheck(p) \/ FireStore(p) \/ FireWrite(p)
                         \/ ConsumeCheck(p) \/ ConsumeRead(p) \/ ConsumeReset(p)

Spec == Init /\ [][Next]_vars

(***************************************************************************)
(* A thread that entered Fire() or Consume() keeps running.  Nothing makes *)
(* it enter again.                                                         *)
(***************************************************************************)
FairSpec == /\ Spec
            /\ \A p \in Pipes : /\ WF_vars(FireStore(p)) /\ WF_vars(FireWrite(p))
                                /\ WF_vars(ConsumeRead(p)) /\ WF_vars(ConsumeReset(p))
-----------------------------------------------------------------------------
TypeOK == /\ fired \in [Pipes -> BOOLEAN]
          /\ bytes \in [Pipes -> 0 .. PipeCapacity]
          /\ fpc \in [Pipes -> {"idle", "store", "write"}]
          /\ cpc \in [Pipes -> {"idle", "read", "reset"}]

(***************************************************************************)
(* The flag never stays set over an empty pipe.  If it did, every later    *)
(* Fire() would return at its check and the main loop would sleep forever. *)
(***************************************************************************)
NoDeafFlag == \A p \in Pipes : fired[p] /\ fpc[p] = "idle" /\ cpc[p] = "idle" => Readable(p)

(***************************************************************************)
(* A byte is only in the pipe while the flag is set.  Otherwise Consume()  *)
(* would return at its check without reading it and the level-triggered    *)
(* epoll_wait of the main loop would spin on the descriptor.               *)
(***************************************************************************)
FlagCoversByte == \A p \in Pipes : Readable(p) => fired[p]

(***************************************************************************)
(* The blocking read() in Consume() only waits for a write() that the      *)
(* firing thread is about to make, and that write() never has to wait.     *)
(***************************************************************************)
NeverStuck == \A p \in Pipes : /\ cpc[p] = "read" => Readable(p) \/ fpc[p] = "write"
                               /\ fpc[p] = "write" => bytes[p] = 0

(***************************************************************************)
(* A Consume() that reached its read() returns, though the byte it waits   *)
(* for may not be written yet.                                             *)
(***************************************************************************)
ConsumeReturns == \A p \in Pipes : cpc[p] = "read" ~> cpc[p] = "idle"
=============================================================================
