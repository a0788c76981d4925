-------------------------- MODULE MCManagersProofs --------------------------
(***************************************************************************)
(* The safety of the parts that MCManagers puts side by side, proved for   *)
(* every value of its constants: any number of producers, managers, events *)
(* and descriptors.  Each part has an inductive invariant of its own.      *)
(***************************************************************************)
EXTENDS MCManagers, Integers, Sequences, SequenceTheorems, FiniteSetTheorems, TLAPS

(***************************************************************************)
(* The wake-up of OneManager; that of TryLockManager is further down.      *)
(***************************************************************************)
OnePipe == INSTANCE PipedEventProofs WITH
    Pipes <- {One!M}, fired <- oneFired, bytes <- oneBytes, fpc <- oneFpc, cpc <- oneCpc

(* A sequence holds the same elements here as in the lemmas about          *)
(* sequences of events that PipedEventProofs states.                       *)
LEMMA SameEvents == /\ OnePipe!PipeAssumption
                    /\ \A s : OnePipe!Range(s) = Range(s)
  BY PartsAssumption DEF OnePipe!PipeAssumption, OnePipe!Range, Range

(***************************************************************************)
(* A step of the program is a step of its part, or leaves the part alone.  *)
(***************************************************************************)
LEMMA StepOfPart == ASSUME [Next]_vars
                    PROVE  /\ [One!Next]_oneVars
                           /\ [Tries!Next]_triesVars
                           /\ [Peers!Next]_peersVars
                           /\ [List!Next]_listVars
                           /\ [Poller!Next]_pollerVars
                           /\ [Descs!Next]_pipesVars
  BY DEF Next, vars, Manager, TryLock, PeerPair, LinkedList, Polling, Descriptors, Rest

(* Every set of descriptors has a lowest one. *)
LEMMA LowestExists == ASSUME NEW S, S \subseteq Nat, S # {}
                      PROVE  \E x \in S : \A y \in S : x <= y
<1>1. PICK x \in S : \A y \in S : ~(<<y, x>> \in OpToRel(<, Nat))
  BY WFMin, NatLessThanWellFounded
<1>2. ASSUME NEW y \in S PROVE x <= y
  <2>1. x \in Nat /\ y \in Nat
    OBVIOUS
  <2>2. ~(y < x)
    BY <1>1, <2>1 DEF OpToRel
  <2> QED
    BY <2>1, <2>2
<1> QED
  BY <1>2
-----------------------------------------------------------------------------
(***************************************************************************)
(* EventPoller.  A descriptor has at most one manager and a living manager *)
(* exactly one descriptor, so that a watcher whose producer is alive is    *)
(* that of the descriptor's manager and has the consumer it was added with.*)
(* _watchers may hold anything for the dead.                               *)
(***************************************************************************)
Owners == /\ pollLife \in [Managers -> {"none", "alive", "destroyed"}]
          /\ pollOwner \in [Poller!Fds -> Managers \cup {None}]
          /\ \A f \in Poller!Fds : pollOwner[f] # None => pollLife[pollOwner[f]] = "alive"
          /\ \A f, g \in Poller!Fds : pollOwner[f] # None /\ pollOwner[f] = pollOwner[g] => f = g
          /\ \A m \in Managers : pollLife[m] = "alive" => \E f \in Poller!Fds : pollOwner[f] = m

Watchers == /\ added \in [Managers -> Managers \cup {None}]
            /\ DOMAIN _watchers \subseteq Poller!Fds
            /\ _watchers \in [DOMAIN _watchers -> Managers \X Managers]
            /\ \A f \in DOMAIN _watchers :
                 /\ pollLife[_watchers[f][1]] # "none"
                 /\ pollLife[_watchers[f][1]] = "alive" =>
                      pollOwner[f] = _watchers[f][1] /\ added[_watchers[f][1]] = _watchers[f][2]

PollerInv == Owners /\ Watchers /\ ~astray

(* The poller starts without managers and without watchers. *)
LEMMA PollerInit == ASSUME Poller!Init PROVE PollerInv
<1>1. Owners
  BY DEF Poller!Init, Owners
<1>2. Watchers
  BY DEF Poller!Init, Watchers
<1> QED
  BY <1>1, <1>2 DEF PollerInv, Poller!Init

(* The descriptor of a living manager. *)
LEMMA SourceOfAlive == ASSUME PollerInv, NEW m \in Poller!Alive
                       PROVE  /\ m \in Managers /\ pollLife[m] = "alive" /\ m # None
                              /\ Poller!Source(m) \in Poller!Fds /\ pollOwner[Poller!Source(m)] = m
                              /\ \A f \in Poller!Fds : pollOwner[f] = m => f = Poller!Source(m)
<1>1. m \in Managers /\ pollLife[m] = "alive" /\ m # None
  BY PartsAssumption DEF Poller!Alive, Poller!PollerAssumption
<1>2. \E f \in Poller!Fds : pollOwner[f] = m
  BY <1>1 DEF PollerInv, Owners
<1>3. Poller!Source(m) \in Poller!Fds /\ pollOwner[Poller!Source(m)] = m
  BY <1>2 DEF Poller!Source
<1> QED
  BY <1>1, <1>3 DEF PollerInv, Owners

(* A manager gets a free descriptor, whatever _watchers has for it. *)
LEMMA CreateKeeps == ASSUME PollerInv, NEW m \in Managers, Poller!Create(m) PROVE PollerInv'
<1> DEFINE d == CHOOSE f \in Poller!Free : \A g \in Poller!Free : f <= g
<1>1. d \in Poller!Fds /\ pollOwner[d] = None /\ m # None
  <2>1. Poller!Free \subseteq Nat /\ Poller!Free # {}
    BY DEF Poller!Free, Poller!Fds, Poller!Create
  <2>2. \E f \in Poller!Free : \A g \in Poller!Free : f <= g
    BY <2>1, LowestExists
  <2>3. d \in Poller!Free
    BY <2>2
  <2> QED
    BY <2>3, PartsAssumption DEF Poller!Free, Poller!PollerAssumption
<1>2. /\ pollLife[m] = "none" /\ pollLife' = [pollLife EXCEPT ![m] = "alive"]
      /\ pollOwner' = [pollOwner EXCEPT ![d] = m] /\ UNCHANGED <<_watchers, added, astray>>
  BY DEF Poller!Create, Poller!pollerVars
<1> HIDE DEF d
<1>3. \A f \in Poller!Fds : pollOwner[f] # m
  BY <1>1, <1>2 DEF PollerInv, Owners
<1>4. /\ \A k \in Managers : pollLife'[k] = IF k = m THEN "alive" ELSE pollLife[k]
      /\ \A f \in Poller!Fds : pollOwner'[f] = IF f = d THEN m ELSE pollOwner[f]
      /\ pollLife' \in [Managers -> {"none", "alive", "destroyed"}]
      /\ pollOwner' \in [Poller!Fds -> Managers \cup {None}]
  BY <1>1, <1>2 DEF PollerInv, Owners
<1>5. Owners'
  <2>1. ASSUME NEW f \in Poller!Fds, pollOwner'[f] # None PROVE pollLife'[pollOwner'[f]] = "alive"
    BY <1>1, <1>3, <1>4, <2>1 DEF PollerInv, Owners
  <2>2. ASSUME NEW f \in Poller!Fds, NEW g \in Poller!Fds, pollOwner'[f] # None, pollOwner'[f] = pollOwner'[g]
        PROVE  f = g
    BY <1>1, <1>3, <1>4, <2>2 DEF PollerInv, Owners
  <2>3. ASSUME NEW k \in Managers, pollLife'[k] = "alive" PROVE \E f \in Poller!Fds : pollOwner'[f] = k
    <3>1. CASE k = m
      BY <1>1, <1>4, <3>1
    <3>2. CASE k # m
      <4>1. PICK f \in Poller!Fds : pollOwner[f] = k
        BY <1>4, <2>3, <3>2 DEF PollerInv, Owners
      <4>2. k # None
        BY PartsAssumption DEF Poller!PollerAssumption
      <4> QED
        BY <1>1, <1>4, <4>1, <4>2
    <3> QED
      BY <3>1, <3>2
  <2> QED
    BY <1>4, <2>1, <2>2, <2>3 DEF Owners
<1>6. Watchers'
  <2>1. ASSUME NEW f \in DOMAIN _watchers
        PROVE  /\ pollLife'[_watchers[f][1]] # "none"
               /\ pollLife'[_watchers[f][1]] = "alive" =>
                    pollOwner'[f] = _watchers[f][1] /\ added[_watchers[f][1]] = _watchers[f][2]
    <3>1. f \in Poller!Fds /\ _watchers[f][1] \in Managers /\ pollLife[_watchers[f][1]] # "none"
      BY DEF PollerInv, Watchers
    <3>2. pollLife'[_watchers[f][1]] = pollLife[_watchers[f][1]]
      BY <1>2, <1>4, <3>1
    <3>3. _watchers[f][1] # None
      BY <3>1, PartsAssumption DEF Poller!PollerAssumption
    <3> QED
      BY <1>1, <1>4, <3>1, <3>2, <3>3 DEF PollerInv, Watchers
  <2> QED
    BY <1>2, <2>1 DEF PollerInv, Watchers
<1> QED
  BY <1>2, <1>5, <1>6 DEF PollerInv

(* A manager's descriptor becomes free with it. *)
LEMMA DestroyKeeps == ASSUME PollerInv, NEW m \in Managers, Poller!Destroy(m) PROVE PollerInv'
<1> DEFINE d == Poller!Source(m)
<1>1. m \in Poller!Alive /\ d \in Poller!Fds /\ pollOwner[d] = m /\ m # None /\ pollLife[m] = "alive"
  BY SourceOfAlive DEF Poller!Destroy
<1>2. /\ pollLife' = [pollLife EXCEPT ![m] = "destroyed"]
      /\ pollOwner' = [pollOwner EXCEPT ![d] = None] /\ UNCHANGED <<_watchers, added, astray>>
  BY DEF Poller!Destroy
<1> HIDE DEF d
<1>3. Owners'
  BY <1>1, <1>2 DEF PollerInv, Owners
<1>4. Watchers'
  BY <1>1, <1>2 DEF PollerInv, Owners, Watchers
<1> QED
  BY <1>2, <1>3, <1>4 DEF PollerInv

(* Add() replaces what _watchers had for the descriptor. *)
LEMMA AddKeeps == ASSUME PollerInv, NEW m \in Managers, NEW c \in Managers, Poller!Add(m, c) PROVE PollerInv'
<1> DEFINE d == Poller!Source(m)
<1>1. m \in Poller!Alive /\ d \in Poller!Fds /\ pollOwner[d] = m /\ m # None /\ pollLife[m] = "alive"
  BY SourceOfAlive DEF Poller!Add
<1>2. /\ added' = [added EXCEPT ![m] = c]
      /\ _watchers' = [g \in DOMAIN _watchers \cup {d} |-> IF g = d THEN <<m, c>> ELSE _watchers[g]]
      /\ UNCHANGED <<pollLife, pollOwner, astray>>
  BY DEF Poller!Add, Poller!Pairs
<1> HIDE DEF d
<1>3. Owners'
  BY <1>2 DEF PollerInv, Owners
<1>4. Watchers'
  <2>1. added' \in [Managers -> Managers \cup {None}] /\ DOMAIN _watchers' = DOMAIN _watchers \cup {d}
    BY <1>2 DEF PollerInv, Watchers
  <2>2. _watchers' \in [DOMAIN _watchers' -> Managers \X Managers]
    BY <1>2, <2>1 DEF PollerInv, Watchers
  <2>3. ASSUME NEW f \in DOMAIN _watchers'
        PROVE  /\ pollLife[_watchers'[f][1]] # "none"
               /\ pollLife[_watchers'[f][1]] = "alive" =>
                    pollOwner[f] = _watchers'[f][1] /\ added'[_watchers'[f][1]] = _watchers'[f][2]
    <3>1. CASE f = d
      <4>1. _watchers'[f] = <<m, c>> /\ added'[m] = c
        BY <1>2, <2>1, <3>1 DEF PollerInv, Watchers
      <4> QED
        BY <1>1, <3>1, <4>1
    <3>2. CASE f # d
      <4>1. f \in DOMAIN _watchers /\ f \in Poller!Fds /\ _watchers'[f] = _watchers[f]
        BY <1>2, <2>1, <3>2 DEF PollerInv, Watchers
      <4>2. _watchers[f][1] \in Managers
        BY <4>1 DEF PollerInv, Watchers
      <4>3. pollLife[_watchers[f][1]] = "alive" => pollOwner[f] = _watchers[f][1] /\ _watchers[f][1] # m
        BY <1>1, <3>2, <4>1 DEF PollerInv, Watchers, Owners
      <4> QED
        BY <1>2, <4>1, <4>2, <4>3 DEF PollerInv, Watchers
    <3> QED
      BY <3>1, <3>2
  <2> QED
    BY <1>1, <1>2, <2>1, <2>2, <2>3 DEF Watchers, PollerInv
<1> QED
  BY <1>2, <1>3, <1>4 DEF PollerInv

(* Execute() finds the right pair. *)
LEMMA ExecuteKeeps == ASSUME PollerInv, NEW f \in Poller!Fds, Poller!Execute(f) PROVE PollerInv'
<1>1. UNCHANGED <<pollLife, pollOwner, _watchers, added>>
  BY DEF Poller!Execute, Poller!pollerVars
<1>2. ~astray'
  <2>1. CASE f \in DOMAIN _watchers /\ {_watchers[f][1], _watchers[f][2]} \subseteq Poller!Alive
    <3>1. _watchers[f][1] = pollOwner[f] /\ _watchers[f][2] = added[_watchers[f][1]]
      BY <2>1 DEF PollerInv, Watchers, Poller!Alive
    <3> QED
      BY <2>1, <3>1 DEF PollerInv, Poller!Execute
  <2>2. CASE ~(f \in DOMAIN _watchers /\ {_watchers[f][1], _watchers[f][2]} \subseteq Poller!Alive)
    BY <2>2 DEF PollerInv, Poller!Execute
  <2> QED
    BY <2>1, <2>2
<1> QED
  BY <1>1, <1>2 DEF PollerInv, Owners, Watchers

(* Every step of the managers and of the main loop preserves the invariant. *)
LEMMA PollerNext == ASSUME PollerInv, [Poller!Next]_pollerVars PROVE PollerInv'
<1>1. ASSUME UNCHANGED <<pollLife, pollOwner, _watchers, added, astray>> PROVE PollerInv'
  BY <1>1 DEF PollerInv, Owners, Watchers
<1>2. ASSUME NEW m \in Managers, Poller!Fire(m) \/ Poller!AddBare(m) \/ Poller!Remove(m) PROVE PollerInv'
  BY <1>1, <1>2 DEF Poller!Fire, Poller!AddBare, Poller!Remove, Poller!pollerVars
<1>3. ASSUME NEW m \in Managers, NEW c \in Managers, Poller!AddExisting(m, c) PROVE PollerInv'
  BY <1>1, <1>3 DEF Poller!AddExisting, Poller!vars, Poller!pollerVars
<1>4. CASE Poller!Wait
  BY <1>1, <1>4 DEF Poller!Wait, Poller!pollerVars
<1>5. CASE UNCHANGED pollerVars
  BY <1>1, <1>5 DEF pollerVars
<1> QED
  BY <1>2, <1>3, <1>4, <1>5, CreateKeeps, DestroyKeeps, AddKeeps, ExecuteKeeps DEF Poller!Next, Poller!MainLoop
-----------------------------------------------------------------------------
(***************************************************************************)
(* PipeDescriptors.  Descriptor 0 is the standard input; every other one   *)
(* is in _fds of the event that owns it, and what a living event has in    *)
(* _fds is its own, or 0.  While both ends are open the flag and the pipe  *)
(* agree, and a Fire() that no Consume() followed has set the flag.        *)
(***************************************************************************)
Fresh(e) == pipeLife[e] = "none" => ~pipeFired[e] /\ pipeBytes[e] = 0 /\ ~asked[e]

Agrees(e) == pipeLife[e] = "alive" /\ fds[e][0] # 0 /\ fds[e][1] # 0 =>
               pipeBytes[e] = (IF pipeFired[e] THEN 1 ELSE 0) /\ (asked[e] => pipeFired[e])

Table == /\ DOMAIN pipeOwner = Descs!Fds /\ pipeOwner[0] = <<"standard">>
         /\ fds \in [Events -> [0 .. 1 -> Int]] /\ pipeLife \in [Events -> {"none", "alive", "destroyed"}]
         /\ \A d \in Descs!Fds, e \in Events, i \in 0 .. 1 :
              pipeOwner[d] = <<e, i>> => pipeLife[e] = "alive" /\ fds[e][i] = d
         /\ \A e \in Events, i \in 0 .. 1 :
              pipeLife[e] = "alive" /\ fds[e][i] # 0 => fds[e][i] \in Descs!Fds /\ pipeOwner[fds[e][i]] = <<e, i>>

Signals == /\ pipeFired \in [Events -> BOOLEAN] /\ pipeBytes \in [Events -> Int] /\ asked \in [Events -> BOOLEAN]
           /\ \A e \in Events : Fresh(e) /\ Agrees(e)

PipesInv == Table /\ Signals

(* Free and standard descriptors are nobody's, and 0 is one of the latter. *)
LEMMA NobodysDescriptors == /\ \A e, i : <<"free">> # <<e, i>> /\ <<"standard">> # <<e, i>>
                            /\ <<"free">> # <<"standard">>
                            /\ 0 \in Descs!Fds /\ LastFd \in Nat
<1>1. \A e, i : <<"free">> # <<e, i>> /\ <<"standard">> # <<e, i>>
  OBVIOUS
<1>2. <<"free">> # <<"standard">>
  OBVIOUS
<1>3. LastFd \in Nat
  BY PartsAssumption DEF Descs!StandardAssumption
<1>4. 0 \in Descs!Fds
  BY <1>3 DEF Descs!Fds
<1> QED
  BY <1>1, <1>2, <1>3, <1>4

(* At the start only the standard descriptors are open. *)
LEMMA PipesInit == ASSUME Descs!Init PROVE PipesInv
<1>1. Table
  <2>1. 0 \in Standard
    BY PartsAssumption
  <2>2. /\ DOMAIN pipeOwner = Descs!Fds /\ pipeOwner[0] = <<"standard">>
        /\ \A d \in Descs!Fds : pipeOwner[d] = <<"standard">> \/ pipeOwner[d] = <<"free">>
    BY <2>1, NobodysDescriptors DEF Descs!Init
  <2>3. \A d \in Descs!Fds, e \in Events, i \in 0 .. 1 : pipeOwner[d] # <<e, i>>
    BY <2>2, NobodysDescriptors
  <2>4. fds \in [Events -> [0 .. 1 -> Int]] /\ pipeLife = [e \in Events |-> "none"]
    BY DEF Descs!Init
  <2> QED
    BY <2>2, <2>3, <2>4 DEF Table
<1>2. Signals
  BY DEF Descs!Init, Signals, Fresh, Agrees
<1> QED
  BY <1>1, <1>2 DEF PipesInv

(* pipe() gives two descriptors that were free. *)
LEMMA TwoFree == ASSUME PipesInv, Cardinality(Descs!Free) > 1,
                        NEW r, NEW w, r = Descs!Lowest(Descs!Free), w = Descs!Lowest(Descs!Free \ {r})
                 PROVE  /\ r \in Descs!Fds /\ w \in Descs!Fds /\ r # w /\ r # 0 /\ w # 0
                        /\ pipeOwner[r] = <<"free">> /\ pipeOwner[w] = <<"free">>
<1>1. Descs!Free \subseteq Nat /\ Descs!Free \subseteq Descs!Fds
  BY NobodysDescriptors DEF Descs!Free, Descs!Fds
<1>2. Descs!Free # {} /\ \A x : Descs!Free # {x}
  <2>1. ASSUME Descs!Free = {} PROVE Cardinality(Descs!Free) = 0
    BY <2>1, FS_EmptySet
  <2>2. ASSUME NEW x, Descs!Free = {x} PROVE Cardinality(Descs!Free) = 1
    BY <2>2, FS_Singleton
  <2>3. Cardinality(Descs!Free) # 0 /\ Cardinality(Descs!Free) # 1
    OBVIOUS
  <2> QED
    BY <2>1, <2>2, <2>3
<1>3. \E x \in Descs!Free : \A y \in Descs!Free : x <= y
  BY <1>1, <1>2, LowestExists
<1>4. r \in Descs!Free
  BY <1>3 DEF Descs!Lowest
<1>5. Descs!Free \ {r} \subseteq Nat /\ Descs!Free \ {r} # {}
  BY <1>1, <1>2, <1>4
<1>6. \E x \in Descs!Free \ {r} : \A y \in Descs!Free \ {r} : x <= y
  BY <1>5, LowestExists
<1>7. w \in Descs!Free \ {r}
  BY <1>6 DEF Descs!Lowest
<1>8. pipeOwner[r] = <<"free">> /\ pipeOwner[w] = <<"free">>
  BY <1>4, <1>7 DEF Descs!Free
<1> QED
  BY <1>1, <1>4, <1>7, <1>8, NobodysDescriptors DEF PipesInv, Table

(* The constructor enters two descriptors that were free into _fds. *)
LEMMA ConstructKeeps == ASSUME PipesInv, NEW e \in Events, Descs!Construct(e) PROVE PipesInv'
<1>1. PICK r, w : /\ r = Descs!Lowest(Descs!Free) /\ w = Descs!Lowest(Descs!Free \ {r})
                  /\ pipeOwner' = [pipeOwner EXCEPT ![r] = <<e, 0>>, ![w] = <<e, 1>>]
                  /\ fds' = [fds EXCEPT ![e] = [i \in 0 .. 1 |-> IF i = 0 THEN r ELSE w]]
  BY DEF Descs!Construct, Descs!End
<1>0. Cardinality(Descs!Free) > 1
  <2>1. Descs!Cardinality(Descs!Free) = Cardinality(Descs!Free)
    BY DEF Descs!Cardinality, Cardinality, Descs!IsFiniteSet, IsFiniteSet
  <2> QED
    BY <2>1 DEF Descs!Construct
<1>2. /\ pipeLife[e] = "none" /\ Cardinality(Descs!Free) > 1
      /\ pipeLife' = [pipeLife EXCEPT ![e] = "alive"] /\ UNCHANGED <<pipeFired, pipeBytes, asked>>
  BY <1>0 DEF Descs!Construct
<1>3. /\ r \in Descs!Fds /\ w \in Descs!Fds /\ r # w /\ r # 0 /\ w # 0
      /\ pipeOwner[r] = <<"free">> /\ pipeOwner[w] = <<"free">>
  BY <1>1, <1>2, TwoFree
<1>4. /\ DOMAIN pipeOwner' = Descs!Fds /\ pipeOwner'[0] = <<"standard">>
      /\ pipeOwner'[r] = <<e, 0>> /\ pipeOwner'[w] = <<e, 1>>
      /\ \A d \in Descs!Fds : d # r /\ d # w => pipeOwner'[d] = pipeOwner[d]
  BY <1>1, <1>3, NobodysDescriptors DEF PipesInv, Table
<1>5. /\ fds' \in [Events -> [0 .. 1 -> Int]] /\ fds'[e][0] = r /\ fds'[e][1] = w
      /\ \A f \in Events : f # e => fds'[f] = fds[f]
  <2>1. r \in Int /\ w \in Int
    BY <1>3, NobodysDescriptors DEF Descs!Fds
  <2> QED
    BY <1>1, <2>1 DEF PipesInv, Table
<1>6. /\ pipeLife' \in [Events -> {"none", "alive", "destroyed"}] /\ pipeLife'[e] = "alive"
      /\ \A f \in Events : f # e => pipeLife'[f] = pipeLife[f]
  BY <1>2 DEF PipesInv, Table
<1>7. ASSUME NEW d \in Descs!Fds, NEW f \in Events, NEW i \in 0 .. 1, pipeOwner'[d] = <<f, i>>
      PROVE  pipeLife'[f] = "alive" /\ fds'[f][i] = d
  <2>1. CASE d = r
    BY <1>4, <1>5, <1>6, <1>7, <2>1
  <2>2. CASE d = w
    BY <1>4, <1>5, <1>6, <1>7, <2>2
  <2>3. CASE d # r /\ d # w
    <3>1. pipeOwner[d] = <<f, i>> /\ pipeLife[f] = "alive" /\ fds[f][i] = d
      BY <1>4, <1>7, <2>3 DEF PipesInv, Table
    <3> QED
      BY <1>2, <1>5, <1>6, <3>1
  <2> QED
    BY <2>1, <2>2, <2>3
<1>8. ASSUME NEW f \in Events, NEW i \in 0 .. 1, pipeLife'[f] = "alive", fds'[f][i] # 0
      PROVE  fds'[f][i] \in Descs!Fds /\ pipeOwner'[fds'[f][i]] = <<f, i>>
  <2>1. CASE f = e
    <3>1. i = 0 \/ i = 1
      OBVIOUS
    <3> QED
      BY <1>3, <1>4, <1>5, <2>1, <3>1
  <2>2. CASE f # e
    <3>1. fds'[f][i] = fds[f][i] /\ fds[f][i] \in Descs!Fds /\ pipeOwner[fds[f][i]] = <<f, i>>
      BY <1>5, <1>6, <1>8, <2>2 DEF PipesInv, Table
    <3>2. fds[f][i] # r /\ fds[f][i] # w
      BY <1>3, <3>1, NobodysDescriptors
    <3> QED
      BY <1>4, <3>1, <3>2
  <2> QED
    BY <2>1, <2>2
<1>9. Table'
  BY <1>4, <1>5, <1>6, <1>7, <1>8 DEF Table
<1>10. Signals'
  <2>1. ASSUME NEW f \in Events PROVE Fresh(f)' /\ Agrees(f)'
    <3>1. CASE f = e
      BY <1>2, <1>6, <3>1 DEF PipesInv, Signals, Fresh, Agrees
    <3>2. CASE f # e
      BY <1>2, <1>5, <1>6, <3>2 DEF PipesInv, Signals, Fresh, Agrees
    <3> QED
      BY <3>1, <3>2
  <2> QED
    BY <1>2, <2>1 DEF PipesInv, Signals
<1> QED
  BY <1>9, <1>10 DEF PipesInv

(* A constructor that throws leaves the tables as they are. *)
LEMMA ThrowKeeps == ASSUME PipesInv, NEW e \in Events, Descs!Throw(e) PROVE PipesInv'
<1>1. /\ pipeLife[e] = "none" /\ pipeLife' = [pipeLife EXCEPT ![e] = "destroyed"]
      /\ UNCHANGED <<pipeOwner, fds, pipeFired, pipeBytes, asked>>
  BY DEF Descs!Throw
<1>2. /\ pipeLife' \in [Events -> {"none", "alive", "destroyed"}]
      /\ \A f \in Events : pipeLife'[f] = IF f = e THEN "destroyed" ELSE pipeLife[f]
  BY <1>1 DEF PipesInv, Table
<1>3. Table'
  BY <1>1, <1>2 DEF PipesInv, Table
<1>4. Signals'
  BY <1>1, <1>2 DEF PipesInv, Signals, Fresh, Agrees
<1> QED
  BY <1>3, <1>4 DEF PipesInv

(* Fire() writes into the own pipe. *)
LEMMA FireKeeps == ASSUME PipesInv, NEW e \in Events, Descs!Fire(e) PROVE PipesInv'
<1>1. pipeLife[e] = "alive" /\ asked' = [asked EXCEPT ![e] = TRUE] /\ UNCHANGED <<pipeOwner, fds, pipeLife>>
  BY DEF Descs!Fire
<1>2. Table'
  BY <1>1 DEF PipesInv, Table
<1>3. asked' \in [Events -> BOOLEAN] /\ \A f \in Events : asked'[f] = IF f = e THEN TRUE ELSE asked[f]
  BY <1>1 DEF PipesInv, Signals
<1>4. CASE fds[e][0] # 0 /\ ~pipeFired[e]
  <2>1. /\ pipeFired' = [pipeFired EXCEPT ![e] = TRUE]
        /\ pipeBytes' = [pipeBytes EXCEPT ![e] = IF pipeOwner[fds[e][1]] = <<e, 1>> THEN @ + 1 ELSE @]
    BY <1>4 DEF Descs!Fire, Descs!End
  <2>2. pipeFired' \in [Events -> BOOLEAN] /\ pipeBytes' \in [Events -> Int]
    BY <2>1 DEF PipesInv, Signals
  <2>3. ASSUME NEW f \in Events, f # e
        PROVE  pipeFired'[f] = pipeFired[f] /\ pipeBytes'[f] = pipeBytes[f] /\ asked'[f] = asked[f]
    BY <1>3, <2>1, <2>3 DEF PipesInv, Signals
  <2>4. Fresh(e)'
    BY <1>1 DEF Fresh
  <2>5. Agrees(e)'
    <3> SUFFICES ASSUME fds[e][1] # 0 PROVE pipeBytes'[e] = 1 /\ pipeFired'[e]
      BY <1>1 DEF Agrees
    <3>1. pipeOwner[fds[e][1]] = <<e, 1>>
      BY <1>1 DEF PipesInv, Table
    <3>2. pipeBytes[e] = 0
      BY <1>1, <1>4 DEF PipesInv, Signals, Agrees
    <3> QED
      BY <2>1, <3>1, <3>2 DEF PipesInv, Signals
  <2>6. ASSUME NEW f \in Events PROVE Fresh(f)' /\ Agrees(f)'
    BY <1>1, <2>3, <2>4, <2>5 DEF PipesInv, Signals, Fresh, Agrees
  <2> QED
    BY <1>2, <1>3, <2>2, <2>6 DEF PipesInv, Signals
<1>5. CASE ~(fds[e][0] # 0 /\ ~pipeFired[e])
  <2>1. UNCHANGED <<pipeFired, pipeBytes>>
    BY <1>5 DEF Descs!Fire
  <2>2. ASSUME NEW f \in Events PROVE Fresh(f)' /\ Agrees(f)'
    BY <1>1, <1>3, <1>5, <2>1 DEF PipesInv, Signals, Fresh, Agrees
  <2> QED
    BY <1>2, <1>3, <2>1, <2>2 DEF PipesInv, Signals
<1> QED
  BY <1>4, <1>5

(* Consume() takes the byte and clears the flag. *)
LEMMA ConsumeKeeps == ASSUME PipesInv, NEW e \in Events, Descs!Consume(e) PROVE PipesInv'
<1>1. pipeLife[e] = "alive" /\ asked' = [asked EXCEPT ![e] = FALSE] /\ UNCHANGED <<pipeOwner, fds, pipeLife>>
  BY DEF Descs!Consume
<1>2. Table'
  BY <1>1 DEF PipesInv, Table
<1>3. asked' \in [Events -> BOOLEAN] /\ \A f \in Events : asked'[f] = IF f = e THEN FALSE ELSE asked[f]
  BY <1>1 DEF PipesInv, Signals
<1>4. CASE fds[e][0] # 0 /\ pipeFired[e]
  <2>1. /\ pipeFired' = [pipeFired EXCEPT ![e] = FALSE]
        /\ pipeBytes' = [pipeBytes EXCEPT ![e] = IF @ = 0 THEN 0 ELSE @ - 1]
    BY <1>4 DEF Descs!Consume
  <2>2. pipeFired' \in [Events -> BOOLEAN] /\ pipeBytes' \in [Events -> Int]
    BY <2>1 DEF PipesInv, Signals
  <2>3. ASSUME NEW f \in Events, f # e
        PROVE  pipeFired'[f] = pipeFired[f] /\ pipeBytes'[f] = pipeBytes[f] /\ asked'[f] = asked[f]
    BY <1>3, <2>1, <2>3 DEF PipesInv, Signals
  <2>4. Fresh(e)'
    BY <1>1 DEF Fresh
  <2>5. Agrees(e)'
    <3> SUFFICES ASSUME fds[e][1] # 0 PROVE pipeBytes'[e] = 0 /\ ~pipeFired'[e] /\ ~asked'[e]
      BY <1>1 DEF Agrees
    <3>1. pipeBytes[e] = 1
      BY <1>1, <1>4 DEF PipesInv, Signals, Agrees
    <3>2. pipeBytes'[e] = 0
      BY <2>1, <3>1 DEF PipesInv, Signals
    <3>3. ~pipeFired'[e] /\ ~asked'[e]
      BY <1>3, <2>1 DEF PipesInv, Signals
    <3> QED
      BY <3>2, <3>3
  <2>6. ASSUME NEW f \in Events PROVE Fresh(f)' /\ Agrees(f)'
    BY <1>1, <2>3, <2>4, <2>5 DEF PipesInv, Signals, Fresh, Agrees
  <2> QED
    BY <1>2, <1>3, <2>2, <2>6 DEF PipesInv, Signals
<1>5. CASE ~(fds[e][0] # 0 /\ pipeFired[e])
  <2>1. UNCHANGED <<pipeFired, pipeBytes>>
    BY <1>5 DEF Descs!Consume
  <2>2. ASSUME NEW f \in Events PROVE Fresh(f)' /\ Agrees(f)'
    BY <1>1, <1>3, <1>5, <2>1 DEF PipesInv, Signals, Fresh, Agrees
  <2> QED
    BY <1>2, <1>3, <2>1, <2>2 DEF PipesInv, Signals
<1> QED
  BY <1>4, <1>5

(* Closing an end, or both, frees what is in _fds and is the event's own. *)
LEMMA ClosedKeeps == ASSUME PipesInv, NEW e \in Events, NEW ends \in SUBSET (0 .. 1), Descs!Closed(e, ends),
                            pipeLife[e] = "alive", UNCHANGED <<pipeFired, pipeBytes, asked>>,
                            \/ UNCHANGED pipeLife
                            \/ ends = {0, 1} /\ pipeLife' = [pipeLife EXCEPT ![e] = "destroyed"]
                     PROVE  PipesInv'
<1> DEFINE gone == {fds[e][i] : i \in {i \in ends : fds[e][i] # 0}}
<1>1. /\ pipeOwner' = [d \in Descs!Fds |-> IF d \in gone THEN <<"free">> ELSE pipeOwner[d]]
      /\ fds' = [fds EXCEPT ![e] = [i \in 0 .. 1 |-> IF i \in ends THEN 0 ELSE fds[e][i]]]
  BY DEF Descs!Closed
<1>2. ASSUME NEW d \in gone PROVE \E i \in ends : d = fds[e][i] /\ pipeOwner[d] = <<e, i>>
  BY DEF PipesInv, Table
<1>3. ASSUME NEW i \in ends, NEW d \in Descs!Fds, pipeOwner[d] = <<e, i>> PROVE d \in gone
  <2>1. fds[e][i] = d /\ d # 0
    BY <1>3, NobodysDescriptors DEF PipesInv, Table
  <2> QED
    BY <2>1
<1> HIDE DEF gone
<1>4. /\ DOMAIN pipeOwner' = Descs!Fds /\ pipeOwner'[0] = <<"standard">>
      /\ \A d \in Descs!Fds : pipeOwner'[d] = IF d \in gone THEN <<"free">> ELSE pipeOwner[d]
  <2>1. 0 \in Descs!Fds /\ pipeOwner[0] = <<"standard">>
    BY NobodysDescriptors DEF PipesInv, Table
  <2>2. 0 \notin gone
    <3>1. ASSUME 0 \in gone PROVE \E i : pipeOwner[0] = <<e, i>>
      BY <1>2, <3>1
    <3> QED
      BY <2>1, <3>1, NobodysDescriptors
  <2> QED
    BY <1>1, <2>1, <2>2
<1>5. /\ fds' \in [Events -> [0 .. 1 -> Int]]
      /\ \A f \in Events : f # e => fds'[f] = fds[f]
      /\ \A i \in 0 .. 1 : fds'[e][i] = IF i \in ends THEN 0 ELSE fds[e][i]
  BY <1>1 DEF PipesInv, Table
<1>6. /\ pipeLife' \in [Events -> {"none", "alive", "destroyed"}]
      /\ \A f \in Events : f # e => pipeLife'[f] = pipeLife[f]
      /\ pipeLife'[e] # "none"
      /\ ends # {0, 1} => pipeLife'[e] = "alive"
  BY DEF PipesInv, Table
<1>7. ASSUME NEW d \in Descs!Fds, NEW f \in Events, NEW i \in 0 .. 1, pipeOwner'[d] = <<f, i>>
      PROVE  pipeLife'[f] = "alive" /\ fds'[f][i] = d
  <2>1. d \notin gone /\ pipeOwner[d] = <<f, i>>
    BY <1>4, <1>7, NobodysDescriptors
  <2>2. pipeLife[f] = "alive" /\ fds[f][i] = d
    BY <2>1 DEF PipesInv, Table
  <2>3. f = e => i \notin ends
    BY <1>3, <2>1
  <2> QED
    BY <1>5, <1>6, <2>2, <2>3
<1>8. ASSUME NEW f \in Events, NEW i \in 0 .. 1, pipeLife'[f] = "alive", fds'[f][i] # 0
      PROVE  fds'[f][i] \in Descs!Fds /\ pipeOwner'[fds'[f][i]] = <<f, i>>
  <2>1. pipeLife[f] = "alive" /\ fds'[f][i] = fds[f][i] /\ (f = e => i \notin ends)
    BY <1>5, <1>6, <1>8
  <2>2. fds[f][i] \in Descs!Fds /\ pipeOwner[fds[f][i]] = <<f, i>>
    BY <1>8, <2>1 DEF PipesInv, Table
  <2>3. fds[f][i] \notin gone
    <3> SUFFICES ASSUME fds[f][i] \in gone PROVE FALSE
      OBVIOUS
    <3>1. PICK j \in ends : pipeOwner[fds[f][i]] = <<e, j>>
      BY <1>2
    <3>2. f = e /\ i = j
      BY <2>2, <3>1
    <3> QED
      BY <2>1, <3>2
  <2> QED
    BY <1>4, <2>1, <2>2, <2>3
<1>9. Table'
  BY <1>4, <1>5, <1>6, <1>7, <1>8 DEF Table
<1>10. Signals'
  <2>1. ASSUME NEW f \in Events PROVE Fresh(f)' /\ Agrees(f)'
    <3>1. CASE f = e
      <4>1. Fresh(f)'
        BY <1>6, <3>1 DEF Fresh
      <4>2. fds'[e][0] # 0 /\ fds'[e][1] # 0 => fds'[e][0] = fds[e][0] /\ fds'[e][1] = fds[e][1]
        BY <1>5
      <4>3. Agrees(f)'
        BY <3>1, <4>2 DEF PipesInv, Signals, Agrees
      <4> QED
        BY <4>1, <4>3
    <3>2. CASE f # e
      BY <1>5, <1>6, <3>2 DEF PipesInv, Signals, Fresh, Agrees
    <3> QED
      BY <3>1, <3>2
  <2> QED
    BY <2>1 DEF PipesInv, Signals
<1> QED
  BY <1>9, <1>10 DEF PipesInv

(* Every step of the events preserves the invariant. *)
LEMMA PipesNext == ASSUME PipesInv, [Descs!Next]_pipesVars PROVE PipesInv'
<1>1. ASSUME NEW e \in Events, NEW i \in {0, 1}, Descs!Close(e, i) PROVE PipesInv'
  BY <1>1, ClosedKeeps DEF Descs!Close
<1>2. ASSUME NEW e \in Events, Descs!Destroy(e) PROVE PipesInv'
  <2>1. /\ {0, 1} \in SUBSET (0 .. 1) /\ Descs!Closed(e, {0, 1}) /\ pipeLife[e] = "alive"
        /\ UNCHANGED <<pipeFired, pipeBytes, asked>> /\ pipeLife' = [pipeLife EXCEPT ![e] = "destroyed"]
    BY <1>2 DEF Descs!Destroy
  <2> QED
    BY <2>1, ClosedKeeps
<1>3. CASE UNCHANGED pipesVars
  BY <1>3 DEF pipesVars, PipesInv, Table, Signals, Fresh, Agrees
<1> QED
  BY <1>1, <1>2, <1>3, ConstructKeeps, ThrowKeeps, FireKeeps, ConsumeKeeps DEF Descs!Next

(* What the two invariants say of the descriptors. *)
LEMMA DescriptorsOfInv == PipesInv /\ PollerInv => DescriptorsRight
<1>1. ASSUME PipesInv PROVE Descs!FireSignals
  <2>1. ASSUME NEW e \in Events, asked[e], Descs!IsOpen(e, 0), Descs!IsOpen(e, 1) PROVE pipeBytes[e] = 1
    <3>1. PICK r \in Descs!Fds : pipeOwner[r] = <<e, 0>>
      BY <2>1 DEF Descs!IsOpen, Descs!End
    <3>2. PICK w \in Descs!Fds : pipeOwner[w] = <<e, 1>>
      BY <2>1 DEF Descs!IsOpen, Descs!End
    <3>3. r # 0 /\ w # 0
      BY <1>1, <3>1, <3>2, NobodysDescriptors DEF PipesInv, Table
    <3>4. pipeLife[e] = "alive" /\ fds[e][0] = r /\ fds[e][1] = w
      BY <1>1, <3>1, <3>2 DEF PipesInv, Table
    <3> QED
      BY <1>1, <2>1, <3>3, <3>4 DEF PipesInv, Signals, Agrees
  <2> QED
    BY <2>1 DEF Descs!FireSignals
<1>2. ASSUME PipesInv PROVE Descs!NoneLeaks
  <2>1. ASSUME NEW e \in Events, NEW i \in {0, 1}, pipeLife[e] = "destroyed" PROVE ~Descs!IsOpen(e, i)
    BY <1>2, <2>1 DEF Descs!IsOpen, Descs!End, PipesInv, Table
  <2> QED
    BY <2>1 DEF Descs!NoneLeaks
<1>3. PollerInv => Poller!RightPair
  BY DEF PollerInv, Poller!RightPair
<1> QED
  BY <1>1, <1>2, <1>3 DEF DescriptorsRight

(***************************************************************************)
(* Whatever events and managers come and go and reuse descriptor numbers:  *)
(* Fire() signals the own pipe, a destroyed event leaves no descriptor     *)
(* open, and Execute() never serves the wrong manager or consumer.         *)
(***************************************************************************)
THEOREM DescriptorsNeverConfused == Spec => []DescriptorsRight
<1>1. Init => PipesInv /\ PollerInv
  BY PipesInit, PollerInit DEF Init
<1>2. PipesInv /\ PollerInv /\ [Next]_vars => PipesInv' /\ PollerInv'
  BY StepOfPart, PipesNext, PollerNext
<1> QED
  BY <1>1, <1>2, DescriptorsOfInv, PTL DEF Spec
-----------------------------------------------------------------------------
(***************************************************************************)
(* LockeFreeQueue.  The nodes that were ever in the list form a chain, the *)
(* dummy node first and the others in the order in which tail_ was         *)
(* exchanged.  swap() has reached a position in it, all links before which *)
(* are stored.                                                             *)
(***************************************************************************)
Last == Len(order)
Reached == Len(out)

NodeAt(s, i) == IF i = 0 THEN List!Dummy ELSE s[i]

ListTypes == /\ head \in List!Nodes /\ live \in SUBSET List!Nodes
             /\ listNext \in [List!Nodes -> List!Nodes \cup {List!Null}]
             /\ ppc \in [Producers -> {"idle", "exchange", "link"}]
             /\ new \in [Producers -> List!Nodes \cup {List!Null}]
             /\ prev \in [Producers -> List!Nodes \cup {List!Null}]
             /\ listCpc \in {"idle", "loop", "load", "destroy", "destroyed"}
             /\ listCur \in List!Nodes \cup {List!Null} /\ nxt \in List!Nodes \cup {List!Null}
             /\ order \in Seq(List!Elements) /\ out \in Seq(List!Elements)

(***************************************************************************)
(* A link is stored, or missing and its producer about to store it; no     *)
(* node has a link to anything but its successor.                          *)
(***************************************************************************)
Linking(p, i) == ppc[p] = "link" /\ prev[p] = NodeAt(order, i - 1) /\ new[p] = order[i]

Chain == /\ tail = NodeAt(order, Last)
         /\ \A i, j \in 1 .. Last : order[i] = order[j] => i = j
         /\ \A n \in List!Nodes : listNext[n] # List!Null =>
              \E i \in 1 .. Last : n = NodeAt(order, i - 1) /\ listNext[n] = order[i]
         /\ \A i \in 1 .. Last : listNext[NodeAt(order, i - 1)] = List!Null => \E p \in Producers : Linking(p, i)

(***************************************************************************)
(* A producer has a node of its own, in the chain once tail_ is exchanged. *)
(***************************************************************************)
Known(n) == \/ \E i \in 1 .. Last : order[i] = n
            \/ \E p \in Producers : ppc[p] = "exchange" /\ new[p] = n

Owned == /\ \A p \in Producers : ppc[p] = "exchange" =>
              new[p] \in List!Elements /\ \A i \in 1 .. Last : order[i] # new[p]
         /\ \A p \in Producers : ppc[p] = "link" =>
              \E i \in 1 .. Last : Linking(p, i) /\ listNext[NodeAt(order, i - 1)] = List!Null
         /\ \A p, q \in Producers : ppc[p] # "idle" /\ ppc[q] # "idle" /\ new[p] = new[q] => p = q
         /\ \E k \in 0 .. MaxNodes : \A n \in List!Elements : Known(n) <=> n <= k

(***************************************************************************)
(* Where swap() is, and the destructor.                                    *)
(***************************************************************************)
Taking == /\ Reached <= Last
          /\ \A i \in 1 .. Reached : out[i] = order[i]
          /\ listCpc = "idle" => head = NodeAt(order, Reached)
          /\ listCpc \in {"loop", "load"} => listCur = NodeAt(order, Reached)
          /\ listCpc = "loop" /\ nxt # List!Null => Reached < Last /\ nxt = order[Reached + 1]
          /\ \A i \in 1 .. Reached : listNext[NodeAt(order, i - 1)] # List!Null
          /\ listCpc = "loop" /\ nxt # List!Null => listNext[NodeAt(order, Reached)] # List!Null

InUse(n, k) == \/ \E i \in k .. Last : n = NodeAt(order, i)
               \/ \E p \in Producers : ppc[p] = "exchange" /\ new[p] = n

Living == /\ listCpc \notin {"destroy", "destroyed"} => \A n \in List!Nodes : n \in live <=> InUse(n, Reached)
          /\ listCpc \in {"destroy", "destroyed"} => \A p \in Producers : ppc[p] = "idle"
          /\ listCpc = "destroy" => \E k \in 0 .. Last : /\ listCur = NodeAt(order, k)
                                                       /\ \A n \in List!Nodes : n \in live <=> InUse(n, k)
          /\ listCpc = "destroyed" => live = {}

ListInv == ListTypes /\ Chain /\ Owned /\ Taking /\ Living

(* What the constants of LockeFreeQueue are. *)
LEMMA NodeSets == /\ MaxNodes \in Nat /\ List!Elements = 1 .. MaxNodes
                  /\ List!Dummy = 0 /\ List!Dummy \notin List!Elements
                  /\ List!Nodes = List!Elements \cup {List!Dummy}
                  /\ List!Null \notin List!Nodes
  BY PartsAssumption DEF List!NodesAssumption, List!Elements, List!Nodes, List!Dummy, List!Null

(* The positions of the chain, and that a node is at one of them at most. *)
LEMMA ChainFacts ==
  ASSUME ListInv
  PROVE  /\ Last \in Nat /\ Reached \in Nat /\ Reached <= Last
         /\ DOMAIN order = 1 .. Last /\ DOMAIN out = 1 .. Reached
         /\ \A i \in 1 .. Last : order[i] \in List!Elements /\ NodeAt(order, i) = order[i]
         /\ NodeAt(order, 0) = List!Dummy
         /\ \A i \in 0 .. Last : NodeAt(order, i) \in List!Nodes
         /\ \A i, j \in 0 .. Last : NodeAt(order, i) = NodeAt(order, j) => i = j
<1>1. Last \in Nat /\ Reached \in Nat /\ DOMAIN order = 1 .. Last /\ DOMAIN out = 1 .. Reached
  BY DEF ListInv, ListTypes, Last, Reached
<1>2. Reached <= Last
  BY DEF ListInv, Taking
<1>3. \A i \in 1 .. Last : order[i] \in List!Elements
  BY <1>1 DEF ListInv, ListTypes
<1>4. \A i \in 1 .. Last : NodeAt(order, i) = order[i]
  BY <1>1 DEF NodeAt
<1>5. NodeAt(order, 0) = List!Dummy
  BY DEF NodeAt
<1>6. \A i \in 0 .. Last : i = 0 \/ i \in 1 .. Last
  BY <1>1
<1>7. \A i \in 0 .. Last : NodeAt(order, i) \in List!Nodes
  BY <1>3, <1>4, <1>5, <1>6, NodeSets
<1>8. \A i, j \in 0 .. Last : NodeAt(order, i) = NodeAt(order, j) => i = j
  BY <1>3, <1>4, <1>5, <1>6, NodeSets DEF ListInv, Chain
<1> QED
  BY <1>1, <1>2, <1>3, <1>4, <1>5, <1>7, <1>8

(* A link leads to the successor or nowhere, and from the last node and *)
(* from a node outside of the chain it leads nowhere.                   *)
LEMMA LinkFacts ==
  ASSUME ListInv
  PROVE  /\ \A i \in 0 .. Last : i < Last => listNext[NodeAt(order, i)] \in {order[i + 1], List!Null}
         /\ listNext[NodeAt(order, Last)] = List!Null
<1>1. /\ Last \in Nat
      /\ \A i \in 0 .. Last : NodeAt(order, i) \in List!Nodes
      /\ \A i, j \in 0 .. Last : NodeAt(order, i) = NodeAt(order, j) => i = j
  BY ChainFacts
<1>2. ASSUME NEW i \in 0 .. Last, listNext[NodeAt(order, i)] # List!Null
      PROVE  i < Last /\ listNext[NodeAt(order, i)] = order[i + 1]
  <2>1. PICK j \in 1 .. Last : NodeAt(order, i) = NodeAt(order, j - 1) /\ listNext[NodeAt(order, i)] = order[j]
    BY <1>1, <1>2 DEF ListInv, Chain
  <2>2. j - 1 \in 0 .. Last
    BY <1>1
  <2>3. i = j - 1
    BY <1>1, <2>1, <2>2
  <2> QED
    BY <1>1, <2>1, <2>3
<1> QED
  BY <1>1, <1>2

(* The list starts as the dummy node alone. *)
LEMMA ListInit == List!Init => ListInv
<1> SUFFICES ASSUME List!Init PROVE ListInv
  OBVIOUS
<1>1. Last = 0 /\ Reached = 0
  BY DEF List!Init, Last, Reached
<1>2. NodeAt(order, 0) = List!Dummy
  BY DEF NodeAt
<1>3. ListTypes
  BY NodeSets DEF List!Init, ListTypes
<1>4. Chain
  BY <1>1, <1>2 DEF List!Init, Chain
<1>5. Owned
  <2>1. \A n \in List!Elements : ~Known(n) /\ ~(n <= 0)
    BY <1>1, NodeSets DEF List!Init, Known
  <2>2. 0 \in 0 .. MaxNodes
    BY NodeSets
  <2>3. \E k \in 0 .. MaxNodes : \A n \in List!Elements : Known(n) <=> n <= k
    BY <2>1, <2>2
  <2> QED
    BY <2>3 DEF List!Init, Owned
<1>6. Taking
  BY <1>1, <1>2 DEF List!Init, Taking
<1>7. Living
  <2>1. \A n \in List!Nodes : InUse(n, 0) <=> n = List!Dummy
    BY <1>1, <1>2 DEF List!Init, InUse
  <2> QED
    BY <1>1, <2>1 DEF List!Init, Living
<1> QED
  BY <1>3, <1>4, <1>5, <1>6, <1>7 DEF ListInv

(* Steps that leave the chain and the producers alone. *)
LEMMA ChainAlone == ASSUME ListInv, UNCHANGED <<tail, listNext, ppc, new, prev, order>>
                    PROVE  Chain' /\ Owned'
<1>1. Last' = Last /\ \A i : NodeAt(order, i)' = NodeAt(order, i)
  BY DEF Last, NodeAt
<1>2. \A p, i : Linking(p, i)' <=> Linking(p, i)
  BY <1>1 DEF Linking
<1>3. \A n : Known(n)' <=> Known(n)
  BY <1>1 DEF Known
<1>4. Chain'
  BY <1>1, <1>2 DEF ListInv, Chain
<1>5. Owned'
  BY <1>1, <1>2, <1>3 DEF ListInv, Owned
<1> QED
  BY <1>4, <1>5

(* swap() starts or loads the next link: it sees the successor or the end. *)
LEMMA LoadKeeps ==
  ASSUME ListInv, listCpc \in {"idle", "load"}, listCpc' = "loop",
         listCur' = NodeAt(order, Reached), nxt' = listNext[NodeAt(order, Reached)],
         UNCHANGED <<head, tail, listNext, live, ppc, new, prev, order, out>>
  PROVE  ListInv'
<1>1. Chain' /\ Owned'
  BY ChainAlone
<1>2. Last' = Last /\ Reached' = Reached /\ \A i : NodeAt(order, i)' = NodeAt(order, i)
  BY DEF Last, Reached, NodeAt
<1>3. Reached \in 0 .. Last /\ NodeAt(order, Reached) \in List!Nodes
  BY ChainFacts
<1>4. ListTypes'
  BY <1>3 DEF ListInv, ListTypes
<1>5. nxt' # List!Null => Reached < Last /\ nxt' = order[Reached + 1]
  BY <1>3, LinkFacts, ChainFacts
<1>6. Taking'
  BY <1>2, <1>5 DEF ListInv, Taking
<1>7. Living'
  <2>1. \A n : InUse(n, Reached)' <=> InUse(n, Reached)
    BY <1>2 DEF InUse
  <2> QED
    BY <1>2, <2>1 DEF ListInv, Living
<1> QED
  BY <1>1, <1>4, <1>6, <1>7 DEF ListInv

LEMMA SwapEndKeeps == ASSUME ListInv, List!SwapEnd PROVE ListInv'
<1>1. /\ listCpc = "loop" /\ head' = listCur /\ listCpc' = "idle"
      /\ UNCHANGED <<tail, listNext, live, ppc, new, prev, listCur, nxt, order, out>>
  BY DEF List!SwapEnd, List!producerVars
<1>2. Chain' /\ Owned'
  BY <1>1, ChainAlone
<1>3. Last' = Last /\ Reached' = Reached /\ \A i : NodeAt(order, i)' = NodeAt(order, i)
  BY <1>1 DEF Last, Reached, NodeAt
<1>4. listCur = NodeAt(order, Reached) /\ NodeAt(order, Reached) \in List!Nodes
  BY <1>1, ChainFacts DEF ListInv, Taking
<1>5. ListTypes'
  BY <1>1, <1>4 DEF ListInv, ListTypes
<1>6. Taking'
  BY <1>1, <1>3, <1>4 DEF ListInv, Taking
<1>7. Living'
  <2>1. \A n : InUse(n, Reached)' <=> InUse(n, Reached)
    BY <1>1, <1>3 DEF InUse
  <2> QED
    BY <1>1, <1>3, <2>1 DEF ListInv, Living
<1> QED
  BY <1>2, <1>5, <1>6, <1>7 DEF ListInv

(* swap() deletes the node it leaves, which nobody else uses: its link is *)
(* stored, so no producer is about to store it.                           *)
LEMMA SwapAdvanceKeeps == ASSUME ListInv, List!SwapAdvance PROVE ListInv'
<1>1. /\ listCpc = "loop" /\ nxt # List!Null /\ live' = live \ {listCur} /\ listCur' = nxt
      /\ out' = Append(out, nxt) /\ listCpc' = "load"
      /\ UNCHANGED <<head, tail, listNext, ppc, new, prev, nxt, order>>
  BY DEF List!SwapAdvance, List!producerVars
<1>2. Chain' /\ Owned'
  BY <1>1, ChainAlone
<1>3. /\ Reached < Last /\ nxt = order[Reached + 1] /\ listCur = NodeAt(order, Reached)
      /\ listNext[NodeAt(order, Reached)] # List!Null
  BY <1>1 DEF ListInv, Taking
<1>4. /\ Last \in Nat /\ Reached \in Nat /\ Reached + 1 \in 1 .. Last
      /\ nxt \in List!Elements /\ nxt = NodeAt(order, Reached + 1)
  BY <1>3, ChainFacts
<1>5. /\ Last' = Last /\ Reached' = Reached + 1 /\ \A i : NodeAt(order, i)' = NodeAt(order, i)
      /\ out' \in Seq(List!Elements)
  BY <1>1, <1>4 DEF Last, Reached, NodeAt, ListInv, ListTypes
<1>6. \A i \in 1 .. Reached : out'[i] = out[i]
  BY <1>1, <1>4 DEF Reached, ListInv, ListTypes
<1>7. out'[Reached + 1] = nxt
  BY <1>1, <1>4 DEF Reached, ListInv, ListTypes
<1>8. ListTypes'
  <2>1. live' \in SUBSET List!Nodes
    BY <1>1 DEF ListInv, ListTypes
  <2> QED
    BY <1>1, <1>5, <2>1 DEF ListInv, ListTypes
<1>9. \A i \in 1 .. Reached + 1 : i \in 1 .. Reached \/ i = Reached + 1
  BY <1>4
<1>10. Taking'
  <2>1. \A i \in 1 .. Reached + 1 : out'[i] = order[i]
    BY <1>3, <1>6, <1>7, <1>9 DEF ListInv, Taking
  <2>2. \A i \in 1 .. Reached + 1 : listNext[NodeAt(order, i - 1)] # List!Null
    <3>1. (Reached + 1) - 1 = Reached
      BY <1>4
    <3> QED
      BY <1>3, <1>9, <3>1 DEF ListInv, Taking
  <2>3. Reached + 1 <= Last
    BY <1>3, <1>4
  <2>4. \A i \in 1 .. Reached + 1 : NodeAt(order, i - 1)' = NodeAt(order, i - 1)
    BY <1>5
  <2> QED
    BY <1>1, <1>4, <1>5, <2>1, <2>2, <2>3, <2>4 DEF Taking
<1>11. ASSUME NEW n \in List!Nodes PROVE n \in live' <=> InUse(n, Reached)'
  <2>1. n \in live <=> InUse(n, Reached)
    BY <1>1 DEF ListInv, Living
  <2>2. InUse(n, Reached)' <=> InUse(n, Reached + 1)
    BY <1>1, <1>5 DEF InUse
  <2>3. CASE n = listCur
    <3>1. \A i \in Reached + 1 .. Last : NodeAt(order, i) # n
      BY <1>3, <1>4, <2>3, ChainFacts
    <3>2. \A p \in Producers : ppc[p] = "exchange" => new[p] # n
      <4>1. n = List!Dummy \/ n \in {order[i] : i \in 1 .. Last}
        BY <1>3, <1>4, <2>3 DEF NodeAt
      <4> QED
        BY <4>1, NodeSets DEF ListInv, Owned
    <3> QED
      BY <1>1, <2>2, <2>3, <3>1, <3>2 DEF InUse
  <2>4. CASE n # listCur
    <3>1. InUse(n, Reached) <=> InUse(n, Reached + 1)
      <4>1. \A i \in Reached .. Last : i = Reached \/ i \in Reached + 1 .. Last
        BY <1>4
      <4>2. \A i \in Reached + 1 .. Last : i \in Reached .. Last
        BY <1>4
      <4> QED
        BY <1>3, <2>4, <4>1, <4>2 DEF InUse
    <3> QED
      BY <1>1, <2>1, <2>2, <2>4, <3>1
  <2> QED
    BY <2>3, <2>4
<1>12. Living'
  BY <1>1, <1>5, <1>11 DEF Living
<1> QED
  BY <1>2, <1>8, <1>10, <1>12 DEF ListInv

(* The destructor starts where swap() ended. *)
LEMMA DestroyBeginKeeps == ASSUME ListInv, List!Destroy PROVE ListInv'
<1>1. /\ listCpc = "idle" /\ \A p \in Producers : ppc[p] = "idle"
      /\ listCur' = head /\ listCpc' = "destroy"
      /\ UNCHANGED <<head, tail, listNext, live, ppc, new, prev, nxt, order, out>>
  BY DEF List!Destroy, List!producerVars
<1>2. Chain' /\ Owned'
  BY <1>1, ChainAlone
<1>3. Last' = Last /\ Reached' = Reached /\ \A i : NodeAt(order, i)' = NodeAt(order, i)
  BY <1>1 DEF Last, Reached, NodeAt
<1>4. head = NodeAt(order, Reached) /\ Reached \in 0 .. Last
  BY <1>1, ChainFacts DEF ListInv, Taking
<1>5. ListTypes'
  BY <1>1 DEF ListInv, ListTypes
<1>6. Taking'
  BY <1>1, <1>3 DEF ListInv, Taking
<1>7. Living'
  <2>1. \A n, k : InUse(n, k)' <=> InUse(n, k)
    BY <1>1, <1>3 DEF InUse
  <2>2. \A n \in List!Nodes : n \in live' <=> InUse(n, Reached)
    BY <1>1 DEF ListInv, Living
  <2>3. \E k \in 0 .. Last' : listCur' = NodeAt(order, k)' /\ \A n \in List!Nodes : n \in live' <=> InUse(n, k)'
    BY <1>1, <1>3, <1>4, <2>1, <2>2
  <2> QED
    BY <1>1, <2>3 DEF Living
<1> QED
  BY <1>2, <1>5, <1>6, <1>7 DEF ListInv

(* The destructor deletes the chain node by node: nothing cuts it now. *)
LEMMA DestroyNodeKeeps == ASSUME ListInv, List!DestroyNode PROVE ListInv'
<1>1. /\ listCpc = "destroy" /\ live' = live \ {listCur} /\ listCur' = listNext[listCur]
      /\ listCpc' = (IF listNext[listCur] = List!Null THEN "destroyed" ELSE "destroy")
      /\ UNCHANGED <<head, tail, listNext, ppc, new, prev, nxt, order, out>>
  BY DEF List!DestroyNode, List!producerVars
<1>2. Chain' /\ Owned'
  BY <1>1, ChainAlone
<1>3. Last' = Last /\ Reached' = Reached /\ \A i : NodeAt(order, i)' = NodeAt(order, i)
  BY <1>1 DEF Last, Reached, NodeAt
<1>4. \A p \in Producers : ppc[p] = "idle"
  BY <1>1 DEF ListInv, Living
<1>5. PICK k \in 0 .. Last : listCur = NodeAt(order, k) /\ \A n \in List!Nodes : n \in live <=> InUse(n, k)
  BY <1>1 DEF ListInv, Living
<1>6. Last \in Nat /\ listCur \in List!Nodes
  BY <1>5, ChainFacts
<1>7. ListTypes'
  <2>1. live' \in SUBSET List!Nodes /\ listCur' \in List!Nodes \cup {List!Null}
    BY <1>1, <1>6 DEF ListInv, ListTypes
  <2>2. listCpc' \in {"idle", "loop", "load", "destroy", "destroyed"}
    BY <1>1
  <2> QED
    BY <1>1, <2>1, <2>2 DEF ListInv, ListTypes
<1>8. Taking'
  BY <1>1, <1>3 DEF ListInv, Taking
<1>9. \A n \in List!Nodes : InUse(n, k) <=> \E i \in k .. Last : n = NodeAt(order, i)
  BY <1>4 DEF InUse
<1>10. \A n \in List!Nodes : n \in live' <=> \E i \in k + 1 .. Last : n = NodeAt(order, i)
  <2> SUFFICES ASSUME NEW n \in List!Nodes PROVE n \in live' <=> \E i \in k + 1 .. Last : n = NodeAt(order, i)
    OBVIOUS
  <2>1. n \in live <=> \E i \in k .. Last : n = NodeAt(order, i)
    BY <1>5, <1>9
  <2>2. \A i \in k .. Last : i = k \/ i \in k + 1 .. Last
    BY <1>6
  <2>3. \A i \in k + 1 .. Last : i \in k .. Last /\ NodeAt(order, i) # NodeAt(order, k)
    BY <1>6, ChainFacts
  <2> QED
    BY <1>1, <1>5, <2>1, <2>2, <2>3
<1>11. CASE k = Last
  <2>1. listNext[listCur] = List!Null
    BY <1>5, <1>11, LinkFacts
  <2>2. \A i : i \notin k + 1 .. Last
    BY <1>6, <1>11
  <2>3. live' = {}
    BY <1>10, <1>7, <2>2 DEF ListTypes
  <2>4. Living'
    BY <1>1, <1>4, <2>1, <2>3 DEF Living
  <2> QED
    BY <1>2, <1>7, <1>8, <2>4 DEF ListInv
<1>12. CASE k # Last
  <2>1. k + 1 \in 1 .. Last /\ k + 1 \in 0 .. Last /\ k < Last /\ (k + 1) - 1 = k
    BY <1>6, <1>12
  <2>2. listNext[listCur] # List!Null
    BY <1>4, <1>5, <2>1 DEF ListInv, Chain, Linking
  <2>3. listCur' = NodeAt(order, k + 1)
    BY <1>1, <1>5, <2>1, <2>2, LinkFacts, ChainFacts
  <2>4. \A n \in List!Nodes : n \in live' <=> InUse(n, k + 1)
    BY <1>4, <1>10 DEF InUse
  <2>5. \A n, j : InUse(n, j)' <=> InUse(n, j)
    BY <1>1, <1>3 DEF InUse
  <2>6. \E j \in 0 .. Last' : listCur' = NodeAt(order, j)' /\ \A n \in List!Nodes : n \in live' <=> InUse(n, j)'
    BY <1>3, <2>1, <2>3, <2>4, <2>5
  <2>7. Living'
    BY <1>1, <1>4, <2>2, <2>6 DEF Living
  <2> QED
    BY <1>2, <1>7, <1>8, <2>7 DEF ListInv
<1> QED
  BY <1>11, <1>12

(* A producer stores the link it owes. *)
LEMMA LinkKeeps == ASSUME ListInv, NEW p \in Producers, List!Link(p) PROVE ListInv'
<1>1. /\ ppc[p] = "link" /\ listNext' = [listNext EXCEPT ![prev[p]] = new[p]]
      /\ ppc' = [ppc EXCEPT ![p] = "idle"]
      /\ UNCHANGED <<head, tail, live, new, prev, listCpc, listCur, nxt, out, order>>
  BY DEF List!Link, List!consumerVars
<1>2. Last' = Last /\ Reached' = Reached /\ \A i : NodeAt(order, i)' = NodeAt(order, i)
  BY <1>1 DEF Last, Reached, NodeAt
<1>3. PICK i \in 1 .. Last : Linking(p, i) /\ listNext[NodeAt(order, i - 1)] = List!Null
  BY <1>1 DEF ListInv, Owned
<1>4. /\ Last \in Nat /\ Reached \in Nat /\ i - 1 \in 0 .. Last /\ order[i] \in List!Elements
      /\ NodeAt(order, i - 1) \in List!Nodes
      /\ \A j \in 1 .. Last : j # i => NodeAt(order, j - 1) # NodeAt(order, i - 1)
  BY ChainFacts
<1>5. prev[p] = NodeAt(order, i - 1) /\ new[p] = order[i]
  BY <1>3 DEF Linking
<1>6. /\ listNext' \in [List!Nodes -> List!Nodes \cup {List!Null}]
      /\ listNext'[NodeAt(order, i - 1)] = order[i] /\ order[i] # List!Null
      /\ \A n \in List!Nodes : n # NodeAt(order, i - 1) => listNext'[n] = listNext[n]
  BY <1>1, <1>4, <1>5, NodeSets DEF ListInv, ListTypes
<1>7. /\ ppc' \in [Producers -> {"idle", "exchange", "link"}] /\ ppc'[p] = "idle"
      /\ \A q \in Producers : q # p => ppc'[q] = ppc[q]
  BY <1>1 DEF ListInv, ListTypes
<1>8. ListTypes'
  BY <1>1, <1>6, <1>7 DEF ListInv, ListTypes
<1>9. \A q \in Producers : \A j : q # p => (Linking(q, j)' <=> Linking(q, j))
  BY <1>1, <1>2, <1>7 DEF Linking
<1>10. \A j \in 1 .. Last : NodeAt(order, j - 1) \in List!Nodes
  BY <1>4, ChainFacts
<1>11. Chain'
  <2>1. ASSUME NEW n \in List!Nodes, listNext'[n] # List!Null
        PROVE  \E j \in 1 .. Last : n = NodeAt(order, j - 1) /\ listNext'[n] = order[j]
    <3>1. CASE n = NodeAt(order, i - 1)
      BY <1>6, <3>1
    <3>2. CASE n # NodeAt(order, i - 1)
      BY <1>6, <2>1, <3>2 DEF ListInv, Chain
    <3> QED
      BY <3>1, <3>2
  <2>2. ASSUME NEW j \in 1 .. Last, listNext'[NodeAt(order, j - 1)] = List!Null
        PROVE  \E q \in Producers : Linking(q, j)'
    <3>1. j # i
      BY <1>6, <2>2
    <3>2. listNext[NodeAt(order, j - 1)] = List!Null
      BY <1>4, <1>6, <1>10, <2>2, <3>1
    <3>3. PICK q \in Producers : Linking(q, j)
      BY <3>2 DEF ListInv, Chain
    <3>4. q # p
      BY <1>4, <1>5, <3>1, <3>3 DEF Linking
    <3> QED
      BY <1>9, <3>3, <3>4
  <2> QED
    BY <1>1, <1>2, <2>1, <2>2 DEF ListInv, Chain
<1>12. Owned'
  <2>1. \A n : Known(n)' <=> Known(n)
    BY <1>1, <1>2, <1>7 DEF Known
  <2>2. ASSUME NEW q \in Producers, ppc'[q] = "link"
        PROVE  \E j \in 1 .. Last : Linking(q, j)' /\ listNext'[NodeAt(order, j - 1)] = List!Null
    <3>1. q # p /\ ppc[q] = "link"
      BY <1>7, <2>2
    <3>2. PICK j \in 1 .. Last : Linking(q, j) /\ listNext[NodeAt(order, j - 1)] = List!Null
      BY <3>1 DEF ListInv, Owned
    <3>3. j # i
      BY <1>1, <1>5, <3>1, <3>2 DEF ListInv, Owned, Linking
    <3>4. listNext'[NodeAt(order, j - 1)] = List!Null
      BY <1>4, <1>6, <1>10, <3>2, <3>3
    <3> QED
      BY <1>9, <3>1, <3>2, <3>4
  <2>3. \A q, r \in Producers : ppc'[q] # "idle" /\ ppc'[r] # "idle" /\ new'[q] = new'[r] => q = r
    BY <1>1, <1>7 DEF ListInv, Owned
  <2>4. \A q \in Producers : ppc'[q] = "exchange" =>
              new'[q] \in List!Elements /\ \A j \in 1 .. Last : order[j] # new'[q]
    BY <1>1, <1>7 DEF ListInv, Owned
  <2>5. \E k \in 0 .. MaxNodes : \A n \in List!Elements : Known(n)' <=> n <= k
    BY <2>1 DEF ListInv, Owned
  <2> QED
    BY <1>1, <1>2, <2>2, <2>3, <2>4, <2>5 DEF Owned
<1>13. Taking'
  <2>1. \A j \in 1 .. Reached : listNext'[NodeAt(order, j - 1)] # List!Null
    <3>1. \A j \in 1 .. Reached : j \in 1 .. Last
      BY <1>4, ChainFacts
    <3> QED
      BY <1>6, <1>10, <3>1 DEF ListInv, Taking
  <2>2. listCpc = "loop" /\ nxt # List!Null => listNext'[NodeAt(order, Reached)] # List!Null
    BY <1>6, ChainFacts DEF ListInv, Taking
  <2> QED
    BY <1>1, <1>2, <2>1, <2>2 DEF ListInv, Taking
<1>14. Living'
  <2>1. \A n, k : InUse(n, k)' <=> InUse(n, k)
    BY <1>1, <1>2, <1>7 DEF InUse
  <2>2. listCpc \notin {"destroy", "destroyed"}
    BY <1>1 DEF ListInv, Living
  <2> QED
    BY <1>1, <1>2, <2>1, <2>2 DEF ListInv, Living
<1> QED
  BY <1>8, <1>11, <1>12, <1>13, <1>14 DEF ListInv

(* A new node is known to nobody: the nodes are numbered as they are made. *)
LEMMA AllocateFresh ==
  ASSUME ListInv, listCpc \notin {"destroy", "destroyed"}, List!Made < MaxNodes
  PROVE  /\ List!Made \in 0 .. MaxNodes /\ List!Made + 1 \in List!Elements
         /\ \A n \in List!Elements : Known(n) <=> n <= List!Made
<1>1. PICK k \in 0 .. MaxNodes : \A n \in List!Elements : Known(n) <=> n <= k
  BY DEF ListInv, Owned
<1>2. ASSUME NEW n \in List!Elements
      PROVE  (n \in live \/ \E i \in DOMAIN out : out[i] = n) <=> Known(n)
  <2>1. /\ Last \in Nat /\ Reached \in Nat /\ Reached <= Last /\ DOMAIN out = 1 .. Reached
        /\ \A i \in 1 .. Last : NodeAt(order, i) = order[i]
        /\ NodeAt(order, 0) # n
    BY ChainFacts, NodeSets
  <2>2. n \in live <=> InUse(n, Reached)
    BY NodeSets DEF ListInv, Living
  <2>3. (\E i \in DOMAIN out : out[i] = n) <=> \E i \in 1 .. Reached : order[i] = n
    BY <2>1 DEF ListInv, Taking
  <2>4. \A i \in 1 .. Last : i \in 1 .. Reached \/ i \in Reached .. Last
    BY <2>1
  <2>5. \A i \in Reached .. Last : i = 0 \/ i \in 1 .. Last
    BY <2>1
  <2>6. \A i \in 1 .. Reached : i \in 1 .. Last
    BY <2>1
  <2> QED
    BY <2>1, <2>2, <2>3, <2>4, <2>5, <2>6 DEF InUse, Known
<1>3. {n \in List!Elements : n \in live \/ \E i \in DOMAIN out : out[i] = n} = 1 .. k
  <2>1. {n \in List!Elements : n \in live \/ \E i \in DOMAIN out : out[i] = n} = {n \in List!Elements : n <= k}
    BY <1>1, <1>2
  <2>2. {n \in List!Elements : n <= k} = 1 .. k
    BY NodeSets
  <2> QED
    BY <2>1, <2>2
<1>4. Cardinality(1 .. k) = k
  <2>1. Cardinality(1 .. k) = (IF 1 > k THEN 0 ELSE k - 1 + 1)
    BY NodeSets, FS_Interval
  <2> QED
    BY <2>1, NodeSets
<1>5. List!Made = k
  <2>1. List!Made = List!Cardinality(1 .. k)
    BY <1>3 DEF List!Made
  <2>2. List!Cardinality(1 .. k) = Cardinality(1 .. k)
    BY DEF List!Cardinality, Cardinality, List!IsFiniteSet, IsFiniteSet
  <2> QED
    BY <1>4, <2>1, <2>2
<1> QED
  BY <1>1, <1>5, NodeSets

(* emplace_back() allocates a node that no thread and no list has. *)
LEMMA AllocateKeeps == ASSUME ListInv, NEW p \in Producers, List!Allocate(p) PROVE ListInv'
<1> DEFINE m == List!Made + 1
<1>1. /\ ppc[p] = "idle" /\ listCpc \notin {"destroy", "destroyed"} /\ List!Made < MaxNodes
      /\ new' = [new EXCEPT ![p] = m] /\ live' = live \cup {m}
      /\ prev' = [prev EXCEPT ![p] = List!Null] /\ ppc' = [ppc EXCEPT ![p] = "exchange"]
      /\ UNCHANGED <<head, tail, listNext, listCpc, listCur, nxt, out, order>>
  BY DEF List!Allocate, List!consumerVars
<1>2. /\ List!Made \in 0 .. MaxNodes /\ m \in List!Elements
      /\ \A n \in List!Elements : Known(n) <=> n <= List!Made
  BY <1>1, AllocateFresh
<1>3. m \in 0 .. MaxNodes /\ ~Known(m) /\ \A n \in List!Elements : n <= m <=> n <= List!Made \/ n = m
  BY <1>2, NodeSets
<1> HIDE DEF m
<1>4. Last' = Last /\ Reached' = Reached /\ \A i : NodeAt(order, i)' = NodeAt(order, i)
  BY <1>1 DEF Last, Reached, NodeAt
<1>5. /\ new' \in [Producers -> List!Nodes \cup {List!Null}] /\ new'[p] = m
      /\ prev' \in [Producers -> List!Nodes \cup {List!Null}]
      /\ \A q \in Producers : q # p => new'[q] = new[q] /\ prev'[q] = prev[q]
  BY <1>1, <1>2, NodeSets DEF ListInv, ListTypes
<1>6. /\ ppc' \in [Producers -> {"idle", "exchange", "link"}] /\ ppc'[p] = "exchange"
      /\ \A q \in Producers : q # p => ppc'[q] = ppc[q]
  BY <1>1 DEF ListInv, ListTypes
<1>7. ListTypes'
  <2>1. live' \in SUBSET List!Nodes
    BY <1>1, <1>2, NodeSets DEF ListInv, ListTypes
  <2> QED
    BY <1>1, <1>5, <1>6, <2>1 DEF ListInv, ListTypes
<1>8. \A q \in Producers : \A i : Linking(q, i)' <=> Linking(q, i)
  BY <1>1, <1>4, <1>5, <1>6 DEF Linking
<1>9. Chain'
  BY <1>1, <1>4, <1>8 DEF ListInv, Chain
<1>10. \A i \in 1 .. Last : order[i] # m
  BY <1>3 DEF Known
<1>11. \A q \in Producers : ppc[q] # "idle" => new[q] # m
  <2>1. ASSUME NEW q \in Producers, ppc[q] = "link" PROVE new[q] # m
    BY <1>10, <2>1 DEF ListInv, Owned, Linking
  <2>2. ASSUME NEW q \in Producers, ppc[q] = "exchange" PROVE new[q] # m
    BY <1>3, <2>2 DEF Known
  <2> QED
    BY <2>1, <2>2 DEF ListInv, ListTypes
<1>12. Owned'
  <2>1. \A n : Known(n)' <=> Known(n) \/ n = m
    BY <1>1, <1>4, <1>5, <1>6 DEF Known
  <2>2. \E k \in 0 .. MaxNodes : \A n \in List!Elements : Known(n)' <=> n <= k
    BY <1>2, <1>3, <2>1
  <2>3. \A q, r \in Producers : ppc'[q] # "idle" /\ ppc'[r] # "idle" /\ new'[q] = new'[r] => q = r
    BY <1>5, <1>6, <1>11 DEF ListInv, Owned
  <2>4. \A q \in Producers : ppc'[q] = "exchange" =>
              new'[q] \in List!Elements /\ \A i \in 1 .. Last : order[i] # new'[q]
    BY <1>2, <1>5, <1>6, <1>10 DEF ListInv, Owned
  <2>5. \A q \in Producers : ppc'[q] = "link" =>
              \E i \in 1 .. Last : Linking(q, i)' /\ listNext[NodeAt(order, i - 1)] = List!Null
    BY <1>6, <1>8 DEF ListInv, Owned
  <2> QED
    BY <1>1, <1>4, <2>2, <2>3, <2>4, <2>5 DEF Owned
<1>13. Taking'
  BY <1>1, <1>4 DEF ListInv, Taking
<1>14. Living'
  <2>1. \A n : InUse(n, Reached)' <=> InUse(n, Reached) \/ n = m
    BY <1>1, <1>4, <1>5, <1>6 DEF InUse
  <2>2. \A n \in List!Nodes : n \in live' <=> InUse(n, Reached)'
    BY <1>1, <2>1 DEF ListInv, Living
  <2> QED
    BY <1>1, <2>2 DEF Living
<1> QED
  BY <1>7, <1>9, <1>12, <1>13, <1>14 DEF ListInv

(* Exchanging tail_ puts the node at the end of the chain, with its *)
(* predecessor's link missing.                                       *)
LEMMA ExchangeKeeps == ASSUME ListInv, NEW p \in Producers, List!Exchange(p) PROVE ListInv'
<1>1. /\ ppc[p] = "exchange" /\ prev' = [prev EXCEPT ![p] = tail] /\ tail' = new[p]
      /\ order' = Append(order, new[p]) /\ ppc' = [ppc EXCEPT ![p] = "link"]
      /\ UNCHANGED <<head, listNext, live, new, listCpc, listCur, nxt, out>>
  BY DEF List!Exchange, List!consumerVars
<1>2. /\ Last \in Nat /\ Reached \in Nat /\ Reached <= Last /\ tail = NodeAt(order, Last)
      /\ NodeAt(order, Last) \in List!Nodes
  BY ChainFacts DEF ListInv, Chain
<1>3. new[p] \in List!Elements /\ \A i \in 1 .. Last : order[i] # new[p]
  BY <1>1 DEF ListInv, Owned
<1>4. /\ Last' = Last + 1 /\ Reached' = Reached /\ order' \in Seq(List!Elements)
      /\ order'[Last + 1] = new[p] /\ \A i \in 1 .. Last : order'[i] = order[i]
  BY <1>1, <1>3 DEF Last, Reached, ListInv, ListTypes
<1>5. /\ \A i \in 0 .. Last : NodeAt(order', i) = NodeAt(order, i)
      /\ NodeAt(order', Last + 1) = new[p]
  BY <1>2, <1>4 DEF NodeAt
<1>6. \A i \in 1 .. Last + 1 : i \in 1 .. Last \/ i = Last + 1
  BY <1>2
<1>7. /\ \A i \in 1 .. Last : i - 1 \in 0 .. Last /\ i \in 1 .. Last + 1
      /\ (Last + 1) - 1 = Last /\ Last \in 0 .. Last /\ Last + 1 \in 1 .. Last + 1
  BY <1>2
<1>8. \A i \in 1 .. Last : NodeAt(order', i - 1) = NodeAt(order, i - 1)
  BY <1>5, <1>7
<1>9. /\ prev' \in [Producers -> List!Nodes \cup {List!Null}] /\ prev'[p] = NodeAt(order, Last)
      /\ \A q \in Producers : q # p => prev'[q] = prev[q]
  BY <1>1, <1>2 DEF ListInv, ListTypes
<1>10. /\ ppc' \in [Producers -> {"idle", "exchange", "link"}] /\ ppc'[p] = "link"
       /\ \A q \in Producers : q # p => ppc'[q] = ppc[q]
  BY <1>1 DEF ListInv, ListTypes
<1>11. ListTypes'
  BY <1>1, <1>4, <1>9, <1>10 DEF ListInv, ListTypes
<1>12. ASSUME NEW q \in Producers, NEW i \in 1 .. Last, Linking(q, i)
       PROVE  /\ ppc'[q] = "link" /\ prev'[q] = NodeAt(order', i - 1) /\ new'[q] = order'[i]
  <2>1. q # p
    BY <1>1, <1>12 DEF Linking
  <2> QED
    BY <1>1, <1>4, <1>8, <1>9, <1>10, <1>12, <2>1 DEF Linking
<1>13. ppc'[p] = "link" /\ prev'[p] = NodeAt(order', (Last + 1) - 1) /\ new'[p] = order'[Last + 1]
  BY <1>1, <1>4, <1>5, <1>7, <1>9, <1>10
<1>14. listNext[NodeAt(order, Last)] = List!Null
  BY LinkFacts
<1>15. Chain'
  <2>1. tail' = NodeAt(order', Last')
    BY <1>1, <1>4, <1>5
  <2>2. \A i, j \in 1 .. Last + 1 : order'[i] = order'[j] => i = j
    BY <1>3, <1>4, <1>6 DEF ListInv, Chain
  <2>3. ASSUME NEW n \in List!Nodes, listNext[n] # List!Null
        PROVE  \E i \in 1 .. Last + 1 : n = NodeAt(order', i - 1) /\ listNext[n] = order'[i]
    <3>1. PICK i \in 1 .. Last : n = NodeAt(order, i - 1) /\ listNext[n] = order[i]
      BY <2>3 DEF ListInv, Chain
    <3> QED
      BY <1>4, <1>7, <1>8, <3>1
  <2>4. ASSUME NEW i \in 1 .. Last + 1, listNext[NodeAt(order', i - 1)] = List!Null
        PROVE  \E q \in Producers : ppc'[q] = "link" /\ prev'[q] = NodeAt(order', i - 1) /\ new'[q] = order'[i]
    <3>1. CASE i \in 1 .. Last
      <4>1. PICK q \in Producers : Linking(q, i)
        BY <1>8, <2>4, <3>1 DEF ListInv, Chain
      <4> QED
        BY <1>12, <3>1, <4>1
    <3>2. CASE i = Last + 1
      BY <1>13, <3>2
    <3> QED
      BY <1>6, <3>1, <3>2
  <2> QED
    BY <1>1, <1>4, <2>1, <2>2, <2>3, <2>4 DEF Chain, Linking
<1>16. Owned'
  <2>1. ASSUME NEW n PROVE Known(n)' <=> Known(n)
    <3>1. (\E i \in 1 .. Last + 1 : order'[i] = n) <=> (\E i \in 1 .. Last : order[i] = n) \/ n = new[p]
      BY <1>4, <1>6, <1>7
    <3> QED
      BY <1>1, <1>4, <1>10, <3>1 DEF Known
  <2>2. \E k \in 0 .. MaxNodes : \A n \in List!Elements : Known(n)' <=> n <= k
    BY <2>1 DEF ListInv, Owned
  <2>3. \A q, r \in Producers : ppc'[q] # "idle" /\ ppc'[r] # "idle" /\ new'[q] = new'[r] => q = r
    BY <1>1, <1>10 DEF ListInv, Owned
  <2>4. ASSUME NEW q \in Producers, ppc'[q] = "exchange"
        PROVE  new'[q] \in List!Elements /\ \A i \in 1 .. Last + 1 : order'[i] # new'[q]
    <3>1. q # p /\ ppc[q] = "exchange"
      BY <1>10, <2>4
    <3>2. new[q] # new[p]
      BY <1>1, <3>1 DEF ListInv, Owned
    <3> QED
      BY <1>1, <1>4, <1>6, <3>1, <3>2 DEF ListInv, Owned
  <2>5. ASSUME NEW q \in Producers, ppc'[q] = "link"
        PROVE  \E i \in 1 .. Last + 1 : /\ ppc'[q] = "link" /\ prev'[q] = NodeAt(order', i - 1) /\ new'[q] = order'[i]
                                        /\ listNext[NodeAt(order', i - 1)] = List!Null
    <3>1. CASE q = p
      BY <1>5, <1>7, <1>13, <1>14, <3>1
    <3>2. CASE q # p
      <4>1. PICK i \in 1 .. Last : Linking(q, i) /\ listNext[NodeAt(order, i - 1)] = List!Null
        BY <1>10, <2>5, <3>2 DEF ListInv, Owned
      <4> QED
        BY <1>7, <1>8, <1>12, <4>1
    <3> QED
      BY <3>1, <3>2
  <2> QED
    BY <1>1, <1>4, <2>2, <2>3, <2>4, <2>5 DEF Owned, Linking
<1>17. Taking'
  <2>1. \A i \in 1 .. Reached : i \in 1 .. Last
    BY <1>2
  <2>2. Reached \in 0 .. Last /\ Reached <= Last + 1 /\ (Reached < Last => Reached < Last + 1 /\ Reached + 1 \in 1 .. Last)
    BY <1>2
  <2> QED
    BY <1>1, <1>4, <1>5, <1>8, <2>1, <2>2 DEF ListInv, Taking
<1>18. Living'
  <2>1. ASSUME NEW n \in List!Nodes PROVE InUse(n, Reached)' <=> InUse(n, Reached)
    <3>1. (\E i \in Reached .. Last + 1 : n = NodeAt(order', i)) <=> (\E i \in Reached .. Last : n = NodeAt(order, i)) \/ n = new[p]
      <4>1. \A i \in Reached .. Last : i \in 0 .. Last /\ i \in Reached .. Last + 1
        BY <1>2
      <4>2. \A i \in Reached .. Last + 1 : i \in Reached .. Last \/ i = Last + 1
        BY <1>2
      <4>3. Last + 1 \in Reached .. Last + 1
        BY <1>2
      <4> QED
        BY <1>5, <4>1, <4>2, <4>3
    <3> QED
      BY <1>1, <1>4, <1>10, <3>1 DEF InUse
  <2>2. listCpc \notin {"destroy", "destroyed"}
    BY <1>1 DEF ListInv, Living
  <2> QED
    BY <1>1, <2>1, <2>2 DEF ListInv, Living
<1> QED
  BY <1>11, <1>15, <1>16, <1>17, <1>18 DEF ListInv

(* Every step of the producers, swap() and the destructor preserves it. *)
LEMMA ListNextKeeps == ASSUME ListInv, [List!Next]_listVars PROVE ListInv'
<1>1. CASE List!SwapBegin
  <2>1. /\ listCpc = "idle" /\ listCur' = head /\ nxt' = listNext[head] /\ listCpc' = "loop"
        /\ UNCHANGED <<head, tail, listNext, live, ppc, new, prev, order, out>>
    BY <1>1 DEF List!SwapBegin, List!producerVars
  <2>2. head = NodeAt(order, Reached)
    BY <2>1 DEF ListInv, Taking
  <2> QED
    BY <2>1, <2>2, LoadKeeps
<1>2. CASE List!SwapLoad
  <2>1. /\ listCpc = "load" /\ nxt' = listNext[listCur] /\ listCpc' = "loop" /\ listCur' = listCur
        /\ UNCHANGED <<head, tail, listNext, live, ppc, new, prev, order, out>>
    BY <1>2 DEF List!SwapLoad, List!producerVars
  <2>2. listCur = NodeAt(order, Reached)
    BY <2>1 DEF ListInv, Taking
  <2> QED
    BY <2>1, <2>2, LoadKeeps
<1>3. CASE UNCHANGED listVars
  <2>1. /\ Last' = Last /\ Reached' = Reached /\ \A i : NodeAt(order, i)' = NodeAt(order, i)
        /\ UNCHANGED <<head, tail, listNext, live, ppc, new, prev, listCpc, listCur, nxt, order, out>>
    BY <1>3 DEF listVars, Last, Reached, NodeAt
  <2>2. \A n, k : InUse(n, k)' <=> InUse(n, k)
    BY <2>1 DEF InUse
  <2>3. Chain' /\ Owned'
    BY <2>1, ChainAlone
  <2>4. ListTypes' /\ Taking'
    BY <2>1 DEF ListInv, ListTypes, Taking
  <2>5. Living'
    BY <2>1, <2>2 DEF ListInv, Living
  <2> QED
    BY <2>3, <2>4, <2>5 DEF ListInv
<1>4. CASE List!Destroyed
  BY <1>3, <1>4 DEF List!Destroyed, List!vars, listVars
<1> QED
  BY <1>1, <1>2, <1>3, <1>4, AllocateKeeps, ExchangeKeeps, LinkKeeps, SwapAdvanceKeeps, SwapEndKeeps,
     DestroyBeginKeeps, DestroyNodeKeeps DEF List!Next, List!Swap

(* What the invariant says of the list. *)
LEMMA ListOfInv == ListInv => ListRight
<1> SUFFICES ASSUME ListInv PROVE ListRight
  OBVIOUS
<1>1. /\ Last \in Nat /\ Reached \in Nat /\ Reached <= Last
      /\ \A i \in 0 .. Last : NodeAt(order, i) \in List!Nodes
      /\ \A i \in 1 .. Last : NodeAt(order, i) = order[i]
  BY ChainFacts
<1>2. List!TypeOK
  <2>1. tail \in List!Nodes
    BY <1>1 DEF ListInv, Chain
  <2> QED
    BY <2>1 DEF ListInv, ListTypes, List!TypeOK
<1>3. List!NoUseAfterDelete
  <2>1. \A i \in Reached .. Last : NodeAt(order, i) \in List!Nodes /\ InUse(NodeAt(order, i), Reached)
    BY <1>1 DEF InUse
  <2>2. Reached \in Reached .. Last /\ Last \in Reached .. Last
    BY <1>1
  <2>3. ASSUME NEW p \in Producers, ppc[p] = "link" PROVE prev[p] \in live
    <3>1. PICK i \in 1 .. Last : Linking(p, i) /\ listNext[NodeAt(order, i - 1)] = List!Null
      BY <2>3 DEF ListInv, Owned
    <3>2. ~(i \in 1 .. Reached)
      BY <3>1 DEF ListInv, Taking
    <3>3. i - 1 \in Reached .. Last
      BY <1>1, <3>2
    <3>4. listCpc \notin {"destroy", "destroyed"}
      BY <2>3 DEF ListInv, Living
    <3> QED
      BY <2>1, <3>1, <3>3, <3>4 DEF ListInv, Living, Linking
  <2>4. listCpc = "idle" => head \in live
    BY <2>1, <2>2 DEF ListInv, Living, Taking
  <2>5. listCpc \in {"loop", "load"} => listCur \in live
    BY <2>1, <2>2 DEF ListInv, Living, Taking
  <2>6. ASSUME listCpc = "destroy" PROVE listCur \in live /\ tail \in live
    <3>1. PICK k \in 0 .. Last : listCur = NodeAt(order, k) /\ \A n \in List!Nodes : n \in live <=> InUse(n, k)
      BY <2>6 DEF ListInv, Living
    <3>2. k \in k .. Last /\ Last \in k .. Last /\ Last \in 0 .. Last
      BY <1>1
    <3>3. InUse(NodeAt(order, k), k) /\ InUse(NodeAt(order, Last), k)
      BY <3>2 DEF InUse
    <3> QED
      BY <1>1, <3>1, <3>2, <3>3 DEF ListInv, Chain
  <2>7. listCpc \notin {"destroy", "destroyed"} => tail \in live
    BY <2>1, <2>2 DEF ListInv, Living, Chain
  <2> QED
    BY <2>3, <2>4, <2>5, <2>6, <2>7 DEF List!NoUseAfterDelete
<1>4. List!OnlyCutByLinkers
  <2> SUFFICES ASSUME NEW i \in 1 .. Len(order)
               PROVE  LET before == IF i = 1 THEN List!Dummy ELSE order[i - 1]
                      IN  \/ listNext[before] = order[i]
                          \/ /\ listNext[before] = List!Null
                             /\ List!Cardinality({p \in Producers : /\ ppc[p] = "link" /\ prev[p] = before
                                                                    /\ new[p] = order[i]}) = 1
    BY DEF List!OnlyCutByLinkers
  <2>1. i \in 1 .. Last /\ i - 1 \in 0 .. Last /\ i - 1 < Last /\ (i - 1) + 1 = i
    BY <1>1 DEF Last
  <2>2. NodeAt(order, i - 1) = IF i = 1 THEN List!Dummy ELSE order[i - 1]
    BY <2>1 DEF NodeAt
  <2> DEFINE before == NodeAt(order, i - 1)
             linkers == {p \in Producers : ppc[p] = "link" /\ prev[p] = before /\ new[p] = order[i]}
  <2>3. listNext[before] \in {order[i], List!Null}
    BY <2>1, LinkFacts
  <2>4. ASSUME listNext[before] = List!Null PROVE List!Cardinality(linkers) = 1
    <3>1. PICK p \in Producers : Linking(p, i)
      BY <2>1, <2>4 DEF ListInv, Chain
    <3>2. p \in linkers
      BY <3>1 DEF Linking
    <3>3. \A q \in linkers : q = p
      BY <3>1 DEF ListInv, Owned, Linking
    <3>4. linkers = {p}
      BY <3>2, <3>3
    <3>5. Cardinality({p}) = 1
      BY FS_Singleton
    <3>6. List!Cardinality({p}) = Cardinality({p})
      BY DEF List!Cardinality, Cardinality, List!IsFiniteSet, IsFiniteSet
    <3> QED
      BY <3>4, <3>5, <3>6
  <2> QED
    BY <2>2, <2>3, <2>4
<1>5. List!TakenInOrder
  <2>1. out \in Seq(List!Elements) /\ order \in Seq(List!Elements) /\ Len(out) <= Len(order)
    BY <1>1 DEF ListInv, ListTypes, Last, Reached
  <2>2. \A i \in 1 .. Len(out) : out[i] = order[i]
    BY DEF ListInv, Taking, Reached
  <2>3. out = SubSeq(order, 1, Len(out))
    BY <2>1, <2>2
  <2> QED
    BY <2>1, <2>3 DEF List!TakenInOrder
<1>6. List!NoLeak
  BY DEF ListInv, Living, List!NoLeak
<1> QED
  BY <1>2, <1>3, <1>4, <1>5, <1>6 DEF ListRight

(***************************************************************************)
(* LockeFreeQueue for any number of producers and elements: no thread      *)
(* touches a deleted node, not even the producer that links a predecessor  *)
(* swap() has reached, the list is cut only where one producer is about to *)
(* link, swap() takes every element once and in the order of tail_, and    *)
(* the destructor leaves no node.                                          *)
(***************************************************************************)
THEOREM ListAlwaysRight == Spec => []ListRight
<1>1. Init => ListInv
  BY ListInit DEF Init
<1>2. ListInv /\ [Next]_vars => ListInv'
  BY StepOfPart, ListNextKeeps
<1> QED
  BY <1>1, <1>2, ListOfInv, PTL DEF Spec

-----------------------------------------------------------------------------
(***************************************************************************)
(* OneManager: app4 to app7 and app10.  The wake-up keeps the invariant of *)
(* PipedEvent.                                                             *)
(***************************************************************************)
Numbers == 1 .. MaxEvents   \* of the events

OneTypes == /\ oneApp \in {"app4", "app5", "app6", "app7", "app10"}
            /\ oneQueue \in Seq(Numbers) /\ reserved \in BOOLEAN
            /\ oneMpc \in {"new", "top", "add", "store", "count", "drop", "fire", "exited"}
            /\ oneMade \in 0 .. MaxEvents /\ oneDropped \subseteq Numbers
            /\ oneLpc \in {"start", "loop", "wait", "drain", "drained", "consume", "dispatch",
                           "stop", "join", "ended"}
            /\ oneBatch \in Seq(Numbers) /\ oneReceived \in Seq(Numbers)
            /\ missed \subseteq Numbers /\ oneMRunning \in BOOLEAN /\ oneRunning \in BOOLEAN

(***************************************************************************)
(* Where the threads are: inside Fire() and Consume() only where they call *)
(* them, and Produce()'s list is empty when app7 swaps it.                 *)
(***************************************************************************)
OneStages == /\ oneLpc = "start" => oneMpc = "new"
             /\ oneMpc \in {"add", "drop"} => oneApp # "app4"
             /\ oneFpc[One!M] # "idle" => oneMpc = "fire"
             /\ oneCpc[One!M] # "idle" => oneLpc = "consume"
             /\ oneBatch # << >> => oneLpc \in {"drain", "drained", "consume", "dispatch"}
             /\ oneApp = "app7" /\ oneLpc = "drain" => oneBatch = << >>

(***************************************************************************)
(* Where the events are.                                                   *)
(***************************************************************************)
OneLine == OnePipe!LineOf(oneReceived, oneBatch, oneQueue)
OneInHand == IF oneMpc \in {"add", "drop"} THEN {oneMade} ELSE {}

OneOnce == /\ OnePipe!Increasing(OneLine)
           /\ Range(OneLine) \subseteq 1 .. oneMade
           /\ oneDropped \subseteq 1 .. oneMade /\ OneInHand \subseteq 1 .. oneMade
           /\ oneDropped \cap Range(OneLine) = {}
           /\ OneInHand \cap Range(OneLine) = {} /\ OneInHand \cap oneDropped = {}
           /\ oneApp # "app4" => 1 .. oneMade \subseteq Range(OneLine) \cup oneDropped \cup OneInHand

(***************************************************************************)
(* What a drain must take is never what is added during it.                *)
(***************************************************************************)
OneDrain == /\ missed \subseteq Range(OneLine)
            /\ oneLpc = "drained" => missed \cap Range(oneQueue) = {}

(***************************************************************************)
(* app10: outside of Produce()'s Consume() and drain, an event in the      *)
(* queue has a byte in the pipe or its Fire() is still to come.            *)
(***************************************************************************)
OneWakeup == /\ oneApp = "app10" /\ oneQueue # << >>
             /\ oneLpc \in {"start", "loop", "wait", "drained", "dispatch"}
             /\ oneMpc \notin {"store", "count", "fire"}
             => oneBytes[One!M] > 0

OneInv == OnePipe!IInv /\ OneTypes /\ OneStages /\ OneOnce /\ OneDrain /\ OneWakeup

(* The pipe of app4 to app7 and app10 is the one PipedEvent is proved for. *)
LEMMA OnePipeSame == /\ OnePipe!PipeAssumption
                     /\ One!P!Init => OnePipe!Init
                     /\ One!P!FireCheck(One!M) => OnePipe!FireCheck(One!M)
                     /\ One!P!FireStore(One!M) => OnePipe!FireStore(One!M)
                     /\ One!P!FireWrite(One!M) => OnePipe!FireWrite(One!M)
                     /\ One!P!ConsumeCheck(One!M) => OnePipe!ConsumeCheck(One!M)
                     /\ One!P!ConsumeRead(One!M) => OnePipe!ConsumeRead(One!M)
                     /\ One!P!ConsumeReset(One!M) => OnePipe!ConsumeReset(One!M)
<1>1. OnePipe!PipeAssumption
  BY PartsAssumption DEF OnePipe!PipeAssumption
<1>2. One!P!Init => OnePipe!Init
  BY DEF One!P!Init, OnePipe!Init
<1>3. /\ One!P!FireCheck(One!M) => OnePipe!FireCheck(One!M)
      /\ One!P!FireStore(One!M) => OnePipe!FireStore(One!M)
      /\ One!P!FireWrite(One!M) => OnePipe!FireWrite(One!M)
  BY DEF One!P!FireCheck, OnePipe!FireCheck, One!P!FireStore, OnePipe!FireStore, One!P!FireWrite, OnePipe!FireWrite
<1>4. /\ One!P!ConsumeCheck(One!M) => OnePipe!ConsumeCheck(One!M)
      /\ One!P!ConsumeRead(One!M) => OnePipe!ConsumeRead(One!M)
      /\ One!P!ConsumeReset(One!M) => OnePipe!ConsumeReset(One!M)
  BY DEF One!P!ConsumeCheck, OnePipe!ConsumeCheck, One!P!ConsumeRead, OnePipe!ConsumeRead, One!P!Readable,
         OnePipe!Readable, One!P!ConsumeReset, OnePipe!ConsumeReset
<1> QED
  BY <1>1, <1>2, <1>3, <1>4

(* Every step is one of PipedEvent or leaves the wake-up alone. *)
LEMMA OnePipeStep == ASSUME OnePipe!IInv, [One!Next]_oneVars PROVE OnePipe!IInv'
<1> USE DEF One!pipeVars, OnePipe!vars
<1>1. ASSUME One!Fire PROVE OnePipe!Next
  BY <1>1, OnePipeSame DEF One!Fire, OnePipe!Next
<1>2. ASSUME One!ConsumeEvent PROVE OnePipe!Next
  BY <1>2, OnePipeSame DEF One!ConsumeEvent, OnePipe!Next
<1>3. ASSUME One!ManagerThread PROVE One!Fire \/ UNCHANGED OnePipe!vars
  BY <1>3 DEF One!ManagerThread, One!ThreadExit, One!RunImpl, One!Enqueue5, One!EmplaceBack6,
              One!EmplaceBack7, One!TryPush10, One!StoreElement, One!CountTx, One!CountDrop
<1>4. ASSUME One!MainThread PROVE One!ConsumeEvent \/ UNCHANGED OnePipe!vars
  BY <1>4 DEF One!MainThread, One!Run, One!CheckRunning, One!Wait, One!TakeOne, One!SeeEmpty, One!Swap7,
              One!Drained, One!Dispatch, One!Stop, One!Join
<1>5. [OnePipe!Next]_(OnePipe!vars)
  BY <1>1, <1>2, <1>3, <1>4 DEF One!Next, One!SignalHandler, One!Ended, One!vars, oneVars
<1> QED
  BY <1>5, OnePipeSame, OnePipe!NextIInv

(* The types are kept. *)
LEMMA OneTypesStep == ASSUME OneInv, [One!Next]_oneVars PROVE OneTypes'
<1> USE DEF One!pipeVars, One!queueVars, One!threadVars, One!mainVars, One!flagVars
<1>0. OneTypes /\ OneOnce
  BY DEF OneInv
<1>1. ASSUME One!ManagerThread PROVE OneTypes'
  <2>1. ASSUME One!RunImpl PROVE OneTypes'
    <3>1. oneMade' \in 0 .. MaxEvents
      BY <1>0, <2>1, PartsAssumption DEF One!RunImpl, OneTypes, One!ManagerAssumption
    <3> QED
      BY <1>0, <2>1, <3>1 DEF One!RunImpl, OneTypes
  <2>2. ASSUME oneMpc = "add" PROVE Append(oneQueue, oneMade) \in Seq(Numbers)
    <3>1. oneMade \in Numbers
      BY <1>0, <2>2 DEF OneTypes, OneOnce, OneInHand, Numbers
    <3> QED
      BY <1>0, <3>1 DEF OneTypes
  <2>3. ASSUME One!Enqueue5 \/ One!EmplaceBack6 \/ One!EmplaceBack7 \/ One!TryPush10 PROVE OneTypes'
    BY <1>0, <2>2, <2>3 DEF One!Enqueue5, One!EmplaceBack6, One!EmplaceBack7, One!TryPush10, OneTypes
  <2>4. ASSUME One!CountDrop PROVE OneTypes'
    <3>1. oneDropped' \subseteq Numbers
      BY <1>0, <2>4 DEF One!CountDrop, OneTypes, OneOnce, OneInHand, Numbers
    <3> QED
      BY <1>0, <2>4, <3>1 DEF One!CountDrop, OneTypes
  <2>5. ASSUME One!ThreadExit \/ One!StoreElement \/ One!CountTx \/ One!Fire PROVE OneTypes'
    BY <1>0, <2>5 DEF One!ThreadExit, One!StoreElement, One!CountTx, One!Fire, OneTypes
  <2> QED
    BY <1>1, <2>1, <2>3, <2>4, <2>5 DEF One!ManagerThread
<1>2. ASSUME One!MainThread PROVE OneTypes'
  <2>1. ASSUME One!Wait PROVE OneTypes'
    <3>1. missed' \subseteq Numbers
      <4>1. One!Elements(oneQueue) \subseteq Numbers
        <5>1. oneQueue \in Seq(Numbers)
          BY <1>0 DEF OneTypes
        <5>2. \A i \in DOMAIN oneQueue : oneQueue[i] \in Numbers
          BY <5>1
        <5> QED
          BY <5>2 DEF One!Elements
      <4> QED
        BY <1>0, <2>1, <4>1 DEF One!Wait, OneTypes
    <3> QED
      BY <1>0, <2>1, <3>1 DEF One!Wait, One!Execute, OneTypes
  <2>2. ASSUME One!TakeOne PROVE OneTypes'
    <3>1. Append(oneBatch, Head(oneQueue)) \in Seq(Numbers) /\ Tail(oneQueue) \in Seq(Numbers)
      BY SameEvents, <1>0, <2>2, OnePipe!HeadMoves DEF One!TakeOne, OneTypes
    <3> QED
      BY <1>0, <2>2, <3>1 DEF One!TakeOne, OneTypes
  <2>3. ASSUME One!Swap7 PROVE OneTypes'
    BY <1>0, <2>3 DEF One!Swap7, OneTypes
  <2>4. ASSUME One!Dispatch PROVE OneTypes'
    <3>1. oneBatch # << >> => /\ Append(oneReceived, Head(oneBatch)) \in Seq(Numbers)
                              /\ Tail(oneBatch) \in Seq(Numbers)
      BY SameEvents, <1>0, OnePipe!HeadMoves DEF OneTypes
    <3> QED
      BY <1>0, <2>4, <3>1 DEF One!Dispatch, OneTypes
  <2>5. ASSUME One!Run \/ One!CheckRunning \/ One!SeeEmpty \/ One!Drained \/ One!ConsumeEvent \/ One!Stop \/ One!Join
        PROVE  OneTypes'
    BY <1>0, <2>5 DEF One!Run, One!CheckRunning, One!SeeEmpty, One!Drained, One!ConsumeEvent, One!Stop, One!Join, OneTypes
  <2> QED
    BY <1>2, <2>1, <2>2, <2>3, <2>4, <2>5 DEF One!MainThread
<1>3. ASSUME One!SignalHandler \/ One!Ended \/ UNCHANGED oneVars PROVE OneTypes'
  BY <1>0, <1>3 DEF One!SignalHandler, One!Ended, One!vars, oneVars, OneTypes
<1> QED
  BY <1>1, <1>2, <1>3 DEF One!Next

(* What a step does to the events: one is created, added, refused, counted *)
(* as dropped, or all stay where they are, though they may move on.        *)
LEMMA OneSteps ==
  ASSUME OneInv, [One!Next]_oneVars
  PROVE  /\ oneApp' = oneApp
         /\ \/ /\ oneMade < MaxEvents /\ oneMade' = oneMade + 1 /\ oneMpc = "top"
               /\ oneMpc' = (IF oneApp = "app4" THEN "count" ELSE "add") /\ UNCHANGED <<OneLine, oneDropped>>
            \/ /\ oneMpc = "add" /\ oneMpc' \in {"store", "count"} /\ OneLine' = Append(OneLine, oneMade)
               /\ UNCHANGED <<oneMade, oneDropped>>
            \/ oneMpc = "add" /\ oneMpc' = "drop" /\ UNCHANGED <<OneLine, oneMade, oneDropped>>
            \/ /\ oneMpc = "drop" /\ oneMpc' = "top" /\ oneDropped' = oneDropped \cup {oneMade}
               /\ UNCHANGED <<OneLine, oneMade>>
            \/ UNCHANGED <<OneLine, oneMade, oneDropped, OneInHand>>
<1> DEFINE Conclusion ==
         /\ oneApp' = oneApp
         /\ \/ /\ oneMade < MaxEvents /\ oneMade' = oneMade + 1 /\ oneMpc = "top"
               /\ oneMpc' = (IF oneApp = "app4" THEN "count" ELSE "add") /\ UNCHANGED <<OneLine, oneDropped>>
            \/ /\ oneMpc = "add" /\ oneMpc' \in {"store", "count"} /\ OneLine' = Append(OneLine, oneMade)
               /\ UNCHANGED <<oneMade, oneDropped>>
            \/ oneMpc = "add" /\ oneMpc' = "drop" /\ UNCHANGED <<OneLine, oneMade, oneDropped>>
            \/ /\ oneMpc = "drop" /\ oneMpc' = "top" /\ oneDropped' = oneDropped \cup {oneMade}
               /\ UNCHANGED <<OneLine, oneMade>>
            \/ UNCHANGED <<OneLine, oneMade, oneDropped, OneInHand>>
<1> USE DEF One!pipeVars, One!queueVars, One!threadVars, One!mainVars, One!flagVars
<1>1. /\ oneReceived \in Seq(Numbers) /\ oneBatch \in Seq(Numbers)
      /\ oneQueue \in Seq(Numbers)
  BY DEF OneInv, OneTypes
<1>2. ASSUME UNCHANGED <<oneReceived, oneBatch, oneQueue>> PROVE OneLine' = OneLine
  BY <1>2 DEF OneLine
<1>3. ASSUME oneMpc = "add", oneQueue' = Append(oneQueue, oneMade), UNCHANGED <<oneReceived, oneBatch>>
      PROVE  OneLine' = Append(OneLine, oneMade)
  <2>1. oneMade \in Numbers
    BY <1>3 DEF OneInv, OneTypes, OneOnce, OneInHand, Numbers
  <2> QED
    <3>1. OnePipe!LineOf(oneReceived, oneBatch, Append(oneQueue, oneMade)) = Append(OnePipe!LineOf(oneReceived, oneBatch, oneQueue), oneMade)
      BY SameEvents, <1>1, <2>1, OnePipe!LineAdd
    <3> QED
      BY <1>3, <3>1 DEF OneLine
<1>4. ASSUME One!ManagerThread PROVE Conclusion
  <2>1. ASSUME One!RunImpl PROVE Conclusion
    BY <1>2, <2>1 DEF One!RunImpl
  <2>2. ASSUME One!Enqueue5 \/ One!EmplaceBack6 \/ One!EmplaceBack7 \/ One!TryPush10 PROVE Conclusion
    <3>1. /\ oneMpc = "add" /\ UNCHANGED <<oneApp, oneReceived, oneBatch, oneMade, oneDropped>>
          /\ \/ oneQueue' = Append(oneQueue, oneMade) /\ oneMpc' \in {"store", "count"}
             \/ oneQueue' = oneQueue /\ oneMpc' = "drop"
      BY <2>2 DEF One!Enqueue5, One!EmplaceBack6, One!EmplaceBack7, One!TryPush10
    <3> QED
      BY <1>2, <1>3, <3>1
  <2>3. ASSUME One!CountDrop PROVE Conclusion
    BY <1>2, <2>3 DEF One!CountDrop
  <2>4. ASSUME One!ThreadExit \/ One!StoreElement \/ One!CountTx \/ One!Fire PROVE Conclusion
    <3>1. /\ UNCHANGED <<oneApp, oneReceived, oneBatch, oneQueue, oneMade, oneDropped>>
          /\ oneMpc \notin {"add", "drop"} /\ oneMpc' \notin {"add", "drop"}
      BY <2>4 DEF One!ThreadExit, One!StoreElement, One!CountTx, One!Fire
    <3> QED
      BY <1>2, <3>1 DEF OneInHand
  <2> QED
    BY <1>4, <2>1, <2>2, <2>3, <2>4 DEF One!ManagerThread
<1>5. ASSUME One!Run PROVE Conclusion
  <2>1. oneMpc = "new"
    BY <1>5 DEF One!Run, OneInv, OneStages
  <2> QED
    BY <1>2, <1>5, <2>1 DEF One!Run, OneInHand
<1>6. ASSUME UNCHANGED <<oneApp, oneMpc, oneMade, oneDropped>>, OneLine' = OneLine PROVE Conclusion
  BY <1>6 DEF OneInHand
<1>7. ASSUME One!TakeOne PROVE Conclusion
  <2>1. oneQueue # << >> => OnePipe!LineOf(oneReceived, Append(oneBatch, Head(oneQueue)), Tail(oneQueue)) = OneLine
    BY SameEvents, <1>1, OnePipe!LineMoves DEF OneLine
  <2>2. OneLine' = OneLine
    BY <1>7, <2>1 DEF One!TakeOne, OneLine
  <2> QED
    BY <1>6, <1>7, <2>2 DEF One!TakeOne
<1>8. ASSUME One!Swap7 PROVE Conclusion
  <2>1. oneBatch = << >>
    BY <1>8 DEF One!Swap7, OneInv, OneStages
  <2>2. OnePipe!LineOf(oneReceived, oneQueue, << >>) = OneLine
    <3>1. oneBatch = << >> => OnePipe!LineOf(oneReceived, oneQueue, << >>) = OnePipe!LineOf(oneReceived, oneBatch, oneQueue)
      <4>1. OnePipe!LineOf(oneReceived, oneQueue, << >>) = OnePipe!LineOf(oneReceived, << >>, oneQueue)
        BY SameEvents, <1>1, OnePipe!LineSwap
      <4> QED
        BY <4>1
    <3> QED
      BY <2>1, <3>1 DEF OneLine
  <2>3. OneLine' = OneLine
    BY <1>8, <2>2 DEF One!Swap7, OneLine
  <2> QED
    BY <1>6, <1>8, <2>3 DEF One!Swap7
<1>9. ASSUME One!Dispatch PROVE Conclusion
  <2>1. oneBatch # << >> => OnePipe!LineOf(Append(oneReceived, Head(oneBatch)), Tail(oneBatch), oneQueue) = OneLine
    BY SameEvents, <1>1, OnePipe!LineMoves DEF OneLine
  <2>2. OneLine' = OneLine
    BY <1>9, <2>1 DEF One!Dispatch, OneLine
  <2> QED
    BY <1>6, <1>9, <2>2 DEF One!Dispatch
<1>10. ASSUME \/ One!CheckRunning \/ One!Wait \/ One!SeeEmpty \/ One!Drained \/ One!ConsumeEvent \/ One!Stop
              \/ One!Join \/ One!SignalHandler \/ One!Ended \/ UNCHANGED oneVars
       PROVE  Conclusion
  <2>1. UNCHANGED <<oneApp, oneMpc, oneMade, oneDropped, oneReceived, oneBatch, oneQueue>>
    BY <1>10 DEF One!CheckRunning, One!Wait, One!SeeEmpty, One!Drained, One!ConsumeEvent, One!Stop,
                 One!Join, One!SignalHandler, One!Ended, One!vars, oneVars
  <2> QED
    BY <1>2, <1>6, <2>1
<1> QED
  BY <1>4, <1>5, <1>7, <1>8, <1>9, <1>10 DEF One!Next, One!MainThread

(* Each event stays in one place. *)
LEMMA OneOnceStep == ASSUME OneInv, [One!Next]_oneVars PROVE OneOnce' /\ Range(OneLine) \subseteq Range(OneLine')
<1>1. /\ OneOnce /\ oneMade \in 0 .. MaxEvents /\ OneLine \in Seq(Numbers)
  BY SameEvents, OnePipe!LineRange DEF OneInv, OneTypes, OneLine
<1>2. MaxEvents \in Nat /\ OneLine \in Seq(Nat)
  <2>1. MaxEvents \in Nat /\ Numbers \subseteq Nat
    BY PartsAssumption DEF One!ManagerAssumption, Numbers
  <2> QED
    BY <1>1, <2>1, SeqMonotonic
<1>3. CASE /\ oneMade < MaxEvents /\ oneMade' = oneMade + 1 /\ oneMpc = "top" /\ oneApp' = oneApp
           /\ oneMpc' = (IF oneApp = "app4" THEN "count" ELSE "add") /\ UNCHANGED <<OneLine, oneDropped>>
  <2>1. OneInHand = {} /\ OneInHand' = IF oneApp = "app4" THEN {} ELSE {oneMade + 1}
    BY <1>3 DEF OneInHand
  <2>2. 1 .. (oneMade + 1) = 1 .. oneMade \cup {oneMade + 1} /\ oneMade + 1 \notin 1 .. oneMade
    BY <1>1, <1>2
  <2> QED
    BY <1>1, <1>3, <2>1, <2>2 DEF OneOnce
<1>4. CASE /\ oneMpc = "add" /\ oneMpc' \in {"store", "count"} /\ OneLine' = Append(OneLine, oneMade)
           /\ UNCHANGED <<oneMade, oneDropped, oneApp>>
  <2>1. OneInHand = {oneMade} /\ OneInHand' = {}
    BY <1>4 DEF OneInHand
  <2>2. oneMade \in 1 .. oneMade /\ oneMade \in Numbers /\ oneMade \in Nat /\ oneMade \notin Range(OneLine)
    BY <1>1, <1>2, <2>1 DEF OneOnce, Numbers
  <2>3. Range(OneLine') = Range(OneLine) \cup {oneMade}
    <3>1. Range(Append(OneLine, oneMade)) = Range(OneLine) \cup {oneMade}
      BY SameEvents, <1>1, <2>2, OnePipe!AppendRange
    <3> QED
      BY <1>4, <3>1
  <2>4. \A x \in Range(OneLine) : x < oneMade
    <3>1. \A x \in 1 .. oneMade : x # oneMade => x < oneMade
      BY <2>2
    <3> QED
      BY <1>1, <2>2, <3>1 DEF OneOnce
  <2>5. OnePipe!Increasing(OneLine')
    BY SameEvents, <1>1, <1>2, <1>4, <2>2, <2>4, OnePipe!AppendIncreasing DEF OneOnce
  <2> QED
    BY <1>1, <1>4, <2>1, <2>2, <2>3, <2>5 DEF OneOnce
<1>5. CASE oneMpc = "add" /\ oneMpc' = "drop" /\ UNCHANGED <<OneLine, oneMade, oneDropped, oneApp>>
  <2>1. OneInHand' = OneInHand
    BY <1>5 DEF OneInHand
  <2> QED
    BY <1>1, <1>5, <2>1 DEF OneOnce
<1>6. CASE /\ oneMpc = "drop" /\ oneMpc' = "top" /\ oneDropped' = oneDropped \cup {oneMade}
           /\ UNCHANGED <<OneLine, oneMade, oneApp>>
  <2>1. OneInHand = {oneMade} /\ OneInHand' = {}
    BY <1>6 DEF OneInHand
  <2> QED
    BY <1>1, <1>6, <2>1 DEF OneOnce
<1>7. CASE UNCHANGED <<OneLine, oneMade, oneDropped, OneInHand, oneApp>>
  BY <1>1, <1>7 DEF OneOnce
<1> QED
  BY <1>3, <1>4, <1>5, <1>6, <1>7, OneSteps

(* The threads stay in step with what they are inside of. *)
LEMMA OneStagesStep == ASSUME OneInv, [One!Next]_oneVars PROVE OneStages'
<1> USE DEF One!pipeVars, One!queueVars, One!threadVars, One!mainVars, One!flagVars
<1>0. /\ OneStages /\ OneTypes
      /\ oneFpc \in [{One!M} -> {"idle", "store", "write"}] /\ oneCpc \in [{One!M} -> {"idle", "read", "reset"}]
  BY DEF OneInv, OnePipe!IInv, OnePipe!TypeOK
<1>1. ASSUME One!Fire PROVE OneStages'
  <2>1. UNCHANGED oneCpc
    BY <1>1 DEF One!Fire, One!P!FireCheck, One!P!FireStore, One!P!FireWrite
  <2> QED
    BY <1>0, <1>1, <2>1 DEF One!Fire, OneStages
<1>2. ASSUME One!ConsumeEvent PROVE OneStages'
  <2>1. UNCHANGED oneFpc
    BY <1>2 DEF One!ConsumeEvent, One!P!ConsumeCheck, One!P!ConsumeRead, One!P!ConsumeReset
  <2>2. oneLpc' \in {"consume", "dispatch", "drain"} /\ (oneLpc' = "drain" => oneApp = "app10")
    BY <1>2 DEF One!ConsumeEvent, One!DrainFirst
  <2> QED
    BY <1>0, <1>2, <2>1, <2>2 DEF One!ConsumeEvent, OneStages
<1>3. ASSUME \/ One!ThreadExit \/ One!RunImpl \/ One!Enqueue5 \/ One!EmplaceBack6 \/ One!EmplaceBack7
             \/ One!TryPush10 \/ One!StoreElement \/ One!CountTx \/ One!CountDrop
      PROVE  OneStages'
  BY <1>0, <1>3 DEF One!ThreadExit, One!RunImpl, One!Enqueue5, One!EmplaceBack6, One!EmplaceBack7,
                    One!TryPush10, One!StoreElement, One!CountTx, One!CountDrop, OneStages
<1>4. ASSUME One!Run \/ One!CheckRunning \/ One!Wait \/ One!Stop \/ One!Join PROVE OneStages'
  BY <1>0, <1>4 DEF One!Run, One!CheckRunning, One!Wait, One!Execute, One!Stop, One!Join, OneStages
<1>5. ASSUME One!TakeOne \/ One!SeeEmpty \/ One!Swap7 \/ One!Drained \/ One!Dispatch PROVE OneStages'
  BY <1>0, <1>5 DEF One!TakeOne, One!SeeEmpty, One!Swap7, One!Drained, One!Dispatch, OneStages
<1>6. ASSUME One!SignalHandler \/ One!Ended \/ UNCHANGED oneVars PROVE OneStages'
  BY <1>0, <1>6 DEF One!SignalHandler, One!Ended, One!vars, oneVars, OneStages
<1> QED
  BY <1>1, <1>2, <1>3, <1>4, <1>5, <1>6 DEF One!Next, One!ManagerThread, One!MainThread

(* What a drain must take it has taken when it ends, and no later event is *)
(* one of those.                                                           *)
LEMMA OneDrainStep == ASSUME OneInv, [One!Next]_oneVars PROVE OneDrain'
<1> USE DEF One!pipeVars, One!queueVars, One!threadVars, One!mainVars, One!flagVars
<1>1. /\ OneDrain /\ OneOnce /\ Range(OneLine) \subseteq Range(OneLine')
      /\ oneQueue \in Seq(Numbers)
  BY OneOnceStep DEF OneInv, OneTypes
<1>2. Range(oneQueue) \subseteq Range(OneLine)
  BY SameEvents, OnePipe!LineRange DEF OneInv, OneTypes, OneLine
<1>3. ASSUME One!Wait PROVE OneDrain'
  <2>1. One!Elements(oneQueue) = Range(oneQueue)
    BY DEF One!Elements, Range
  <2> QED
    BY <1>1, <1>2, <1>3, <2>1 DEF One!Wait, One!Execute, OneDrain
<1>4. ASSUME oneQueue' = << >>, missed' = missed PROVE OneDrain'
  BY SameEvents, <1>1, <1>4, OnePipe!EmptyIncreasing DEF OneDrain
<1>5. ASSUME missed' = missed, oneQueue' = oneQueue, oneLpc' = "drained" => oneLpc = "drained" PROVE OneDrain'
  BY <1>1, <1>5 DEF OneDrain
<1>6. ASSUME missed' = missed, oneMpc = "add", oneQueue' = Append(oneQueue, oneMade), oneLpc' = oneLpc PROVE OneDrain'
  <2>1. oneMade \notin Range(OneLine) /\ oneMade \in Numbers
    BY <1>1, <1>6 DEF OneInv, OneOnce, OneInHand, OneTypes, Numbers
  <2>2. Range(Append(oneQueue, oneMade)) = Range(oneQueue) \cup {oneMade}
    BY SameEvents, <1>1, <2>1, OnePipe!AppendRange
  <2> QED
    BY <1>1, <1>6, <2>1, <2>2 DEF OneDrain
<1>7. ASSUME One!TakeOne PROVE OneDrain'
  BY <1>1, <1>7 DEF One!TakeOne, OneDrain
<1>8. ASSUME One!SeeEmpty \/ One!Swap7 PROVE OneDrain'
  BY <1>4, <1>8 DEF One!SeeEmpty, One!Swap7
<1>9. ASSUME One!Enqueue5 \/ One!EmplaceBack6 \/ One!EmplaceBack7 \/ One!TryPush10 PROVE OneDrain'
  BY <1>5, <1>6, <1>9 DEF One!Enqueue5, One!EmplaceBack6, One!EmplaceBack7, One!TryPush10
<1>10. ASSUME \/ One!ThreadExit \/ One!RunImpl \/ One!StoreElement \/ One!CountTx \/ One!CountDrop \/ One!Fire
              \/ One!Run \/ One!CheckRunning \/ One!Drained \/ One!ConsumeEvent \/ One!Dispatch \/ One!Stop
              \/ One!Join \/ One!SignalHandler \/ One!Ended \/ UNCHANGED oneVars
       PROVE  OneDrain'
  BY <1>5, <1>10 DEF One!ThreadExit, One!RunImpl, One!StoreElement, One!CountTx, One!CountDrop, One!Fire,
         One!Run, One!CheckRunning, One!Drained, One!ConsumeEvent, One!Dispatch, One!Stop, One!Join,
         One!SignalHandler, One!Ended, One!vars, oneVars
<1> QED
  BY <1>3, <1>7, <1>8, <1>9, <1>10 DEF One!Next, One!ManagerThread, One!MainThread

(* A Fire() that is over has left a byte, unless Consume() is running. *)
LEMMA OneFireLeavesByte == ASSUME OneInv, One!Fire, oneMpc' # "fire", oneLpc # "consume" PROVE oneBytes'[One!M] > 0
<1>1. OnePipe!IInv'
  BY OnePipeStep DEF OneInv, One!Next, One!ManagerThread
<1>2. oneCpc[One!M] = "idle" /\ oneFpc'[One!M] = "idle"
  BY DEF OneInv, OneStages, One!Fire
<1>3. oneCpc' = oneCpc
  BY DEF One!Fire, One!P!FireCheck, One!P!FireStore, One!P!FireWrite
<1>4. oneFired'[One!M]
  <2>1. OnePipe!IInv
    BY DEF OneInv
  <2>2. CASE One!P!FireCheck(One!M)
    BY <1>2, <2>1, <2>2 DEF One!P!FireCheck, OnePipe!IInv, OnePipe!TypeOK
  <2>3. CASE One!P!FireStore(One!M)
    BY <1>2, <2>1, <2>3 DEF One!P!FireStore, OnePipe!IInv, OnePipe!TypeOK
  <2>4. CASE One!P!FireWrite(One!M)
    BY <2>1, <2>4 DEF One!P!FireWrite, OnePipe!IInv, OnePipe!TypeOK, OnePipe!Quiet, OnePipe!Signalled
  <2> QED
    BY <2>2, <2>3, <2>4 DEF One!Fire
<1>5. oneBytes'[One!M] = 1
  BY <1>1, <1>2, <1>3, <1>4 DEF OnePipe!IInv, OnePipe!Quiet, OnePipe!Signalled
<1> QED
  BY <1>5

(* app10 never leaves Produce() with an event in the queue and no wake-up. *)
LEMMA OneWakeupStep == ASSUME OneInv, [One!Next]_oneVars PROVE OneWakeup'
<1> USE DEF One!pipeVars, One!queueVars, One!threadVars, One!mainVars, One!flagVars
<1>0. OneWakeup /\ OneStages
  BY DEF OneInv
<1>1. ASSUME One!Fire PROVE OneWakeup'
  <2>1. UNCHANGED <<oneApp, oneQueue, oneLpc>>
    BY <1>1 DEF One!Fire
  <2> QED
    BY <1>1, <2>1, OneFireLeavesByte DEF OneWakeup
<1>2. ASSUME One!ConsumeEvent PROVE OneWakeup'
  BY <1>2 DEF One!ConsumeEvent, One!DrainFirst, OneWakeup
<1>3. ASSUME \/ One!ThreadExit \/ One!RunImpl \/ One!Enqueue5 \/ One!EmplaceBack6 \/ One!EmplaceBack7
             \/ One!TryPush10 \/ One!StoreElement \/ One!CountTx \/ One!CountDrop
      PROVE  OneWakeup'
  BY <1>0, <1>3 DEF One!ThreadExit, One!RunImpl, One!Enqueue5, One!EmplaceBack6, One!EmplaceBack7,
                    One!TryPush10, One!StoreElement, One!CountTx, One!CountDrop, OneWakeup
<1>4. ASSUME One!Run \/ One!CheckRunning \/ One!Wait \/ One!Stop \/ One!Join PROVE OneWakeup'
  BY <1>0, <1>4 DEF One!Run, One!CheckRunning, One!Wait, One!Execute, One!Stop, One!Join, OneWakeup, OneStages
<1>5. ASSUME One!TakeOne \/ One!SeeEmpty \/ One!Swap7 \/ One!Drained \/ One!Dispatch PROVE OneWakeup'
  BY <1>0, <1>5 DEF One!TakeOne, One!SeeEmpty, One!Swap7, One!Drained, One!Dispatch, OneWakeup
<1>6. ASSUME One!SignalHandler \/ One!Ended \/ UNCHANGED oneVars PROVE OneWakeup'
  BY <1>0, <1>6 DEF One!SignalHandler, One!Ended, One!vars, oneVars, OneWakeup
<1> QED
  BY <1>1, <1>2, <1>3, <1>4, <1>5, <1>6 DEF One!Next, One!ManagerThread, One!MainThread

(* The programs start with nothing anywhere. *)
LEMMA OneInit == ASSUME One!Init PROVE OneInv
<1>1. OnePipe!IInv
  BY OnePipeSame, OnePipe!InitIInv DEF One!Init
<1>2. OneTypes
  <2>1. << >> \in Seq(Numbers)
    BY SameEvents, OnePipe!EmptyIncreasing
  <2>2. 0 \in 0 .. MaxEvents
    BY PartsAssumption DEF One!ManagerAssumption
  <2> QED
    BY <2>1, <2>2 DEF One!Init, OneTypes
<1>3. OneStages
  BY DEF One!Init, One!P!Init, OneStages
<1>4. OneLine = << >> /\ Range(OneLine) = {} /\ OnePipe!Increasing(OneLine)
  <2>1. OneLine = << >> \o << >> \o << >>
    BY DEF One!Init, OneLine, OnePipe!LineOf
  <2> QED
    BY SameEvents, <2>1, OnePipe!EmptyIncreasing
<1>5. OneOnce /\ OneDrain
  BY SameEvents, <1>4, OnePipe!EmptyIncreasing DEF One!Init, OneOnce, OneDrain, OneInHand
<1>6. OneWakeup
  BY DEF One!Init, OneWakeup
<1> QED
  BY <1>1, <1>2, <1>3, <1>5, <1>6 DEF OneInv

(* Every step of the two threads preserves the invariant. *)
LEMMA OneNext == ASSUME OneInv, [One!Next]_oneVars PROVE OneInv'
  BY OnePipeStep, OneTypesStep, OneStagesStep, OneOnceStep, OneDrainStep, OneWakeupStep DEF OneInv

(* What the invariant says of app4 to app7 and app10. *)
LEMMA OneOfInv == ASSUME OneInv
                  PROVE  /\ One!TypeOK /\ One!EachEventOnce /\ One!DrainTakesAll
                         /\ One!NoLostWakeup /\ One!StrandedUntilNextFire
<1>1. /\ oneFired \in [{One!M} -> BOOLEAN] /\ oneBytes \in [{One!M} -> 0 .. PipeCapacity]
      /\ oneFpc \in [{One!M} -> {"idle", "store", "write"}] /\ oneCpc \in [{One!M} -> {"idle", "read", "reset"}]
      /\ OnePipe!Quiet(One!M) \/ OnePipe!Signalled(One!M)
  BY DEF OneInv, OnePipe!IInv, OnePipe!TypeOK
<1>2. One!TypeOK
  <2>1. oneBytes[One!M] <= 1
    BY <1>1 DEF OnePipe!Quiet, OnePipe!Signalled
  <2>2. One!P!TypeOK
    BY <1>1 DEF One!P!TypeOK
  <2> QED
    BY <2>1, <2>2 DEF OneInv, OneTypes, Numbers, One!TypeOK
<1>3. \A s : One!Elements(s) = Range(s)
  BY DEF One!Elements, Range
<1>4. One!EachEventOnce
  <2>1. OneLine \in Seq(Numbers) /\ One!Pipeline = OneLine
    BY SameEvents, OnePipe!LineRange DEF OneInv, OneTypes, OneLine, OnePipe!LineOf, One!Pipeline
  <2>2. DOMAIN OneLine = 1 .. Len(OneLine)
    BY <2>1, LenProperties
  <2>3. \A i, j \in 1 .. Len(OneLine) : i < j => OneLine[i] < OneLine[j]
    BY <2>2 DEF OneInv, OneOnce, OnePipe!Increasing
  <2>4. oneApp # "app4" => 1 .. oneMade = Range(OneLine) \cup oneDropped \cup OneInHand
    BY DEF OneInv, OneOnce
  <2>5. oneDropped \cap Range(OneLine) = {}
    BY DEF OneInv, OneOnce
  <2> QED
    BY <1>3, <2>1, <2>3, <2>4, <2>5 DEF One!EachEventOnce, OneInHand
<1>5. One!DrainTakesAll
  BY <1>3 DEF One!DrainTakesAll, OneInv, OneDrain
<1>6. One!NoLostWakeup
  BY DEF One!NoLostWakeup, One!Waiting, One!P!Readable, OneInv, OneWakeup
<1>7. One!StrandedUntilNextFire
  <2>1. ASSUME One!Waiting, ~(oneBytes[One!M] > 0) PROVE ~oneFired[One!M]
    <3>1. oneFpc[One!M] = "idle" /\ oneCpc[One!M] = "idle"
      BY <2>1 DEF One!Waiting, OneInv, OneStages
    <3> QED
      BY <1>1, <2>1, <3>1 DEF OnePipe!Quiet, OnePipe!Signalled
  <2> QED
    BY <2>1 DEF One!StrandedUntilNextFire, One!P!Readable
<1> QED
  BY <1>2, <1>4, <1>5, <1>6, <1>7

-----------------------------------------------------------------------------
(***************************************************************************)
(* TryLockManager: app8.  The mutex of the second list is either free or   *)
(* main()'s for good, and it is main()'s before main() ever has the first. *)
(***************************************************************************)
TryPipe == INSTANCE PipedEventProofs WITH
    Pipes <- {Tries!M}, fired <- tryFired, bytes <- tryBytes, fpc <- tryFpc, cpc <- tryCpc

TryTypes == /\ mutex \in [1 .. 2 -> {"free", "thread", "main"}]
            /\ list \in [1 .. 2 -> Seq(Numbers)]
            /\ tryMpc \in {"new", "top", "try1", "try2", "add1", "add2", "drop", "count", "fire", "exited"}
            /\ tryLpc \in {"start", "loop", "wait", "look1", "look2", "swap1", "swap2", "consume", "dispatch",
                           "stop", "join", "ended"}
            /\ tryMade \in 0 .. MaxEvents /\ tryDropped \subseteq Numbers
            /\ tryBatch \in Seq(Numbers) /\ tryReceived \in Seq(Numbers)
            /\ tryMRunning \in BOOLEAN /\ tryRunning \in BOOLEAN

TryLocks == /\ list[2] = << >> /\ mutex[2] # "thread"
            /\ tryMpc # "add2" /\ tryLpc # "swap2"
            /\ mutex[1] = "thread" <=> tryMpc = "add1"
            /\ tryLpc = "swap1" => mutex[1] = "main"
            /\ mutex[1] = "main" \/ tryMpc = "try2" \/ tryLpc \in {"look1", "swap1"} => mutex[2] = "main"
            /\ tryBatch # << >> => tryLpc \in {"consume", "dispatch"}
            /\ tryLpc = "start" => tryMpc = "new"

TryLine == OnePipe!LineOf(tryReceived, tryBatch, list[1])
TryInHand == IF tryMpc \in {"try1", "try2", "add1", "add2", "drop"} THEN {tryMade} ELSE {}

TryInv == /\ TryPipe!IInv /\ TryTypes /\ TryLocks
          /\ OnePipe!Placed(TryLine, tryMade, tryDropped, TryInHand)

(* The pipe of app8 is the one PipedEvent is proved for. *)
LEMMA TryPipeStep == ASSUME TryPipe!IInv, [Tries!Next]_triesVars PROVE TryPipe!IInv'
<1> USE DEF Tries!pipeVars, TryPipe!vars
<1>1. TryPipe!PipeAssumption
  BY PartsAssumption DEF TryPipe!PipeAssumption
<1>2. ASSUME Tries!Fire PROVE TryPipe!Next
  BY <1>2 DEF Tries!Fire, TryPipe!Next, Tries!P!FireCheck, TryPipe!FireCheck, Tries!P!FireStore, TryPipe!FireStore,
              Tries!P!FireWrite, TryPipe!FireWrite
<1>3. ASSUME Tries!ConsumeEvent PROVE TryPipe!Next
  BY <1>3 DEF Tries!ConsumeEvent, TryPipe!Next, Tries!P!ConsumeCheck, TryPipe!ConsumeCheck, Tries!P!ConsumeRead,
              TryPipe!ConsumeRead, Tries!P!Readable, TryPipe!Readable, Tries!P!ConsumeReset, TryPipe!ConsumeReset
<1>4. ASSUME Tries!ManagerThread PROVE Tries!Fire \/ UNCHANGED TryPipe!vars
  BY <1>4 DEF Tries!ManagerThread, Tries!ThreadExit, Tries!RunImpl, Tries!CountDrop, Tries!CountTx, Tries!TryLock,
              Tries!EmplaceUnlock
<1>5. ASSUME Tries!MainThread PROVE Tries!ConsumeEvent \/ UNCHANGED TryPipe!vars
  BY <1>5 DEF Tries!MainThread, Tries!Run, Tries!CheckRunning, Tries!Wait, Tries!Dispatch, Tries!Dispatched,
              Tries!Stop, Tries!Join, Tries!Look, Tries!Swap
<1>6. [TryPipe!Next]_(TryPipe!vars)
  BY <1>2, <1>3, <1>4, <1>5 DEF Tries!Next, Tries!SignalHandler, Tries!Ended, Tries!vars, triesVars
<1> QED
  BY <1>1, <1>6, TryPipe!NextIInv

(* The steps at the lists: the thread only ever gets the first mutex, and  *)
(* main() goes from the second list, which it finds empty, to the first.   *)
LEMMA TryListSteps ==
  ASSUME TryInv, NEW i \in 1 .. 2
  PROVE  /\ Tries!TryLock(i) => \/ /\ i = 1 /\ tryMpc = "try1" /\ tryMpc' = "add1" /\ mutex[1] = "free"
                                   /\ mutex' = [mutex EXCEPT ![1] = "thread"]
                                \/ /\ i = 1 /\ tryMpc = "try1" /\ tryMpc' = "try2" /\ mutex' = mutex
                                   /\ mutex[2] = "main"
                                \/ i = 2 /\ tryMpc = "try2" /\ tryMpc' = "drop" /\ mutex' = mutex
         /\ Tries!EmplaceUnlock(i) => /\ i = 1 /\ tryMpc = "add1" /\ tryMpc' = "count"
                                      /\ mutex' = [mutex EXCEPT ![1] = "free"]
                                      /\ list' = [list EXCEPT ![1] = Append(list[1], tryMade)]
         /\ Tries!Look(i) => \/ /\ tryLpc = "look2" /\ tryLpc' = "look1" /\ mutex[2] = "free"
                                /\ mutex' = [mutex EXCEPT ![2] = "main"]
                             \/ tryLpc = "look2" /\ tryLpc' = "look1" /\ mutex[2] = "main" /\ mutex' = mutex
                             \/ /\ tryLpc = "look1" /\ tryLpc' \in {"swap1", "consume"} /\ mutex[1] = "free"
                                /\ mutex' = [mutex EXCEPT ![1] = "main"]
                             \/ tryLpc = "look1" /\ tryLpc' = "consume" /\ mutex' = mutex
         /\ Tries!Swap(i) => /\ tryLpc = "swap1" /\ tryLpc' = "consume" /\ tryBatch' = list[1]
                             /\ list' = [list EXCEPT ![1] = << >>] /\ mutex' = [mutex EXCEPT ![1] = "free"]
<1>1. TryLocks /\ TryTypes /\ (i = 1 \/ i = 2)
  BY DEF TryInv
<1>2. \A k \in 1 .. 2 : mutex[k] \in {"free", "thread", "main"}
  BY <1>1 DEF TryTypes
<1>3. 1 \in 1 .. 2 /\ 2 \in 1 .. 2
  OBVIOUS
<1>4. ASSUME Tries!TryLock(i)
      PROVE  \/ /\ i = 1 /\ tryMpc = "try1" /\ tryMpc' = "add1" /\ mutex[1] = "free"
                /\ mutex' = [mutex EXCEPT ![1] = "thread"]
             \/ i = 1 /\ tryMpc = "try1" /\ tryMpc' = "try2" /\ mutex' = mutex /\ mutex[2] = "main"
             \/ i = 2 /\ tryMpc = "try2" /\ tryMpc' = "drop" /\ mutex' = mutex
  <2>1. CASE i = 1
    BY <1>1, <1>2, <1>3, <1>4, <2>1 DEF Tries!TryLock, TryLocks
  <2>2. CASE i = 2
    BY <1>1, <1>4, <2>2 DEF Tries!TryLock, TryLocks
  <2> QED
    BY <1>1, <2>1, <2>2
<1>5. ASSUME Tries!EmplaceUnlock(i)
      PROVE  /\ i = 1 /\ tryMpc = "add1" /\ tryMpc' = "count" /\ mutex' = [mutex EXCEPT ![1] = "free"]
             /\ list' = [list EXCEPT ![1] = Append(list[1], tryMade)]
  <2>1. i = 1
    BY <1>1, <1>5 DEF Tries!EmplaceUnlock, TryLocks
  <2> QED
    BY <1>1, <1>3, <1>5, <2>1 DEF Tries!EmplaceUnlock, TryTypes
<1>6. ASSUME Tries!Look(i)
      PROVE  \/ /\ tryLpc = "look2" /\ tryLpc' = "look1" /\ mutex[2] = "free"
                /\ mutex' = [mutex EXCEPT ![2] = "main"]
             \/ tryLpc = "look2" /\ tryLpc' = "look1" /\ mutex[2] = "main" /\ mutex' = mutex
             \/ /\ tryLpc = "look1" /\ tryLpc' \in {"swap1", "consume"} /\ mutex[1] = "free"
                /\ mutex' = [mutex EXCEPT ![1] = "main"]
             \/ tryLpc = "look1" /\ tryLpc' = "consume" /\ mutex' = mutex
  <2>1. CASE i = 1
    BY <1>6, <2>1 DEF Tries!Look
  <2>2. CASE i = 2
    BY <1>1, <1>2, <1>3, <1>6, <2>2 DEF Tries!Look, TryLocks
  <2> QED
    BY <1>1, <2>1, <2>2
<1>7. ASSUME Tries!Swap(i)
      PROVE  /\ tryLpc = "swap1" /\ tryLpc' = "consume" /\ tryBatch' = list[1]
             /\ list' = [list EXCEPT ![1] = << >>] /\ mutex' = [mutex EXCEPT ![1] = "free"]
  <2>1. i = 1
    BY <1>1, <1>7 DEF Tries!Swap, TryLocks
  <2> QED
    BY <1>7, <2>1 DEF Tries!Swap
<1> QED
  BY <1>4, <1>5, <1>6, <1>7

(* Types and mutexes are kept by the steps of the lists. *)
LEMMA TryLocksStep == ASSUME TryInv, [Tries!Next]_triesVars PROVE TryTypes' /\ TryLocks'
<1> USE DEF Tries!pipeVars, Tries!listVars, Tries!threadVars, Tries!mainVars, Tries!flagVars
<1>0. TryTypes /\ TryLocks
  BY DEF TryInv
<1>1. \A x : /\ DOMAIN [mutex EXCEPT ![1] = x] = 1 .. 2 /\ DOMAIN [mutex EXCEPT ![2] = x] = 1 .. 2
             /\ [mutex EXCEPT ![1] = x][1] = x /\ [mutex EXCEPT ![1] = x][2] = mutex[2]
             /\ [mutex EXCEPT ![2] = x][2] = x /\ [mutex EXCEPT ![2] = x][1] = mutex[1]
  BY <1>0 DEF TryTypes
<1>2. \A x \in {"free", "thread", "main"} : /\ [mutex EXCEPT ![1] = x] \in [1 .. 2 -> {"free", "thread", "main"}]
                                            /\ [mutex EXCEPT ![2] = x] \in [1 .. 2 -> {"free", "thread", "main"}]
  BY <1>0 DEF TryTypes
<1>3. \A s \in Seq(Numbers) : /\ [list EXCEPT ![1] = s] \in [1 .. 2 -> Seq(Numbers)]
                              /\ [list EXCEPT ![1] = s][2] = list[2]
  BY <1>0 DEF TryTypes
<1>4. ASSUME NEW i \in 1 .. 2, Tries!TryLock(i) PROVE TryTypes' /\ TryLocks'
  <2>1. UNCHANGED <<list, tryMade, tryDropped, tryLpc, tryBatch, tryReceived, tryMRunning, tryRunning>>
    BY <1>4 DEF Tries!TryLock
  <2>2. \/ tryMpc = "try1" /\ tryMpc' = "add1" /\ mutex[1] = "free" /\ mutex' = [mutex EXCEPT ![1] = "thread"]
        \/ tryMpc = "try1" /\ tryMpc' = "try2" /\ mutex' = mutex /\ mutex[2] = "main"
        \/ tryMpc = "try2" /\ tryMpc' = "drop" /\ mutex' = mutex
    BY <1>4, TryListSteps
  <2>3. TryTypes'
    BY <1>0, <1>2, <2>1, <2>2 DEF TryTypes
  <2>4. TryLocks'
    BY <1>0, <1>1, <2>1, <2>2 DEF TryLocks
  <2> QED
    BY <2>3, <2>4
<1>5. ASSUME NEW i \in 1 .. 2, Tries!EmplaceUnlock(i) PROVE TryTypes' /\ TryLocks'
  <2>1. UNCHANGED <<tryMade, tryDropped, tryLpc, tryBatch, tryReceived, tryMRunning, tryRunning>>
    BY <1>5 DEF Tries!EmplaceUnlock
  <2>2. /\ tryMpc = "add1" /\ tryMpc' = "count" /\ mutex' = [mutex EXCEPT ![1] = "free"]
        /\ list' = [list EXCEPT ![1] = Append(list[1], tryMade)]
    BY <1>5, TryListSteps
  <2>3. Append(list[1], tryMade) \in Seq(Numbers)
    <3>1. tryMade \in Numbers
      BY SameEvents, <1>0, <2>2 DEF TryInv, OnePipe!Placed, TryInHand, TryTypes, Numbers
    <3>2. list[1] \in Seq(Numbers)
      BY <1>0 DEF TryTypes
    <3> QED
      BY <3>1, <3>2
  <2>4. TryTypes'
    BY <1>0, <1>2, <1>3, <2>1, <2>2, <2>3 DEF TryTypes
  <2>5. TryLocks'
    BY <1>0, <1>1, <1>3, <2>1, <2>2, <2>3 DEF TryLocks
  <2> QED
    BY <2>4, <2>5
<1>6. ASSUME NEW i \in 1 .. 2, Tries!Look(i) PROVE TryTypes' /\ TryLocks'
  <2>1. UNCHANGED <<list, tryMpc, tryMade, tryDropped, tryBatch, tryReceived, tryMRunning, tryRunning>>
    BY <1>6 DEF Tries!Look
  <2>2. \/ tryLpc = "look2" /\ tryLpc' = "look1" /\ mutex[2] = "free" /\ mutex' = [mutex EXCEPT ![2] = "main"]
        \/ tryLpc = "look2" /\ tryLpc' = "look1" /\ mutex[2] = "main" /\ mutex' = mutex
        \/ /\ tryLpc = "look1" /\ tryLpc' \in {"swap1", "consume"} /\ mutex[1] = "free"
           /\ mutex' = [mutex EXCEPT ![1] = "main"]
        \/ tryLpc = "look1" /\ tryLpc' = "consume" /\ mutex' = mutex
    BY <1>6, TryListSteps
  <2>3. TryTypes'
    BY <1>0, <1>2, <2>1, <2>2 DEF TryTypes
  <2>4. TryLocks'
    BY <1>0, <1>1, <2>1, <2>2 DEF TryLocks
  <2> QED
    BY <2>3, <2>4
<1>7. ASSUME NEW i \in 1 .. 2, Tries!Swap(i) PROVE TryTypes' /\ TryLocks'
  <2>1. UNCHANGED <<tryMpc, tryMade, tryDropped, tryReceived, tryMRunning, tryRunning>>
    BY <1>7 DEF Tries!Swap
  <2>2. /\ tryLpc = "swap1" /\ tryLpc' = "consume" /\ tryBatch' = list[1]
        /\ list' = [list EXCEPT ![1] = << >>] /\ mutex' = [mutex EXCEPT ![1] = "free"]
    BY <1>7, TryListSteps
  <2>3. list[1] \in Seq(Numbers) /\ << >> \in Seq(Numbers)
    BY SameEvents, <1>0, OnePipe!EmptyIncreasing DEF TryTypes
  <2>4. TryTypes'
    BY <1>0, <1>2, <1>3, <2>1, <2>2, <2>3 DEF TryTypes
  <2>5. TryLocks'
    BY <1>0, <1>1, <1>3, <2>1, <2>2, <2>3 DEF TryLocks
  <2> QED
    BY <2>4, <2>5
<1>8. ASSUME Tries!ThreadExit \/ Tries!RunImpl \/ Tries!CountDrop \/ Tries!CountTx \/ Tries!Fire
      PROVE  TryTypes' /\ TryLocks'
  <2>1. Tries!RunImpl => tryMade' \in 0 .. MaxEvents
    BY <1>0, PartsAssumption DEF Tries!RunImpl, TryTypes, Tries!TryLockAssumption
  <2>2. Tries!CountDrop => tryDropped' \subseteq Numbers
    BY SameEvents, <1>0 DEF Tries!CountDrop, TryInv, OnePipe!Placed, TryInHand, TryTypes, Numbers
  <2>3. TryTypes'
    BY <1>0, <1>8, <2>1, <2>2 DEF Tries!ThreadExit, Tries!RunImpl, Tries!CountDrop, Tries!CountTx, Tries!Fire, TryTypes
  <2>4. TryLocks'
    BY <1>0, <1>8 DEF Tries!ThreadExit, Tries!RunImpl, Tries!CountDrop, Tries!CountTx, Tries!Fire, TryLocks
  <2> QED
    BY <2>3, <2>4
<1>9. ASSUME Tries!Dispatch PROVE TryTypes' /\ TryLocks'
  <2>1. Append(tryReceived, Head(tryBatch)) \in Seq(Numbers) /\ Tail(tryBatch) \in Seq(Numbers)
    BY SameEvents, <1>0, <1>9, OnePipe!HeadMoves DEF Tries!Dispatch, TryTypes
  <2> QED
    BY <1>0, <1>9, <2>1 DEF Tries!Dispatch, TryTypes, TryLocks
<1>10. ASSUME \/ Tries!Run \/ Tries!CheckRunning \/ Tries!Wait \/ Tries!ConsumeEvent \/ Tries!Dispatched \/ Tries!Stop
              \/ Tries!Join \/ Tries!SignalHandler \/ Tries!Ended \/ UNCHANGED triesVars
       PROVE  TryTypes' /\ TryLocks'
  <2>1. ASSUME Tries!Run \/ Tries!CheckRunning \/ Tries!Wait PROVE TryTypes' /\ TryLocks'
    BY <1>0, <2>1 DEF Tries!Run, Tries!CheckRunning, Tries!Wait, TryTypes, TryLocks
  <2>2. ASSUME Tries!ConsumeEvent \/ Tries!Dispatched PROVE TryTypes' /\ TryLocks'
    BY <1>0, <2>2 DEF Tries!ConsumeEvent, Tries!Dispatched, TryTypes, TryLocks
  <2>3. ASSUME Tries!Stop \/ Tries!Join \/ Tries!SignalHandler PROVE TryTypes' /\ TryLocks'
    BY <1>0, <2>3 DEF Tries!Stop, Tries!Join, Tries!SignalHandler, TryTypes, TryLocks
  <2>4. ASSUME Tries!Ended \/ UNCHANGED triesVars PROVE TryTypes' /\ TryLocks'
    BY <1>0, <2>4 DEF Tries!Ended, Tries!vars, triesVars, TryTypes, TryLocks
  <2> QED
    BY <1>10, <2>1, <2>2, <2>3, <2>4
<1> QED
  BY <1>4, <1>5, <1>6, <1>7, <1>8, <1>9, <1>10 DEF Tries!Next, Tries!ManagerThread, Tries!MainThread

(* Each event of app8 stays in one place. *)
LEMMA TryPlacedStep ==
  ASSUME TryInv, [Tries!Next]_triesVars
  PROVE  OnePipe!Placed(TryLine, tryMade, tryDropped, TryInHand)'
<1> DEFINE Goal == OnePipe!Placed(TryLine', tryMade', tryDropped', TryInHand')
<1> USE DEF Tries!pipeVars, Tries!listVars, Tries!threadVars, Tries!mainVars, Tries!flagVars
<1>0. /\ OnePipe!Placed(TryLine, tryMade, tryDropped, TryInHand) /\ tryMade \in Nat /\ Numbers \subseteq Nat
      /\ tryReceived \in Seq(Numbers) /\ tryBatch \in Seq(Numbers) /\ list[1] \in Seq(Numbers)
  BY PartsAssumption DEF TryInv, TryTypes, Numbers, Tries!TryLockAssumption
<1>1. TryLine \in Seq(Nat)
  <2>1. TryLine \in Seq(Numbers)
    BY SameEvents, <1>0, OnePipe!LineRange DEF TryLine
  <2> QED
    BY <1>0, <2>1, SeqMonotonic
<1>2. ASSUME TryLine' = TryLine, UNCHANGED <<tryMade, tryDropped>>,
             tryMpc \in {"try1", "try2", "add1", "add2", "drop"} <=> tryMpc' \in {"try1", "try2", "add1", "add2", "drop"}
      PROVE  Goal
  BY <1>0, <1>2 DEF TryInHand
<1>3. ASSUME UNCHANGED <<tryReceived, tryBatch, list>> PROVE TryLine' = TryLine
  BY <1>3 DEF TryLine
<1>4. ASSUME Tries!RunImpl PROVE Goal
  <2>1. TryInHand = {} /\ TryInHand' = {tryMade'} /\ tryMade' = tryMade + 1 /\ UNCHANGED <<TryLine, tryDropped>>
    BY <1>3, <1>4 DEF Tries!RunImpl, TryInHand
  <2> QED
    BY SameEvents, <1>0, <2>1, OnePipe!PlacedCreate
<1>5. ASSUME Tries!CountDrop PROVE Goal
  <2>1. /\ TryInHand = {tryMade} /\ TryInHand' = {} /\ tryDropped' = tryDropped \cup {tryMade}
        /\ UNCHANGED <<TryLine, tryMade>>
    BY <1>3, <1>5 DEF Tries!CountDrop, TryInHand
  <2> QED
    BY SameEvents, <1>0, <2>1, OnePipe!PlacedDrop
<1>6. ASSUME NEW i \in 1 .. 2, Tries!EmplaceUnlock(i) PROVE Goal
  <2>1. /\ tryMpc = "add1" /\ tryMpc' = "count" /\ list' = [list EXCEPT ![1] = Append(list[1], tryMade)]
        /\ UNCHANGED <<tryMade, tryDropped, tryBatch, tryReceived>>
    BY <1>6, TryListSteps DEF Tries!EmplaceUnlock
  <2>2. TryInHand = {tryMade} /\ TryInHand' = {}
    BY <2>1 DEF TryInHand
  <2>3. list'[1] = Append(list[1], tryMade)
    BY <2>1 DEF TryInv, TryTypes
  <2>4. tryMade \in Numbers
    BY SameEvents, <1>0, <2>2 DEF OnePipe!Placed, TryInv, TryTypes, Numbers
  <2>5. OnePipe!LineOf(tryReceived, tryBatch, Append(list[1], tryMade)) = Append(OnePipe!LineOf(tryReceived, tryBatch, list[1]), tryMade)
    <3>1. \A u \in Seq(Numbers) : OnePipe!LineOf(tryReceived, tryBatch, Append(u, tryMade)) = Append(OnePipe!LineOf(tryReceived, tryBatch, u), tryMade)
      BY SameEvents, <1>0, <2>4, OnePipe!LineAdd
    <3> QED
      BY <1>0, <3>1, Zenon
  <2>6. TryLine' = Append(TryLine, tryMade)
    BY <2>1, <2>3, <2>5 DEF TryLine
  <2> QED
    BY SameEvents, <1>0, <1>1, <2>1, <2>2, <2>6, OnePipe!PlacedAdd
<1>7. ASSUME NEW i \in 1 .. 2, Tries!Swap(i) PROVE Goal
  <2>1. /\ tryLpc = "swap1" /\ tryBatch' = list[1] /\ list' = [list EXCEPT ![1] = << >>]
        /\ UNCHANGED <<tryMpc, tryMade, tryDropped, tryReceived>>
    BY <1>7, TryListSteps DEF Tries!Swap
  <2>2. tryBatch = << >>
    BY <2>1 DEF TryInv, TryLocks
  <2>3. list'[1] = << >>
    BY <2>1 DEF TryInv, TryTypes
  <2>4. OnePipe!LineOf(tryReceived, list[1], << >>) = OnePipe!LineOf(tryReceived, << >>, list[1])
    <3>1. << >> \in Seq(Numbers)
      BY SameEvents, OnePipe!EmptyIncreasing
    <3>2. \A s, u \in Seq(Numbers) : OnePipe!LineOf(s, u, << >>) = OnePipe!LineOf(s, << >>, u)
      BY SameEvents, <3>1, OnePipe!LineMoves, Zenon
    <3> QED
      BY <1>0, <3>2, Zenon
  <2>5. TryLine' = TryLine
    BY <2>1, <2>2, <2>3, <2>4 DEF TryLine
  <2> QED
    BY <1>2, <2>1, <2>5
<1>8. ASSUME Tries!Dispatch PROVE Goal
  <2>1. tryBatch # << >> => OnePipe!LineOf(Append(tryReceived, Head(tryBatch)), Tail(tryBatch), list[1]) = TryLine
    BY SameEvents, <1>0, OnePipe!LineMoves DEF TryLine
  <2>2. TryLine' = TryLine
    BY <1>8, <2>1 DEF Tries!Dispatch, TryLine
  <2> QED
    BY <1>2, <1>8, <2>2 DEF Tries!Dispatch
<1>9. ASSUME NEW i \in 1 .. 2, Tries!TryLock(i) \/ Tries!Look(i) PROVE Goal
  <2>1. /\ UNCHANGED <<list, tryMade, tryDropped, tryBatch, tryReceived>>
        /\ tryMpc \in {"try1", "try2", "add1", "add2", "drop"} <=> tryMpc' \in {"try1", "try2", "add1", "add2", "drop"}
    BY <1>9 DEF Tries!TryLock, Tries!Look
  <2> QED
    BY <1>2, <1>3, <2>1
<1>10. ASSUME Tries!Run PROVE Goal
  <2>1. tryMpc = "new"
    BY <1>10 DEF Tries!Run, TryInv, TryLocks
  <2> QED
    BY <1>2, <1>3, <1>10, <2>1 DEF Tries!Run
<1>11. ASSUME \/ Tries!ThreadExit \/ Tries!CountTx \/ Tries!Fire \/ Tries!CheckRunning \/ Tries!Wait
              \/ Tries!ConsumeEvent \/ Tries!Dispatched \/ Tries!Stop \/ Tries!Join \/ Tries!SignalHandler
              \/ Tries!Ended \/ UNCHANGED triesVars
       PROVE  Goal
  <2>1. /\ UNCHANGED <<list, tryMade, tryDropped, tryBatch, tryReceived>>
        /\ tryMpc \in {"try1", "try2", "add1", "add2", "drop"} <=> tryMpc' \in {"try1", "try2", "add1", "add2", "drop"}
    BY <1>11 DEF Tries!ThreadExit, Tries!CountTx, Tries!Fire, Tries!CheckRunning, Tries!Wait, Tries!ConsumeEvent,
         Tries!Dispatched, Tries!Stop, Tries!Join, Tries!SignalHandler, Tries!Ended, Tries!vars, triesVars
  <2> QED
    BY <1>2, <1>3, <2>1
<1>12. Goal
  BY <1>4, <1>5, <1>6, <1>7, <1>8, <1>9, <1>10, <1>11 DEF Tries!Next, Tries!ManagerThread, Tries!MainThread
<1> QED
  BY <1>12

(* app8 starts with empty lists and free mutexes. *)
LEMMA TryInit == ASSUME Tries!Init PROVE TryInv
<1>1. TryPipe!IInv
  <2>1. TryPipe!PipeAssumption /\ TryPipe!Init
    BY PartsAssumption DEF TryPipe!PipeAssumption, Tries!Init, Tries!P!Init, TryPipe!Init
  <2> QED
    BY <2>1, TryPipe!InitIInv
<1>2. << >> \in Seq(Numbers) /\ 0 \in 0 .. MaxEvents /\ 1 .. 0 = {}
  BY SameEvents, PartsAssumption, OnePipe!EmptyIncreasing DEF Tries!TryLockAssumption
<1>3. list[1] = << >> /\ list[2] = << >> /\ mutex[1] = "free" /\ mutex[2] = "free"
  BY DEF Tries!Init
<1>4. TryTypes
  <2>1. list \in [1 .. 2 -> Seq(Numbers)] /\ mutex \in [1 .. 2 -> {"free", "thread", "main"}]
    <3>1. \A S : \A a, b \in S : <<a, b>> \in [1 .. 2 -> S]
      OBVIOUS
    <3> QED
      BY <1>2, <3>1 DEF Tries!Init
  <2> QED
    BY <1>2, <2>1 DEF Tries!Init, TryTypes
<1>5. TryLocks
  BY <1>3 DEF Tries!Init, TryLocks
<1>6. TryLine = << >>
  <2>1. TryLine = << >> \o << >> \o << >>
    BY <1>3 DEF Tries!Init, TryLine, OnePipe!LineOf
  <2> QED
    BY <2>1
<1>7. OnePipe!Placed(TryLine, tryMade, tryDropped, TryInHand)
  BY SameEvents, <1>2, <1>6, OnePipe!EmptyIncreasing DEF Tries!Init, OnePipe!Placed, TryInHand
<1> QED
  BY <1>1, <1>4, <1>5, <1>7 DEF TryInv

(* Every step of app8 preserves the invariant. *)
LEMMA TryNext == ASSUME TryInv, [Tries!Next]_triesVars PROVE TryInv'
<1>1. TryPipe!IInv'
  BY TryPipeStep DEF TryInv
<1> QED
  BY <1>1, TryLocksStep, TryPlacedStep DEF TryInv

(* What the invariant says of app8's lists. *)
LEMMA TryOfInv == ASSUME TryInv PROVE Tries!ListsRight
<1>1. Tries!TypeOK
  <2>1. Tries!P!TypeOK
    BY DEF TryInv, TryPipe!IInv, TryPipe!TypeOK, Tries!P!TypeOK
  <2> QED
    BY <2>1 DEF TryInv, TryTypes, Tries!TypeOK, Numbers
<1>2. Tries!ListsProtected /\ Tries!SpareListUnused
  BY DEF TryInv, TryLocks, Tries!ListsProtected, Tries!SpareListUnused
<1>3. Tries!EachEventOnce
  <2>1. /\ tryReceived \in Seq(Numbers) /\ tryBatch \in Seq(Numbers) /\ list[2] = << >>
    BY DEF TryInv, TryTypes, TryLocks
  <2>2. tryReceived \o tryBatch \in Seq(Numbers)
    BY <2>1, ConcatProperties
  <2>3. (tryReceived \o tryBatch) \o << >> = tryReceived \o tryBatch
    BY <2>2, ConcatEmptySeq
  <2>4. Tries!Pipeline = TryLine
    BY <2>1, <2>3 DEF Tries!Pipeline, TryLine, OnePipe!LineOf
  <2>5. \A i, j \in DOMAIN TryLine : i < j => TryLine[i] < TryLine[j]
    BY SameEvents DEF TryInv, OnePipe!Placed, OnePipe!Increasing
  <2>6. Range(TryLine) = (1 .. tryMade) \ (tryDropped \cup TryInHand)
    BY SameEvents DEF TryInv, OnePipe!Placed
  <2>7. \A s : Tries!Range(s) = Range(s)
    BY DEF Tries!Range, Range
  <2> QED
    BY <2>4, <2>5, <2>6, <2>7 DEF Tries!EachEventOnce, TryInHand
<1> QED
  BY <1>1, <1>2, <1>3 DEF Tries!ListsRight

-----------------------------------------------------------------------------
(***************************************************************************)
(* PeerManagers: app1 to app3.  Which managers the program has.            *)
(***************************************************************************)
Pair == {Peers!A, Peers!B}
Present == IF peerApp = "app2" THEN Pair ELSE {Peers!A}

PeerTypes == /\ peerApp \in {"app1", "app2", "app3"}
             /\ peerMpc \in [Pair -> {"new", "top", "lock", "exited"}]
             /\ peerQueue \in [Pair -> Seq(Numbers)] /\ peerFired \in [Pair -> BOOLEAN]
             /\ peerMade \in [Pair -> 0 .. MaxEvents] /\ peerDropped \in [Pair -> SUBSET Numbers]
             /\ peerBatch \in Seq(Numbers) /\ peerReceived \in [Pair -> Seq(Numbers)]
             /\ peerCur \in Present /\ ready \subseteq Present

(***************************************************************************)
(* Run() registers the counters of a manager before it starts its thread,  *)
(* and main() looks for events when it has run all managers.               *)
(***************************************************************************)
PeerStart == /\ peerLpc = "run" => \/ peerNext = 1 /\ counters = {}
                                   \/ peerApp = "app2" /\ peerNext = 2 /\ counters = {Peers!A}
             /\ peerLpc # "run" => Present \subseteq counters
             /\ \A m \in Pair : peerMpc[m] # "new" => m \in counters
             /\ peerBatch # << >> => peerLpc = "dispatch"
             /\ uncounted = 0

(***************************************************************************)
(* app1 compares a length that can only have become smaller since.         *)
(***************************************************************************)
Length(s) == Len(s)

PeerLength == peerApp = "app1" =>
                /\ Length(peerQueue[Peers!A]) <= MAX_QUEUE_SIZE + 1
                /\ peerMpc[Peers!A] = "lock" => Length(peerQueue[Peers!A]) <= MAX_QUEUE_SIZE

PeerBatch(m) == IF peerCur = m THEN peerBatch ELSE << >>
PeerLine(m) == OnePipe!LineOf(peerReceived[m], PeerBatch(m), peerQueue[m])
PeerInHand(m) == IF peerMpc[m] = "lock" THEN {peerMade[m]} ELSE {}

PeerKept(m) == /\ peerQueue[m] # << >> => peerFired[m]
               /\ OnePipe!Placed(PeerLine(m), peerMade[m], peerDropped[m], PeerInHand(m))

PeerInv == PeerTypes /\ PeerStart /\ PeerLength /\ \A m \in Pair : PeerKept(m)

(* The managers of app1 to app3, in the order main() runs them. *)
LEMMA PeerOrder ==
  ASSUME PeerTypes
  PROVE  /\ Peers!ToSet(Peers!Order) = Present /\ Present \subseteq Pair /\ Peers!A \in Present
         /\ Len(Peers!Order) = (IF peerApp = "app2" THEN 2 ELSE 1)
         /\ Peers!Order[1] = Peers!A /\ (peerApp = "app2" => Peers!Order[2] = Peers!B)
         /\ \A m \in Present : Peers!ConsumerOf(m) \in Present
         /\ Peers!A # Peers!B
<1>1. Peers!A # Peers!B
  BY DEF Peers!A, Peers!B
<1>2. CASE peerApp = "app2"
  <2>1. Peers!Order = <<Peers!A, Peers!B>>
    BY <1>2 DEF Peers!Order
  <2>2. Peers!ToSet(Peers!Order) = Pair
    <3>1. \A i : i \in 1 .. 2 <=> i = 1 \/ i = 2
      OBVIOUS
    <3>2. DOMAIN Peers!Order = 1 .. 2 /\ Peers!Order[1] = Peers!A /\ Peers!Order[2] = Peers!B
      BY <2>1
    <3> QED
      BY <3>1, <3>2 DEF Peers!ToSet, Pair
  <2> QED
    BY <1>1, <1>2, <2>1, <2>2 DEF Present, Pair, Peers!ConsumerOf
<1>3. CASE peerApp # "app2"
  <2>1. Peers!Order = <<Peers!A>>
    BY <1>3 DEF Peers!Order
  <2>2. Peers!ToSet(Peers!Order) = {Peers!A}
    <3>1. DOMAIN Peers!Order = {1} /\ Peers!Order[1] = Peers!A
      BY <2>1
    <3> QED
      BY <3>1 DEF Peers!ToSet
  <2> QED
    BY <1>1, <1>3, <2>1, <2>2 DEF Present, Pair, Peers!ConsumerOf
<1> QED
  BY <1>2, <1>3

(* The events of a manager that a step does not touch stay where they are. *)
LEMMA PeerUntouched ==
  ASSUME NEW m, PeerKept(m),
         UNCHANGED <<peerQueue[m], peerFired[m], peerMade[m], peerDropped[m], peerReceived[m], PeerBatch(m)>>,
         peerMpc[m] = "lock" <=> peerMpc'[m] = "lock"
  PROVE  PeerKept(m)'
<1>1. PeerLine(m)' = PeerLine(m) /\ PeerInHand(m)' = PeerInHand(m)
  BY DEF PeerLine, PeerInHand
<1> QED
  BY <1>1 DEF PeerKept

(* What the invariant says of one manager, in the form the lemmas need. *)
LEMMA PeerFacts ==
  ASSUME PeerInv, NEW m \in Pair
  PROVE  /\ peerMade[m] \in Nat /\ peerReceived[m] \in Seq(Numbers) /\ PeerBatch(m) \in Seq(Numbers)
         /\ peerQueue[m] \in Seq(Numbers) /\ PeerLine(m) \in Seq(Nat)
         /\ peerMpc[m] = "lock" => peerMade[m] \in Numbers
<1>1. /\ peerMade[m] \in 0 .. MaxEvents /\ MaxEvents \in Nat /\ Numbers \subseteq Nat
      /\ peerReceived[m] \in Seq(Numbers) /\ peerQueue[m] \in Seq(Numbers)
  BY PartsAssumption DEF PeerInv, PeerTypes, Numbers, Tries!TryLockAssumption
<1>2. PeerBatch(m) \in Seq(Numbers)
  BY SameEvents, OnePipe!EmptyIncreasing DEF PeerInv, PeerTypes, PeerBatch
<1>3. PeerLine(m) \in Seq(Numbers)
  <2>1. \A s, t, u \in Seq(Numbers) : OnePipe!LineOf(s, t, u) \in Seq(Numbers)
    BY SameEvents, OnePipe!LineRange, Zenon
  <2> QED
    BY <1>1, <1>2, <2>1 DEF PeerLine
<1>4. PeerLine(m) \in Seq(Nat)
  BY <1>1, <1>3, SeqMonotonic
<1>5. peerMpc[m] = "lock" => peerMade[m] \in Numbers
  BY SameEvents, <1>1 DEF PeerInv, PeerKept, OnePipe!Placed, PeerInHand, Numbers
<1> QED
  BY <1>1, <1>2, <1>4, <1>5

(* A thread creates an event; app1 drops it at once if the list is long. *)
LEMMA PeerRunImpl == ASSUME PeerInv, NEW m \in Pair, Peers!RunImpl(m) PROVE PeerInv'
<1>1. /\ peerMpc[m] = "top" /\ peerMade[m] < MaxEvents /\ peerMade' = [peerMade EXCEPT ![m] = @ + 1]
      /\ IF Peers!TooLong(m) THEN peerDropped' = [peerDropped EXCEPT ![m] = @ \cup {peerMade'[m]}] /\ peerMpc' = peerMpc
                             ELSE peerMpc' = [peerMpc EXCEPT ![m] = "lock"] /\ peerDropped' = peerDropped
      /\ UNCHANGED <<peerApp, peerQueue, peerFired, counters, peerLpc, peerNext, ready, peerCur, peerBatch,
                     peerReceived, uncounted>>
  BY DEF Peers!RunImpl, Peers!mainVars
<1>2. PeerTypes /\ PeerStart /\ PeerLength /\ (\A k \in Pair : PeerKept(k)) /\ MaxEvents \in Nat
  BY PartsAssumption DEF PeerInv, Tries!TryLockAssumption
<1>3. /\ peerMade'[m] = peerMade[m] + 1 /\ peerMade' \in [Pair -> 0 .. MaxEvents]
      /\ \A k \in Pair : k # m => peerMade'[k] = peerMade[k]
  BY <1>1, <1>2 DEF PeerTypes
<1>4. /\ peerMpc' \in [Pair -> {"new", "top", "lock", "exited"}]
      /\ \A k \in Pair : k # m => peerMpc'[k] = peerMpc[k]
      /\ Peers!TooLong(m) => peerMpc'[m] = "top"
      /\ ~Peers!TooLong(m) => peerMpc'[m] = "lock"
  BY <1>1, <1>2 DEF PeerTypes
<1>5. /\ peerDropped' \in [Pair -> SUBSET Numbers]
      /\ \A k \in Pair : k # m => peerDropped'[k] = peerDropped[k]
      /\ Peers!TooLong(m) => peerDropped'[m] = peerDropped[m] \cup {peerMade[m] + 1}
      /\ ~Peers!TooLong(m) => peerDropped'[m] = peerDropped[m]
  <2>1. peerMade'[m] \in Numbers
    BY <1>1, <1>2, <1>3, PeerFacts DEF Numbers
  <2>2. peerDropped \in [Pair -> SUBSET Numbers] /\ peerDropped[m] \cup {peerMade'[m]} \in SUBSET Numbers
    BY <1>2, <2>1 DEF PeerTypes
  <2>3. CASE Peers!TooLong(m)
    <3>1. peerDropped' = [peerDropped EXCEPT ![m] = peerDropped[m] \cup {peerMade'[m]}]
      BY <1>1, <2>3
    <3> QED
      BY <1>3, <2>2, <2>3, <3>1
  <2>4. CASE ~Peers!TooLong(m)
    BY <1>1, <2>2, <2>4
  <2> QED
    BY <2>3, <2>4
<1>6. PeerTypes'
  <2>1. Present' = Present
    BY <1>1 DEF Present
  <2> QED
    BY <1>1, <1>2, <1>3, <1>4, <1>5, <2>1 DEF PeerTypes
<1>7. PeerStart'
  <2>1. Present' = Present
    BY <1>1 DEF Present
  <2> QED
    BY <1>1, <1>2, <1>4, <2>1 DEF PeerStart
<1>8. PeerLength'
  <2>1. m = Peers!A /\ peerApp = "app1" /\ ~Peers!TooLong(m) => Length(peerQueue[Peers!A]) <= MAX_QUEUE_SIZE
    <3>1. Length(peerQueue[m]) \in Nat /\ MAX_QUEUE_SIZE \in Nat
      BY PeerFacts, PartsAssumption DEF Length
    <3> QED
      BY <3>1 DEF Peers!TooLong, Length
  <2>2. Peers!A \in Pair
    BY DEF Pair
  <2> QED
    BY <1>1, <1>2, <1>4, <2>1, <2>2 DEF PeerLength
<1>9. ASSUME NEW k \in Pair PROVE PeerKept(k)'
  <2>1. PeerBatch(k)' = PeerBatch(k)
    BY <1>1 DEF PeerBatch
  <2>2. CASE k # m
    BY <1>1, <1>2, <1>3, <1>4, <1>5, <2>1, <2>2, PeerUntouched
  <2>3. CASE k = m
    <3>1. PeerLine(m)' = PeerLine(m) /\ peerMade[m] \in Nat /\ PeerInHand(m) = {}
      BY <1>1, <2>1, <2>3, PeerFacts DEF PeerLine, PeerInHand
    <3>2. OnePipe!Placed(PeerLine(m), peerMade[m], peerDropped[m], {})
      BY <1>2, <3>1 DEF PeerKept
    <3>3. /\ OnePipe!Placed(PeerLine(m), peerMade[m] + 1, peerDropped[m], {peerMade[m] + 1})
          /\ OnePipe!Placed(PeerLine(m), peerMade[m] + 1, peerDropped[m] \cup {peerMade[m] + 1}, {})
      BY SameEvents, <3>1, <3>2, OnePipe!PlacedCreate
    <3>4. PeerInHand(m)' = IF Peers!TooLong(m) THEN {} ELSE {peerMade[m] + 1}
      BY <1>3, <1>4 DEF PeerInHand
    <3>5. OnePipe!Placed(PeerLine(m)', peerMade'[m], peerDropped'[m], PeerInHand(m)')
      BY <1>3, <1>5, <3>1, <3>3, <3>4
    <3> QED
      BY <1>1, <1>2, <2>3, <3>5 DEF PeerKept
  <2> QED
    BY <2>2, <2>3
<1> QED
  BY <1>6, <1>7, <1>8, <1>9 DEF PeerInv

(* A thread adds its event and fires, under the mutex. *)
LEMMA PeerEmplace == ASSUME PeerInv, NEW m \in Pair, Peers!Emplace(m) PROVE PeerInv'
<1>1. /\ peerMpc[m] = "lock" /\ peerQueue' = [peerQueue EXCEPT ![m] = Append(@, peerMade[m])]
      /\ peerFired' = [peerFired EXCEPT ![m] = TRUE] /\ peerMpc' = [peerMpc EXCEPT ![m] = "top"]
      /\ UNCHANGED <<peerApp, peerMade, peerDropped, counters, peerLpc, peerNext, ready, peerCur, peerBatch,
                     peerReceived, uncounted>>
  BY DEF Peers!Emplace, Peers!mainVars
<1>2. PeerTypes /\ PeerStart /\ PeerLength /\ \A k \in Pair : PeerKept(k)
  BY DEF PeerInv
<1>3. Append(peerQueue[m], peerMade[m]) \in Seq(Numbers) /\ Length(Append(peerQueue[m], peerMade[m])) = Length(peerQueue[m]) + 1
  <2>1. peerQueue[m] \in Seq(Numbers) /\ peerMade[m] \in Numbers
    BY <1>1, PeerFacts
  <2> QED
    BY <2>1, AppendProperties DEF Length
<1>4. /\ peerQueue' \in [Pair -> Seq(Numbers)] /\ peerQueue'[m] = Append(peerQueue[m], peerMade[m])
      /\ \A k \in Pair : k # m => peerQueue'[k] = peerQueue[k]
  BY <1>1, <1>2, <1>3 DEF PeerTypes
<1>5. /\ peerFired' \in [Pair -> BOOLEAN] /\ peerFired'[m]
      /\ \A k \in Pair : k # m => peerFired'[k] = peerFired[k]
  BY <1>1, <1>2 DEF PeerTypes
<1>6. /\ peerMpc' \in [Pair -> {"new", "top", "lock", "exited"}] /\ peerMpc'[m] = "top"
      /\ \A k \in Pair : k # m => peerMpc'[k] = peerMpc[k]
  BY <1>1, <1>2 DEF PeerTypes
<1>7. Present' = Present
  BY <1>1 DEF Present
<1>8. PeerTypes' /\ PeerStart'
  BY <1>1, <1>2, <1>4, <1>5, <1>6, <1>7 DEF PeerTypes, PeerStart
<1>9. PeerLength'
  <2>1. Peers!A \in Pair
    BY DEF Pair
  <2>2. CASE m = Peers!A
    <3>1. Length(peerQueue[m]) \in Nat /\ MAX_QUEUE_SIZE \in Nat
      BY PeerFacts, PartsAssumption DEF Length
    <3> QED
      BY <1>1, <1>2, <1>3, <1>4, <1>6, <2>2, <3>1 DEF PeerLength
  <2>3. CASE m # Peers!A
    BY <1>1, <1>2, <1>4, <1>6, <2>1, <2>3 DEF PeerLength
  <2> QED
    BY <2>2, <2>3
<1>10. ASSUME NEW k \in Pair PROVE PeerKept(k)'
  <2>1. PeerBatch(k)' = PeerBatch(k)
    BY <1>1 DEF PeerBatch
  <2>2. CASE k # m
    BY <1>1, <1>2, <1>4, <1>5, <1>6, <2>1, <2>2, PeerUntouched
  <2>3. CASE k = m
    <3>1. /\ peerReceived[m] \in Seq(Numbers) /\ PeerBatch(m) \in Seq(Numbers) /\ peerQueue[m] \in Seq(Numbers)
          /\ peerMade[m] \in Numbers /\ peerMade[m] \in Nat /\ PeerLine(m) \in Seq(Nat)
      BY <1>1, PeerFacts
    <3>2. \A e \in Numbers : \A s, t, u \in Seq(Numbers) : OnePipe!LineOf(s, t, Append(u, e)) = Append(OnePipe!LineOf(s, t, u), e)
      BY SameEvents, OnePipe!LineAdd
    <3>3. PeerLine(m)' = Append(PeerLine(m), peerMade[m])
      <4>1. PeerLine(m)' = OnePipe!LineOf(peerReceived[m], PeerBatch(m), Append(peerQueue[m], peerMade[m]))
        BY <1>1, <1>4, <2>1, <2>3 DEF PeerLine
      <4>2. OnePipe!LineOf(peerReceived[m], PeerBatch(m), Append(peerQueue[m], peerMade[m])) = Append(PeerLine(m), peerMade[m])
        BY <3>1, <3>2, Zenon DEF PeerLine
      <4> QED
        BY <4>1, <4>2
    <3>4. PeerInHand(m) = {peerMade[m]} /\ PeerInHand(m)' = {}
      BY <1>1, <1>6 DEF PeerInHand
    <3>5. OnePipe!Placed(PeerLine(m), peerMade[m], peerDropped[m], {peerMade[m]})
      BY <1>2, <3>4 DEF PeerKept
    <3>6. OnePipe!Placed(Append(PeerLine(m), peerMade[m]), peerMade[m], peerDropped[m], {})
      BY SameEvents, <3>1, <3>5, OnePipe!PlacedAdd
    <3> QED
      BY <1>1, <1>5, <2>3, <3>3, <3>4, <3>6 DEF PeerKept
  <2> QED
    BY <2>2, <2>3
<1> QED
  BY <1>8, <1>9, <1>10 DEF PeerInv

(* Produce() takes the whole list and consumes the wake-up, under the mutex. *)
LEMMA PeerProduce == ASSUME PeerInv, NEW m \in ready, Peers!Produce(m) PROVE PeerInv'
<1>1. /\ peerLpc = "serve" /\ ready' = ready \ {m} /\ peerCur' = m /\ peerBatch' = peerQueue[m]
      /\ peerQueue' = [peerQueue EXCEPT ![m] = << >>] /\ peerFired' = [peerFired EXCEPT ![m] = FALSE]
      /\ peerLpc' = "dispatch"
      /\ UNCHANGED <<peerApp, peerMpc, peerMade, peerDropped, counters, peerNext, peerReceived, uncounted>>
  BY DEF Peers!Produce
<1>2. PeerTypes /\ PeerStart /\ PeerLength /\ \A k \in Pair : PeerKept(k)
  BY DEF PeerInv
<1>3. m \in Present /\ m \in Pair /\ Present' = Present
  BY <1>1, <1>2, PeerOrder DEF PeerTypes, Present
<1>4. /\ peerQueue' \in [Pair -> Seq(Numbers)] /\ peerQueue'[m] = << >>
      /\ \A k \in Pair : k # m => peerQueue'[k] = peerQueue[k]
  <2>1. << >> \in Seq(Numbers)
    BY SameEvents, OnePipe!EmptyIncreasing
  <2> QED
    BY <1>1, <1>2, <1>3, <2>1 DEF PeerTypes
<1>5. /\ peerFired' \in [Pair -> BOOLEAN] /\ \A k \in Pair : k # m => peerFired'[k] = peerFired[k]
  BY <1>1, <1>2, <1>3 DEF PeerTypes
<1>6. peerBatch = << >>
  BY <1>1, <1>2 DEF PeerStart
<1>7. PeerTypes' /\ PeerStart'
  BY <1>1, <1>2, <1>3, <1>4, <1>5 DEF PeerTypes, PeerStart
<1>8. PeerLength'
  <2>1. Peers!A \in Pair /\ Length(<< >>) = 0 /\ MAX_QUEUE_SIZE \in Nat
    BY PartsAssumption DEF Pair, Length
  <2> QED
    BY <1>1, <1>2, <1>4, <2>1 DEF PeerLength
<1>9. ASSUME NEW k \in Pair PROVE PeerKept(k)'
  <2>1. PeerBatch(k) = << >>
    BY <1>6 DEF PeerBatch
  <2>2. CASE k # m
    <3>1. PeerBatch(k)' = PeerBatch(k)
      BY <1>1, <2>1, <2>2 DEF PeerBatch
    <3> QED
      BY <1>1, <1>2, <1>4, <1>5, <2>2, <3>1, PeerUntouched
  <2>3. CASE k = m
    <3>1. peerReceived[m] \in Seq(Numbers) /\ peerQueue[m] \in Seq(Numbers) /\ << >> \in Seq(Numbers)
      BY SameEvents, <1>3, PeerFacts, OnePipe!EmptyIncreasing
    <3>2. \A s, u \in Seq(Numbers) : OnePipe!LineOf(s, u, << >>) = OnePipe!LineOf(s, << >>, u)
      <4>1. << >> \in Seq(Numbers)
        BY <3>1
      <4> QED
        BY SameEvents, <4>1, OnePipe!LineMoves, Zenon
    <3>3. PeerLine(m)' = OnePipe!LineOf(peerReceived[m], peerQueue[m], << >>)
      BY <1>1, <1>4 DEF PeerLine, PeerBatch
    <3>4. PeerLine(m) = OnePipe!LineOf(peerReceived[m], << >>, peerQueue[m])
      BY <2>1, <2>3 DEF PeerLine
    <3>5. PeerLine(m)' = PeerLine(m) /\ PeerInHand(m)' = PeerInHand(m)
      BY <1>1, <3>1, <3>2, <3>3, <3>4 DEF PeerInHand
    <3> QED
      BY <1>1, <1>2, <1>4, <2>3, <3>5 DEF PeerKept
  <2> QED
    BY <2>2, <2>3
<1> QED
  BY <1>7, <1>8, <1>9 DEF PeerInv

(* Consume() of the next event, by a manager that has its counters. *)
LEMMA PeerConsume == ASSUME PeerInv, Peers!Consume PROVE PeerInv'
<1>1. /\ peerLpc = "dispatch" /\ peerBatch # << >>
      /\ peerReceived' = [peerReceived EXCEPT ![peerCur] = Append(@, Head(peerBatch))]
      /\ uncounted' = (IF Peers!ConsumerOf(peerCur) \in counters THEN uncounted ELSE uncounted + 1)
      /\ peerBatch' = Tail(peerBatch)
      /\ UNCHANGED <<peerApp, peerMpc, peerQueue, peerFired, peerMade, peerDropped, counters, peerLpc, peerNext,
                     ready, peerCur>>
  BY DEF Peers!Consume, Peers!threadVars
<1>2. PeerTypes /\ PeerStart /\ PeerLength /\ \A k \in Pair : PeerKept(k)
  BY DEF PeerInv
<1>3. peerCur \in Pair /\ Peers!ConsumerOf(peerCur) \in Present /\ Present' = Present
  BY <1>1, <1>2, PeerOrder DEF PeerTypes, Present
<1>4. peerReceived[peerCur] \in Seq(Numbers) /\ peerBatch \in Seq(Numbers)
  BY <1>2, <1>3 DEF PeerTypes
<1>5. Append(peerReceived[peerCur], Head(peerBatch)) \in Seq(Numbers) /\ Tail(peerBatch) \in Seq(Numbers)
  BY SameEvents, <1>1, <1>4, OnePipe!HeadMoves
<1>6. /\ peerReceived' \in [Pair -> Seq(Numbers)]
      /\ peerReceived'[peerCur] = Append(peerReceived[peerCur], Head(peerBatch))
      /\ \A k \in Pair : k # peerCur => peerReceived'[k] = peerReceived[k]
  BY <1>1, <1>2, <1>3, <1>5 DEF PeerTypes
<1>7. PeerTypes' /\ PeerStart'
  <2>1. uncounted' = 0
    BY <1>1, <1>2, <1>3 DEF PeerStart
  <2> QED
    BY <1>1, <1>2, <1>3, <1>5, <1>6, <2>1 DEF PeerTypes, PeerStart
<1>8. PeerLength'
  BY <1>1, <1>2 DEF PeerLength
<1>9. ASSUME NEW k \in Pair PROVE PeerKept(k)'
  <2>1. CASE k # peerCur
    <3>1. PeerBatch(k)' = PeerBatch(k)
      BY <1>1, <2>1 DEF PeerBatch
    <3> QED
      BY <1>1, <1>2, <1>6, <2>1, <3>1, PeerUntouched
  <2>2. CASE k = peerCur
    <3>1. \A s, t, u \in Seq(Numbers) : t # << >> => OnePipe!LineOf(Append(s, Head(t)), Tail(t), u) = OnePipe!LineOf(s, t, u)
      BY SameEvents, OnePipe!LineMoves
    <3>2. peerQueue[k] \in Seq(Numbers)
      BY PeerFacts
    <3>3. PeerLine(k)' = OnePipe!LineOf(Append(peerReceived[peerCur], Head(peerBatch)), Tail(peerBatch), peerQueue[k])
      BY <1>1, <1>6, <2>2 DEF PeerLine, PeerBatch
    <3>4. PeerLine(k) = OnePipe!LineOf(peerReceived[peerCur], peerBatch, peerQueue[k])
      BY <2>2 DEF PeerLine, PeerBatch
    <3>5. OnePipe!LineOf(Append(peerReceived[peerCur], Head(peerBatch)), Tail(peerBatch), peerQueue[k])
            = OnePipe!LineOf(peerReceived[peerCur], peerBatch, peerQueue[k])
      BY <1>1, <1>4, <3>1, <3>2, Zenon
    <3>6. PeerLine(k)' = PeerLine(k) /\ PeerInHand(k)' = PeerInHand(k)
      BY <1>1, <3>3, <3>4, <3>5 DEF PeerInHand
    <3> QED
      BY <1>1, <1>2, <3>6 DEF PeerKept
  <2> QED
    BY <2>1, <2>2
<1> QED
  BY <1>7, <1>8, <1>9 DEF PeerInv

(* The steps of main() and of the threads that move no event. *)
LEMMA PeerStill ==
  ASSUME PeerInv, peerMpc' \in [Pair -> {"new", "top", "lock", "exited"}],
         \A k \in Pair : peerMpc[k] = "lock" <=> peerMpc'[k] = "lock",
         UNCHANGED <<peerApp, peerQueue, peerFired, peerMade, peerDropped, peerBatch, peerReceived, peerCur>>,
         ready' \subseteq Present, PeerStart'
  PROVE  PeerInv'
<1>1. PeerTypes /\ PeerLength /\ (\A k \in Pair : PeerKept(k)) /\ Present' = Present /\ Peers!A \in Pair
  BY DEF PeerInv, Present, Pair
<1>2. PeerTypes'
  BY <1>1 DEF PeerTypes
<1>3. PeerLength'
  BY <1>1 DEF PeerLength
<1>4. ASSUME NEW k \in Pair PROVE PeerKept(k)'
  <2>1. PeerBatch(k)' = PeerBatch(k)
    BY DEF PeerBatch
  <2> QED
    BY <1>1, <2>1, PeerUntouched
<1> QED
  BY <1>2, <1>3, <1>4 DEF PeerInv

(* Run() of the next manager: its thread was not there before. *)
LEMMA PeerRun == ASSUME PeerInv, Peers!Run PROVE PeerInv'
<1> DEFINE n == Peers!Order[peerNext]
<1>1. /\ peerLpc = "run" /\ counters' = counters \cup {n} /\ peerMpc' = [peerMpc EXCEPT ![n] = "top"]
      /\ peerLpc' = (IF peerNext >= Len(Peers!Order) THEN "loop" ELSE "run")
      /\ peerNext' = (IF peerNext >= Len(Peers!Order) THEN 1 ELSE peerNext + 1)
      /\ UNCHANGED <<peerApp, peerQueue, peerFired, peerMade, peerDropped, ready, peerCur, peerBatch, peerReceived,
                     uncounted>>
  BY DEF Peers!Run
<1>2. PeerTypes /\ PeerStart /\ Present' = Present
  BY <1>1 DEF PeerInv, Present
<1>3. /\ Len(Peers!Order) = (IF peerApp = "app2" THEN 2 ELSE 1) /\ Peers!A # Peers!B
      /\ Peers!Order[1] = Peers!A /\ (peerApp = "app2" => Peers!Order[2] = Peers!B)
  BY <1>2, PeerOrder
<1>4. \/ n = Peers!A /\ counters = {} /\ peerApp # "app2" /\ peerLpc' = "loop"
      \/ n = Peers!A /\ counters = {} /\ peerApp = "app2" /\ peerLpc' = "run" /\ peerNext' = 2
      \/ n = Peers!B /\ counters = {Peers!A} /\ peerApp = "app2" /\ peerLpc' = "loop"
  BY <1>1, <1>2, <1>3 DEF PeerStart
<1>5. n \in Pair /\ peerMpc[n] = "new"
  BY <1>2, <1>3, <1>4 DEF PeerStart, Pair
<1> HIDE DEF n
<1>6. /\ peerMpc' \in [Pair -> {"new", "top", "lock", "exited"}] /\ peerMpc'[n] = "top"
      /\ \A k \in Pair : k # n => peerMpc'[k] = peerMpc[k]
  BY <1>1, <1>2, <1>5 DEF PeerTypes
<1>7. PeerStart'
  <2>1. \A k \in Pair : peerMpc'[k] # "new" => k \in counters'
    BY <1>1, <1>2, <1>6 DEF PeerStart
  <2>2. peerLpc' # "run" => Present \subseteq counters'
    BY <1>1, <1>4 DEF Present, Pair
  <2>3. peerLpc' = "run" => peerApp' = "app2" /\ peerNext' = 2 /\ counters' = {Peers!A}
    BY <1>1, <1>4
  <2>4. (peerBatch' # << >> => peerLpc' = "dispatch") /\ uncounted' = 0
    BY <1>1, <1>2 DEF PeerStart
  <2> QED
    BY <1>2, <2>1, <2>2, <2>3, <2>4 DEF PeerStart
<1>8. \A k \in Pair : peerMpc[k] = "lock" <=> peerMpc'[k] = "lock"
  BY <1>5, <1>6
<1>9. ready' \subseteq Present
  BY <1>1, <1>2 DEF PeerTypes
<1> QED
  BY <1>1, <1>6, <1>7, <1>8, <1>9, PeerStill

(* Every step of app1 to app3 preserves the invariant. *)
LEMMA PeerNextKeeps == ASSUME PeerInv, [Peers!Next]_peersVars PROVE PeerInv'
<1> USE DEF Peers!threadVars, Peers!mainVars
<1>1. PeerTypes /\ PeerStart /\ Peers!ToSet(Peers!Order) = Present /\ Present \subseteq Pair
  BY PeerOrder DEF PeerInv
<1>2. ASSUME UNCHANGED <<peerApp, peerQueue, peerFired, peerMade, peerDropped, peerBatch, peerReceived, peerCur,
                         counters, peerNext, uncounted, peerMpc>>,
             ready' \subseteq Present, peerLpc = "run" <=> peerLpc' = "run",
             peerBatch # << >> => peerLpc' = "dispatch"
      PROVE  PeerInv'
  <2>1. Present' = Present
    BY <1>2 DEF Present
  <2>2. PeerStart'
    BY <1>1, <1>2, <2>1 DEF PeerStart
  <2>3. peerMpc' \in [Pair -> {"new", "top", "lock", "exited"}]
    BY <1>1, <1>2 DEF PeerTypes
  <2> QED
    BY <1>2, <2>2, <2>3, PeerStill
<1>3. ready \subseteq Present /\ (peerBatch # << >> => peerLpc = "dispatch")
  BY <1>1 DEF PeerTypes, PeerStart
<1>4. ASSUME Peers!CheckRunning PROVE PeerInv'
  BY <1>2, <1>3, <1>4 DEF Peers!CheckRunning
<1>5. ASSUME Peers!Wait PROVE PeerInv'
  <2>1. Peers!Readable \subseteq Present
    BY <1>1 DEF Peers!Readable
  <2> QED
    BY <1>2, <1>3, <1>5, <2>1 DEF Peers!Wait
<1>6. ASSUME Peers!Dispatched PROVE PeerInv'
  BY <1>2, <1>3, <1>6 DEF Peers!Dispatched
<1>7. ASSUME Peers!Stop PROVE PeerInv'
  BY <1>2, <1>3, <1>7 DEF Peers!Stop
<1>8. ASSUME Peers!Join PROVE PeerInv'
  <2>1. /\ UNCHANGED <<peerApp, peerQueue, peerFired, peerMade, peerDropped, peerBatch, peerReceived, peerCur,
                       counters, uncounted, peerMpc, ready>>
        /\ peerLpc = "join" /\ peerLpc' \in {"ended", "stop"}
    BY <1>8 DEF Peers!Join
  <2>2. Present' = Present
    BY <2>1 DEF Present
  <2>3. PeerStart'
    BY <1>1, <2>1, <2>2 DEF PeerStart
  <2>4. peerMpc' \in [Pair -> {"new", "top", "lock", "exited"}]
    BY <1>1, <2>1 DEF PeerTypes
  <2> QED
    BY <1>3, <2>1, <2>3, <2>4, PeerStill
<1>9. ASSUME Peers!SignalHandler \/ Peers!Ended \/ UNCHANGED peersVars PROVE PeerInv'
  BY <1>2, <1>3, <1>9 DEF Peers!SignalHandler, Peers!Ended, Peers!vars, peersVars
<1>10. ASSUME NEW m \in Present, Peers!ThreadExit(m) PROVE PeerInv'
  <2>1. /\ peerMpc[m] = "top" /\ peerMpc' = [peerMpc EXCEPT ![m] = "exited"] /\ m \in Pair
        /\ UNCHANGED <<peerApp, peerQueue, peerFired, peerMade, peerDropped, peerBatch, peerReceived, peerCur,
                       counters, peerNext, peerLpc, uncounted, ready>>
    BY <1>1, <1>10 DEF Peers!ThreadExit
  <2>2. /\ peerMpc' \in [Pair -> {"new", "top", "lock", "exited"}] /\ peerMpc'[m] = "exited"
        /\ \A k \in Pair : k # m => peerMpc'[k] = peerMpc[k]
    BY <1>1, <2>1 DEF PeerTypes
  <2>3. Present' = Present
    BY <2>1 DEF Present
  <2>4. PeerStart'
    BY <1>1, <2>1, <2>2, <2>3 DEF PeerStart
  <2>5. \A k \in Pair : peerMpc[k] = "lock" <=> peerMpc'[k] = "lock"
    BY <2>1, <2>2
  <2> QED
    BY <1>3, <2>1, <2>2, <2>4, <2>5, PeerStill
<1>11. ASSUME NEW m \in Present, Peers!Thread(m) PROVE PeerInv'
  BY <1>1, <1>10, <1>11, PeerRunImpl, PeerEmplace DEF Peers!Thread
<1> QED
  BY <1>1, <1>4, <1>5, <1>6, <1>7, <1>8, <1>9, <1>11, PeerRun, PeerProduce, PeerConsume DEF Peers!Next, Peers!Main

(* app1 to app3 start with no manager run and no event made. *)
LEMMA PeerInit == ASSUME Peers!Init PROVE PeerInv
<1>1. << >> \in Seq(Numbers) /\ 0 \in 0 .. MaxEvents /\ 1 .. 0 = {} /\ Length(<< >>) = 0 /\ MAX_QUEUE_SIZE \in Nat
  BY SameEvents, PartsAssumption, OnePipe!EmptyIncreasing DEF Tries!TryLockAssumption, Length
<1>2. /\ peerApp \in {"app1", "app2", "app3"} /\ peerMpc = [m \in Pair |-> "new"]
      /\ peerQueue = [m \in Pair |-> << >>] /\ peerFired = [m \in Pair |-> FALSE]
      /\ peerMade = [m \in Pair |-> 0] /\ peerDropped = [m \in Pair |-> {}]
      /\ counters = {} /\ peerLpc = "run" /\ peerNext = 1 /\ ready = {} /\ peerCur = Peers!A
      /\ peerBatch = << >> /\ peerReceived = [m \in Pair |-> << >>] /\ uncounted = 0
  BY DEF Peers!Init, Pair
<1>3. PeerTypes
  <2>1. Peers!A \in Present
    BY DEF Present, Pair
  <2>2. peerQueue \in [Pair -> Seq(Numbers)] /\ peerReceived \in [Pair -> Seq(Numbers)] /\ peerBatch \in Seq(Numbers)
    BY <1>1, <1>2
  <2> QED
    BY <1>1, <1>2, <2>1, <2>2 DEF PeerTypes
<1>4. PeerStart
  BY <1>2 DEF PeerStart
<1>5. PeerLength
  <2>1. peerQueue[Peers!A] = << >> /\ peerMpc[Peers!A] = "new"
    BY <1>2 DEF Pair
  <2> QED
    BY <1>1, <2>1 DEF PeerLength
<1>6. ASSUME NEW m \in Pair PROVE PeerKept(m)
  <2>1. /\ peerReceived[m] = << >> /\ peerQueue[m] = << >> /\ PeerBatch(m) = << >>
        /\ peerMade[m] = 0 /\ peerDropped[m] = {} /\ PeerInHand(m) = {}
    BY <1>2 DEF PeerBatch, PeerInHand
  <2>2. PeerLine(m) = << >>
    <3>1. PeerLine(m) = << >> \o << >> \o << >>
      BY <2>1 DEF PeerLine, OnePipe!LineOf
    <3> QED
      BY <3>1
  <2> QED
    BY SameEvents, <1>1, <2>1, <2>2, OnePipe!EmptyIncreasing DEF PeerKept, OnePipe!Placed
<1> QED
  BY <1>3, <1>4, <1>5, <1>6 DEF PeerInv

(* What the invariant says of the events of app1 to app3. *)
LEMMA PeerOfInv == ASSUME PeerInv
                   PROVE  /\ Peers!EachEventOnce /\ Peers!NoLostWakeup
                          /\ Peers!LengthBound /\ Peers!AlwaysCounted
<1>1. Peers!ToSet(Peers!Order) = Present /\ Present \subseteq Pair
  BY PeerOrder DEF PeerInv
<1>2. ASSUME NEW m \in Pair
      PROVE  /\ peerQueue[m] # << >> => peerFired[m]
             /\ \A i, j \in DOMAIN Peers!OnTheWay(m) : i < j => Peers!OnTheWay(m)[i] < Peers!OnTheWay(m)[j]
             /\ Peers!ToSet(Peers!OnTheWay(m)) = ((1 .. peerMade[m]) \ peerDropped[m]) \ PeerInHand(m)
  <2>1. PeerKept(m)
    BY DEF PeerInv
  <2>2. Peers!OnTheWay(m) = PeerLine(m)
    BY DEF Peers!OnTheWay, PeerLine, PeerBatch, OnePipe!LineOf
  <2>3. Peers!ToSet(PeerLine(m)) = Range(PeerLine(m))
    BY DEF Peers!ToSet, Range
  <2>4. \A i, j \in DOMAIN PeerLine(m) : i < j => PeerLine(m)[i] < PeerLine(m)[j]
    BY SameEvents, <2>1 DEF PeerKept, OnePipe!Placed, OnePipe!Increasing
  <2>5. Range(PeerLine(m)) = ((1 .. peerMade[m]) \ peerDropped[m]) \ PeerInHand(m)
    BY SameEvents, <2>1 DEF PeerKept, OnePipe!Placed
  <2> QED
    BY <2>1, <2>2, <2>3, <2>4, <2>5 DEF PeerKept
<1>3. Peers!EachEventOnce /\ Peers!NoLostWakeup
  BY <1>1, <1>2 DEF Peers!EachEventOnce, Peers!NoLostWakeup, PeerInHand
<1> QED
  BY <1>3 DEF PeerInv, PeerLength, PeerStart, Length, Peers!LengthBound, Peers!AlwaysCounted
-----------------------------------------------------------------------------
(***************************************************************************)
(* In app1 to app10, for any number of events and any size of pipe and     *)
(* queue, every event created is dropped, on its way once or consumed, in  *)
(* order; a drain takes all it must, and an event left in the queue has    *)
(* its wake-up or a flag that lets the next Fire() write one.              *)
(***************************************************************************)
THEOREM EventsAlwaysKept == Spec => []EventsKept
<1>1. Init => OneInv /\ TryInv /\ PeerInv
  BY OneInit, TryInit, PeerInit DEF Init
<1>2. OneInv /\ TryInv /\ PeerInv /\ [Next]_vars => OneInv' /\ TryInv' /\ PeerInv'
  BY StepOfPart, OneNext, TryNext, PeerNextKeeps
<1>3. OneInv /\ TryInv /\ PeerInv => EventsKept
  BY OneOfInv, TryOfInv, PeerOfInv DEF EventsKept
<1> QED
  BY <1>1, <1>2, <1>3, PTL DEF Spec
=============================================================================
