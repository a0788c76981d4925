---------------------------- MODULE EventPoller ----------------------------
(***************************************************************************)
(* inc/EventPoller.h: descriptors are added, with or without a producer    *)
(* and a consumer, removed, waited for and executed, while managers come   *)
(* and go.  _watchers holds weak pointers under descriptor numbers and is  *)
(* never cleaned up, and the kernel gives the number of a destroyed        *)
(* manager's pipe to the next one.  Between epoll_wait() and Execute()     *)
(* anything may happen to the descriptors that were reported.  A wake-up   *)
(* is one flag here (PipedEvent has its steps), and a manager's source its *)
(* only descriptor.  StoresAnyway is a faulty variant of AddExisting.      *)
(***************************************************************************)
EXTENDS Naturals, Functions

CONSTANTS Managers,
          MaxFd,         \* bound: descriptors are 3 .. MaxFd
          None

Fds == 3 .. MaxFd
PollerAssumption == None \notin Managers

VARIABLES life,          \* life[m]: "none", "alive", "destroyed"
          owner,         \* owner[f]: whose source descriptor f is, or None
          fired,         \* fired[m]: m's wake-up is in its pipe
          interest,      \* the epoll instance's interest list
          _watchers,     \* _watchers[f]: <<producer, consumer>>, for the keys it has
          reported,      \* events of epoll_wait() the main loop has not executed yet
          added,         \* history: the consumer of m's last successful Add, or None
          astray         \* history: did Execute() call anybody else than it should

pollerVars == <<interest, _watchers>>
vars == <<life, owner, fired, pollerVars, reported, added, astray>>

Alive == {m \in Managers : life[m] = "alive"}
Source(m) == CHOOSE f \in Fds : owner[f] = m
Free == {f \in Fds : owner[f] = None}

Init == /\ life = [m \in Managers |-> "none"] /\ owner = [f \in Fds |-> None]
        /\ fired = [m \in Managers |-> FALSE]
        /\ interest = {} /\ _watchers = [f \in {} |-> <<None, None>>]
        /\ reported = {} /\ added = [m \in Managers |-> None] /\ astray = FALSE
-----------------------------------------------------------------------------
(***************************************************************************)
(* A manager is created with its pipe and destroyed with it; closing a     *)
(* descriptor also takes it off the interest list.                         *)
(***************************************************************************)
Create(m) == /\ life[m] = "none" /\ Free # {}
             /\ life' = [life EXCEPT ![m] = "alive"]
             /\ owner' = [owner EXCEPT ![CHOOSE f \in Free : \A g \in Free : f <= g] = m]
             /\ UNCHANGED <<fired, pollerVars, reported, added, astray>>
Destroy(m) == /\ m \in Alive
              /\ life' = [life EXCEPT ![m] = "destroyed"]
              /\ owner' = [owner EXCEPT ![Source(m)] = None]
              /\ interest' = interest \ {Source(m)}
              /\ UNCHANGED <<fired, _watchers, reported, added, astray>>
Fire(m) == /\ m \in Alive /\ ~fired[m]
           /\ fired' = [fired EXCEPT ![m] = TRUE]
           /\ UNCHANGED <<life, owner, pollerVars, reported, added, astray>>
-----------------------------------------------------------------------------
(***************************************************************************)
(* Add(flags, fd) and Add(flags, fd, producer, consumer).  epoll_ctl()     *)
(* refuses a descriptor that is on the list (EEXIST).                      *)
(***************************************************************************)
AddBare(m) == /\ m \in Alive /\ Source(m) \notin interest
              /\ interest' = interest \cup {Source(m)}
              /\ UNCHANGED <<life, owner, fired, _watchers, reported, added, astray>>

Pairs(f, m, c) == [g \in DOMAIN _watchers \cup {f} |-> IF g = f THEN <<m, c>> ELSE _watchers[g]]
Add(m, c) == /\ m \in Alive /\ c \in Alive
             /\ Source(m) \notin interest
             /\ interest' = interest \cup {Source(m)}
             /\ _watchers' = Pairs(Source(m), m, c)
             /\ added' = [added EXCEPT ![m] = c]
             /\ UNCHANGED <<life, owner, fired, reported, astray>>

StoresAnyway(m, c) == /\ m \in Alive /\ c \in Alive /\ Source(m) \in interest
                      /\ _watchers' = Pairs(Source(m), m, c)
                      /\ UNCHANGED <<life, owner, fired, interest, reported, added, astray>>
AddExisting(m, c) == /\ m \in Alive /\ c \in Alive /\ Source(m) \in interest
                     /\ UNCHANGED vars

Remove(m) == /\ m \in Alive /\ Source(m) \in interest
             /\ interest' = interest \ {Source(m)}
             /\ UNCHANGED <<life, owner, fired, _watchers, reported, added, astray>>
-----------------------------------------------------------------------------
(***************************************************************************)
(* The main loop: Wait() with room for every descriptor, then Execute()    *)
(* for each event.  Both weak pointers are locked before Produce(), which  *)
(* consumes the wake-up if there is one.                                   *)
(***************************************************************************)
Ready == {f \in interest : fired[owner[f]]}
Wait == /\ reported = {} /\ Ready # {}
        /\ reported' = Ready
        /\ UNCHANGED <<life, owner, fired, pollerVars, added, astray>>

Execute(f) == /\ f \in reported /\ reported' = reported \ {f}
              /\ IF f \in DOMAIN _watchers /\ {_watchers[f][1], _watchers[f][2]} \subseteq Alive
                 THEN LET producer == _watchers[f][1]
                      IN  /\ fired' = [fired EXCEPT ![producer] = FALSE]
                          /\ astray' = (astray \/ producer # owner[f] \/ _watchers[f][2] # added[producer])
                 ELSE UNCHANGED <<fired, astray>>
              /\ UNCHANGED <<life, owner, pollerVars, added>>

MainLoop == Wait \/ \E f \in Fds : Execute(f)
Next == \/ \E m \in Managers : Create(m) \/ Destroy(m) \/ Fire(m) \/ AddBare(m) \/ Remove(m)
        \/ \E m, c \in Managers : Add(m, c) \/ AddExisting(m, c)
        \/ MainLoop
Spec == Init /\ [][Next]_vars /\ WF_vars(MainLoop)
-----------------------------------------------------------------------------
(***************************************************************************)
(* Execute() calls the manager the descriptor belongs to now and hands its *)
(* events to the consumer it was last added with, whatever the entry was   *)
(* made for and however old the report is.                                 *)
(***************************************************************************)
RightPair == ~astray

(***************************************************************************)
(* A manager that was added with a consumer and has fired is served,       *)
(* unless one of the two is destroyed or the descriptor is removed: the    *)
(* entry an earlier owner of the number left behind never shadows it.      *)
(***************************************************************************)
Waits(m) == /\ m \in Alive /\ added[m] \in Alive
            /\ Source(m) \in interest /\ fired[m]
EveryoneServed == \A m \in Managers : Waits(m) ~> ~Waits(m)
=============================================================================
