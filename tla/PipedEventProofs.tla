-------------------------- MODULE PipedEventProofs --------------------------
(***************************************************************************)
(* For every number of PipedEvent objects and every pipe capacity: the     *)
(* safety properties of PipedEvent.  And the queues of numbered events     *)
(* that the wake-ups are about: what Append(), Head() and Tail() do to the *)
(* set of numbers in a sequence and to their order.  The proofs about the  *)
(* managers, which instantiate this module for their pipes, reason about   *)
(* these sets and never about positions.                                   *)
(***************************************************************************)
EXTENDS PipedEvent, Sequences, Functions, SequenceTheorems, TLAPS

(***************************************************************************)
(* The inductive invariant.  What Fire() and Consume() can be doing is     *)
(* determined by the flag and the pipe: with the flag clear the pipe is    *)
(* empty and Consume() is not running; with the flag set there is exactly  *)
(* one byte, or exactly one of a pending write() and a pending reset.      *)
(***************************************************************************)
Quiet(p) == ~fired[p] /\ bytes[p] = 0 /\ fpc[p] \in {"idle", "store"} /\ cpc[p] = "idle"

Signalled(p) == /\ fired[p]
                /\ \/ fpc[p] = "write" /\ cpc[p] \in {"idle", "read"} /\ bytes[p] = 0
                   \/ fpc[p] = "idle" /\ cpc[p] \in {"idle", "read"} /\ bytes[p] = 1
                   \/ fpc[p] = "idle" /\ cpc[p] = "reset" /\ bytes[p] = 0

IInv == TypeOK /\ \A p \in Pipes : Quiet(p) \/ Signalled(p)

(* The initial state satisfies the inductive invariant. *)
LEMMA InitIInv == Init => IInv
  BY PipeAssumption DEF Init, IInv, TypeOK, Quiet

(* Every step of Fire() and of Consume() preserves the inductive invariant. *)
LEMMA NextIInv == IInv /\ [Next]_vars => IInv'
<1> SUFFICES ASSUME IInv, [Next]_vars
             PROVE  IInv'
  OBVIOUS
<1> USE PipeAssumption DEF IInv, TypeOK, Quiet, Signalled
<1>1. ASSUME NEW p \in Pipes, FireCheck(p)
      PROVE  IInv'
  BY <1>1 DEF FireCheck
<1>2. ASSUME NEW p \in Pipes, FireStore(p)
      PROVE  IInv'
  BY <1>2 DEF FireStore
<1>3. ASSUME NEW p \in Pipes, FireWrite(p)
      PROVE  IInv'
  BY <1>3 DEF FireWrite
<1>4. ASSUME NEW p \in Pipes, ConsumeCheck(p)
      PROVE  IInv'
  BY <1>4 DEF ConsumeCheck
<1>5. ASSUME NEW p \in Pipes, ConsumeRead(p)
      PROVE  IInv'
  BY <1>5 DEF ConsumeRead, Readable
<1>6. ASSUME NEW p \in Pipes, ConsumeReset(p)
      PROVE  IInv'
  BY <1>6 DEF ConsumeReset
<1>7. CASE UNCHANGED vars
  BY <1>7 DEF vars
<1> QED
  BY <1>1, <1>2, <1>3, <1>4, <1>5, <1>6, <1>7 DEF Next

(* The inductive invariant holds in every reachable state. *)
THEOREM InductiveInvariant == Spec => []IInv
  BY InitIInv, NextIInv, PTL DEF Spec

(* Type correctness of the pipe, the flag and the two program counters. *)
THEOREM TypeCorrect == Spec => []TypeOK
<1>1. IInv => TypeOK
  BY DEF IInv
<1> QED
  BY <1>1, InductiveInvariant, PTL

(* Fire() is never silenced by a flag that no byte in the pipe backs. *)
THEOREM FlagNeverDeaf == Spec => []NoDeafFlag
<1>1. IInv => NoDeafFlag
  BY DEF IInv, Quiet, Signalled, NoDeafFlag, Readable, TypeOK
<1> QED
  BY <1>1, InductiveInvariant, PTL

(* Consume() never leaves a byte behind because the flag is clear. *)
THEOREM ByteImpliesFlag == Spec => []FlagCoversByte
<1>1. IInv => FlagCoversByte
  BY DEF IInv, Quiet, Signalled, FlagCoversByte, Readable, TypeOK
<1> QED
  BY <1>1, InductiveInvariant, PTL

(* The blocking system calls inside Fire() and Consume() cannot hang. *)
THEOREM NoHang == Spec => []NeverStuck
<1>1. ASSUME IInv, NEW p \in Pipes
      PROVE  /\ cpc[p] = "read" => bytes[p] > 0 \/ fpc[p] = "write"
             /\ fpc[p] = "write" => bytes[p] = 0
  <2>1. CASE Quiet(p)
    BY <2>1 DEF Quiet
  <2>2. CASE Signalled(p)
    BY <2>2 DEF Signalled
  <2> QED
    BY <1>1, <2>1, <2>2 DEF IInv
<1>2. IInv => NeverStuck
  BY <1>1 DEF NeverStuck, Readable
<1> QED
  BY <1>2, InductiveInvariant, PTL

-----------------------------------------------------------------------------
Increasing(s) == \A i, j \in DOMAIN s : i < j => s[i] < s[j]

(* The empty sequence holds nothing and is in order. *)
LEMMA EmptyIncreasing == /\ Range(<< >>) = {}
                         /\ Increasing(<< >>)
                         /\ \A S : << >> \in Seq(S)
  BY DEF Range, Increasing

(* A sequence is empty exactly when it holds nothing. *)
LEMMA EmptyRange == ASSUME NEW S, NEW s \in Seq(S)
                    PROVE  s = << >> <=> Range(s) = {}
<1>1. CASE s = << >>
  BY <1>1 DEF Range
<1>2. CASE s # << >>
  <2>1. 1 \in DOMAIN s
    BY <1>2, EmptySeq, LenProperties
  <2> QED
    BY <1>2, <2>1 DEF Range
<1> QED
  BY <1>1, <1>2

(* A sequence is a sequence over any set that holds its elements. *)
LEMMA SeqOverRange == ASSUME NEW S, NEW s \in Seq(S), NEW T, Range(s) \subseteq T
                      PROVE  s \in Seq(T)
  BY SeqOfRange, SeqMonotonic

(* Appending an element adds it to what the sequence holds. *)
LEMMA AppendRange == ASSUME NEW S, NEW s \in Seq(S), NEW e \in S
                     PROVE  /\ Append(s, e) \in Seq(S)
                            /\ Append(s, e) # << >>
                            /\ Len(Append(s, e)) = Len(s) + 1
                            /\ Range(Append(s, e)) = Range(s) \cup {e}
<1>1. /\ Append(s, e) \in Seq(S) /\ Append(s, e) # << >>
      /\ Len(Append(s, e)) = Len(s) + 1
      /\ \A i \in 1 .. Len(s) : Append(s, e)[i] = s[i]
      /\ Append(s, e)[Len(s) + 1] = e
  BY AppendProperties
<1>2. /\ Len(s) \in Nat /\ DOMAIN s = 1 .. Len(s)
      /\ DOMAIN Append(s, e) = 1 .. (Len(s) + 1)
  BY <1>1, LenProperties
<1>3. ASSUME NEW x \in Range(Append(s, e)) PROVE x \in Range(s) \cup {e}
  <2>1. PICK i \in 1 .. (Len(s) + 1) : x = Append(s, e)[i]
    BY <1>2 DEF Range
  <2>2. i \in 1 .. Len(s) \/ i = Len(s) + 1
    BY <1>2
  <2> QED
    BY <1>1, <1>2, <2>1, <2>2 DEF Range
<1>4. ASSUME NEW x \in Range(s) PROVE x \in Range(Append(s, e))
  <2>1. PICK i \in 1 .. Len(s) : x = s[i]
    BY <1>2 DEF Range
  <2>2. i \in 1 .. (Len(s) + 1)
    BY <1>2
  <2> QED
    BY <1>1, <1>2, <2>1, <2>2 DEF Range
<1>5. e \in Range(Append(s, e))
  <2>1. Len(s) + 1 \in 1 .. (Len(s) + 1)
    BY <1>2
  <2> QED
    BY <1>1, <1>2, <2>1 DEF Range
<1> QED
  BY <1>1, <1>3, <1>4, <1>5

(* Appending a number above all others keeps the order. *)
LEMMA AppendIncreasing == ASSUME NEW s \in Seq(Nat), NEW e \in Nat,
                                 Increasing(s), \A x \in Range(s) : x < e
                          PROVE  Increasing(Append(s, e))
<1>1. /\ Append(s, e) \in Seq(Nat)
      /\ Len(Append(s, e)) = Len(s) + 1
      /\ \A i \in 1 .. Len(s) : Append(s, e)[i] = s[i]
      /\ Append(s, e)[Len(s) + 1] = e
  BY AppendProperties
<1>2. /\ Len(s) \in Nat /\ DOMAIN s = 1 .. Len(s)
      /\ DOMAIN Append(s, e) = 1 .. (Len(s) + 1)
  BY <1>1, LenProperties
<1>3. ASSUME NEW i \in 1 .. (Len(s) + 1), NEW j \in 1 .. (Len(s) + 1), i < j
      PROVE  Append(s, e)[i] < Append(s, e)[j]
  <2>1. i \in 1 .. Len(s) /\ s[i] \in Range(s)
    BY <1>2, <1>3 DEF Range
  <2>2. CASE j \in 1 .. Len(s)
    BY <1>1, <1>2, <1>3, <2>1, <2>2 DEF Increasing
  <2>3. CASE j = Len(s) + 1
    BY <1>1, <2>1, <2>3
  <2> QED
    BY <1>2, <2>2, <2>3
<1> QED
  BY <1>2, <1>3 DEF Increasing

(* Taking the first number of an ordered sequence removes it and only it.  *)
LEMMA TailIncreasing == ASSUME NEW s \in Seq(Nat), s # << >>, Increasing(s)
                        PROVE  /\ Head(s) \in Range(s)
                               /\ Tail(s) \in Seq(Nat)
                               /\ Len(s) \in Nat /\ Len(Tail(s)) = Len(s) - 1
                               /\ Range(Tail(s)) = Range(s) \ {Head(s)}
                               /\ \A x \in Range(Tail(s)) : Head(s) < x
                               /\ Increasing(Tail(s))
<1>1. /\ Head(s) = s[1] /\ Tail(s) \in Seq(Nat) /\ Len(Tail(s)) = Len(s) - 1
      /\ \A i \in 1 .. Len(Tail(s)) : Tail(s)[i] = s[i + 1]
  BY HeadTailProperties
<1>2. /\ Len(s) \in Nat \ {0} /\ DOMAIN s = 1 .. Len(s)
      /\ DOMAIN Tail(s) = 1 .. (Len(s) - 1)
      /\ s \in [1 .. Len(s) -> Nat]
  BY <1>1, EmptySeq, LenProperties
<1>3. Head(s) \in Range(s)
  BY <1>1, <1>2 DEF Range
<1>4. ASSUME NEW x \in Range(Tail(s)) PROVE x \in Range(s) /\ Head(s) < x
  <2>1. PICK i \in 1 .. (Len(s) - 1) : x = Tail(s)[i]
    BY <1>2 DEF Range
  <2>2. i + 1 \in 1 .. Len(s) /\ 1 \in 1 .. Len(s) /\ 1 < i + 1 /\ x = s[i + 1]
    BY <1>1, <1>2, <2>1
  <2> QED
    BY <1>1, <1>2, <2>2 DEF Range, Increasing
<1>5. ASSUME NEW x \in Range(s), x # Head(s) PROVE x \in Range(Tail(s))
  <2>1. PICK i \in 1 .. Len(s) : x = s[i]
    BY <1>2 DEF Range
  <2>2. i - 1 \in 1 .. (Len(s) - 1) /\ (i - 1) + 1 = i
    BY <1>1, <1>2, <1>5, <2>1
  <2>3. Tail(s)[i - 1] = x
    BY <1>1, <2>1, <2>2
  <2> QED
    BY <1>2, <2>2, <2>3 DEF Range
<1>6. Increasing(Tail(s))
  <2>1. ASSUME NEW i \in 1 .. (Len(s) - 1), NEW j \in 1 .. (Len(s) - 1), i < j
        PROVE  Tail(s)[i] < Tail(s)[j]
    <3>1. i + 1 \in 1 .. Len(s) /\ j + 1 \in 1 .. Len(s) /\ i + 1 < j + 1
      BY <1>2, <2>1
    <3> QED
      BY <1>1, <1>2, <3>1 DEF Increasing
  <2> QED
    BY <1>2, <2>1 DEF Increasing
<1>7. ASSUME NEW x \in Range(Tail(s)) PROVE x \in Nat /\ Head(s) \in Nat
  BY <1>1, <1>2, <1>4, RangeOfSeq
<1> QED
  BY <1>1, <1>2, <1>3, <1>4, <1>5, <1>6, <1>7

(* Two ordered sequences of numbers, one below the other, are ordered together. *)
LEMMA ConcatIncreasing == ASSUME NEW S, NEW s \in Seq(S), NEW t \in Seq(S), Increasing(s), Increasing(t),
                                 \A x \in Range(s), y \in Range(t) : x < y
                          PROVE  /\ s \o t \in Seq(S)
                                 /\ Range(s \o t) = Range(s) \cup Range(t)
                                 /\ Increasing(s \o t)
<1>1. /\ s \o t \in Seq(S) /\ Len(s \o t) = Len(s) + Len(t)
      /\ \A i \in 1 .. Len(s) + Len(t) : (s \o t)[i] = IF i <= Len(s) THEN s[i] ELSE t[i - Len(s)]
  BY ConcatProperties
<1>2. /\ Len(s) \in Nat /\ Len(t) \in Nat /\ DOMAIN s = 1 .. Len(s) /\ DOMAIN t = 1 .. Len(t)
      /\ DOMAIN (s \o t) = 1 .. Len(s) + Len(t)
  BY <1>1, LenProperties
<1>3. ASSUME NEW i \in 1 .. Len(s) + Len(t), NEW j \in 1 .. Len(s) + Len(t), i < j
      PROVE  (s \o t)[i] < (s \o t)[j]
  <2>1. CASE j <= Len(s)
    <3>1. i \in DOMAIN s /\ j \in DOMAIN s /\ (s \o t)[i] = s[i] /\ (s \o t)[j] = s[j]
      BY <1>1, <1>2, <1>3, <2>1
    <3> QED
      BY <1>3, <3>1 DEF Increasing
  <2>2. CASE i <= Len(s) /\ ~(j <= Len(s))
    <3>1. i \in DOMAIN s /\ j - Len(s) \in DOMAIN t /\ (s \o t)[i] = s[i] /\ (s \o t)[j] = t[j - Len(s)]
      BY <1>1, <1>2, <1>3, <2>2
    <3>2. (s \o t)[i] \in Range(s) /\ (s \o t)[j] \in Range(t)
      BY <3>1 DEF Range
    <3> QED
      BY <3>2
  <2>3. CASE ~(i <= Len(s))
    <3>1. /\ i - Len(s) \in DOMAIN t /\ j - Len(s) \in DOMAIN t /\ i - Len(s) < j - Len(s)
          /\ (s \o t)[i] = t[i - Len(s)] /\ (s \o t)[j] = t[j - Len(s)]
      BY <1>1, <1>2, <1>3, <2>3
    <3> QED
      BY <3>1 DEF Increasing
  <2> QED
    BY <1>2, <1>3, <2>1, <2>2, <2>3
<1>4. Range(s \o t) = Range(s) \cup Range(t)
  BY RangeConcatenation
<1> QED
  BY <1>1, <1>2, <1>3, <1>4 DEF Increasing
-----------------------------------------------------------------------------
(***************************************************************************)
(* Events of several creators, as pairs <<creator, number>>: the events of *)
(* each creator are in order, whatever is between them.                    *)
(***************************************************************************)
Before(X, Y) == \A x \in X, y \in Y : x[1] = y[1] => x[2] < y[2]

Ordered(s) == \A i, j \in DOMAIN s : i < j /\ s[i][1] = s[j][1] => s[i][2] < s[j][2]

(* The empty sequence is in order, before and after anything. *)
LEMMA EmptyOrdered == /\ Ordered(<< >>)
                      /\ \A X : Before({}, X) /\ Before(X, {})
  BY DEF Ordered, Before

(* Appending an event after those of its creator keeps the order. *)
LEMMA AppendOrdered == ASSUME NEW S, NEW s \in Seq(S), NEW e \in S,
                              Ordered(s), Before(Range(s), {e})
                       PROVE  Ordered(Append(s, e))
<1>1. /\ Append(s, e) \in Seq(S)
      /\ Len(Append(s, e)) = Len(s) + 1
      /\ \A i \in 1 .. Len(s) : Append(s, e)[i] = s[i]
      /\ Append(s, e)[Len(s) + 1] = e
  BY AppendProperties
<1>2. /\ Len(s) \in Nat /\ DOMAIN s = 1 .. Len(s)
      /\ DOMAIN Append(s, e) = 1 .. (Len(s) + 1)
  BY <1>1, LenProperties
<1>3. ASSUME NEW i \in 1 .. (Len(s) + 1), NEW j \in 1 .. (Len(s) + 1), i < j,
             Append(s, e)[i][1] = Append(s, e)[j][1]
      PROVE  Append(s, e)[i][2] < Append(s, e)[j][2]
  <2>1. i \in 1 .. Len(s) /\ s[i] \in Range(s)
    BY <1>2, <1>3 DEF Range
  <2>2. CASE j \in 1 .. Len(s)
    BY <1>1, <1>2, <1>3, <2>1, <2>2 DEF Ordered
  <2>3. CASE j = Len(s) + 1
    BY <1>1, <1>3, <2>1, <2>3 DEF Before
  <2> QED
    BY <1>2, <2>2, <2>3
<1> QED
  BY <1>2, <1>3 DEF Ordered

(* Taking the first of several ordered events removes it and only it. *)
LEMMA TailOrdered == ASSUME NEW K, NEW s \in Seq(K \X Nat), s # << >>, Ordered(s)
                     PROVE  /\ Head(s) \in Range(s)
                            /\ Tail(s) \in Seq(K \X Nat)
                            /\ Len(s) \in Nat /\ Len(Tail(s)) = Len(s) - 1
                            /\ Range(Tail(s)) = Range(s) \ {Head(s)}
                            /\ Before({Head(s)}, Range(Tail(s)))
                            /\ Ordered(Tail(s))
<1>1. /\ Head(s) = s[1] /\ Tail(s) \in Seq(K \X Nat) /\ Len(Tail(s)) = Len(s) - 1
      /\ \A i \in 1 .. Len(Tail(s)) : Tail(s)[i] = s[i + 1]
  BY HeadTailProperties
<1>2. /\ Len(s) \in Nat \ {0} /\ DOMAIN s = 1 .. Len(s)
      /\ DOMAIN Tail(s) = 1 .. (Len(s) - 1)
      /\ s \in [1 .. Len(s) -> K \X Nat]
  BY <1>1, EmptySeq, LenProperties
<1>3. Head(s) \in Range(s) /\ Head(s) \in K \X Nat /\ ~(Head(s)[2] < Head(s)[2])
  <2>1. Head(s) \in Range(s) /\ Head(s) \in K \X Nat
    BY <1>1, <1>2 DEF Range
  <2>2. Head(s)[2] \in Nat
    BY <2>1
  <2> QED
    BY <2>1, <2>2
<1>4. ASSUME NEW x \in Range(Tail(s))
      PROVE  x \in Range(s) /\ (Head(s)[1] = x[1] => Head(s)[2] < x[2])
  <2>1. PICK i \in 1 .. (Len(s) - 1) : x = Tail(s)[i]
    BY <1>2 DEF Range
  <2>2. i + 1 \in 1 .. Len(s) /\ 1 \in 1 .. Len(s) /\ 1 < i + 1 /\ x = s[i + 1]
    BY <1>1, <1>2, <2>1
  <2> QED
    BY <1>1, <1>2, <2>2 DEF Range, Ordered
<1>5. ASSUME NEW x \in Range(s), x # Head(s) PROVE x \in Range(Tail(s))
  <2>1. PICK i \in 1 .. Len(s) : x = s[i]
    BY <1>2 DEF Range
  <2>2. i - 1 \in 1 .. (Len(s) - 1) /\ (i - 1) + 1 = i
    BY <1>1, <1>2, <1>5, <2>1
  <2>3. Tail(s)[i - 1] = x
    BY <1>1, <2>1, <2>2
  <2> QED
    BY <1>2, <2>2, <2>3 DEF Range
<1>6. Head(s) \notin Range(Tail(s))
  BY <1>3, <1>4
<1>7. Range(Tail(s)) = Range(s) \ {Head(s)}
  BY <1>4, <1>5, <1>6
<1>8. Ordered(Tail(s))
  <2>1. ASSUME NEW i \in 1 .. (Len(s) - 1), NEW j \in 1 .. (Len(s) - 1), i < j,
               Tail(s)[i][1] = Tail(s)[j][1]
        PROVE  Tail(s)[i][2] < Tail(s)[j][2]
    <3>1. i + 1 \in 1 .. Len(s) /\ j + 1 \in 1 .. Len(s) /\ i + 1 < j + 1
      BY <1>2, <2>1
    <3>2. Tail(s)[i] = s[i + 1] /\ Tail(s)[j] = s[j + 1]
      BY <1>1, <1>2
    <3> QED
      BY <1>2, <2>1, <3>1, <3>2 DEF Ordered
  <2> QED
    BY <1>2, <2>1 DEF Ordered
<1> QED
  BY <1>1, <1>2, <1>3, <1>4, <1>7, <1>8 DEF Before

(* Two ordered sequences, one before the other, are ordered together. *)
LEMMA ConcatOrdered == ASSUME NEW S, NEW s \in Seq(S), NEW t \in Seq(S),
                              Ordered(s), Ordered(t), Before(Range(s), Range(t))
                       PROVE  /\ s \o t \in Seq(S)
                              /\ Range(s \o t) = Range(s) \cup Range(t)
                              /\ Ordered(s \o t)
<1>1. /\ s \o t \in Seq(S) /\ Len(s \o t) = Len(s) + Len(t)
      /\ \A i \in 1 .. Len(s) + Len(t) : (s \o t)[i] = IF i <= Len(s) THEN s[i] ELSE t[i - Len(s)]
  BY ConcatProperties
<1>2. /\ Len(s) \in Nat /\ Len(t) \in Nat /\ DOMAIN s = 1 .. Len(s) /\ DOMAIN t = 1 .. Len(t)
      /\ DOMAIN (s \o t) = 1 .. Len(s) + Len(t)
  BY <1>1, LenProperties
<1>3. ASSUME NEW i \in 1 .. Len(s) + Len(t), NEW j \in 1 .. Len(s) + Len(t), i < j,
             (s \o t)[i][1] = (s \o t)[j][1]
      PROVE  (s \o t)[i][2] < (s \o t)[j][2]
  <2>1. CASE j <= Len(s)
    <3>1. i \in DOMAIN s /\ j \in DOMAIN s /\ (s \o t)[i] = s[i] /\ (s \o t)[j] = s[j]
      BY <1>1, <1>2, <1>3, <2>1
    <3> QED
      BY <1>3, <3>1 DEF Ordered
  <2>2. CASE i <= Len(s) /\ ~(j <= Len(s))
    <3>1. i \in DOMAIN s /\ j - Len(s) \in DOMAIN t /\ (s \o t)[i] = s[i] /\ (s \o t)[j] = t[j - Len(s)]
      BY <1>1, <1>2, <1>3, <2>2
    <3>2. (s \o t)[i] \in Range(s) /\ (s \o t)[j] \in Range(t)
      BY <3>1 DEF Range
    <3> QED
      BY <1>3, <3>2 DEF Before
  <2>3. CASE ~(i <= Len(s))
    <3>1. /\ i - Len(s) \in DOMAIN t /\ j - Len(s) \in DOMAIN t /\ i - Len(s) < j - Len(s)
          /\ (s \o t)[i] = t[i - Len(s)] /\ (s \o t)[j] = t[j - Len(s)]
      BY <1>1, <1>2, <1>3, <2>3
    <3> QED
      BY <1>3, <3>1 DEF Ordered
  <2> QED
    BY <1>2, <1>3, <2>1, <2>2, <2>3
<1>4. Range(s \o t) = Range(s) \cup Range(t)
  BY RangeConcatenation
<1> QED
  BY <1>1, <1>2, <1>3, <1>4 DEF Ordered
-----------------------------------------------------------------------------
(***************************************************************************)
(* Pipelines.  Events pass from a queue to a batch to what was received;   *)
(* the three together, oldest event first, change only when one is added.  *)
(***************************************************************************)
LineOf(s, t, u) == s \o t \o u

(* Where the events of a pipeline are. *)
LEMMA LineRange == ASSUME NEW S, NEW s \in Seq(S), NEW t \in Seq(S), NEW u \in Seq(S)
                   PROVE  /\ LineOf(s, t, u) \in Seq(S)
                          /\ Range(LineOf(s, t, u)) = Range(s) \cup Range(t) \cup Range(u)
<1>1. \A a, b \in Seq(S) : a \o b \in Seq(S) /\ Range(a \o b) = Range(a) \cup Range(b)
  BY ConcatProperties, RangeConcatenation
<1>2. /\ s \o t \in Seq(S) /\ Range(s \o t) = Range(s) \cup Range(t)
      /\ (s \o t) \o u \in Seq(S) /\ Range((s \o t) \o u) = Range(s \o t) \cup Range(u)
  BY <1>1, Zenon
<1> QED
  BY <1>1, <1>2 DEF LineOf

(* Moving the first element of one part to the end of the part before it. *)
LEMMA HeadMoves == ASSUME NEW S, NEW s \in Seq(S), NEW t \in Seq(S), t # << >>
                   PROVE  /\ Append(s, Head(t)) \in Seq(S) /\ Tail(t) \in Seq(S)
                          /\ Append(s, Head(t)) \o Tail(t) = s \o t
<1>1. Head(t) \in S /\ Tail(t) \in Seq(S) /\ <<Head(t)>> \in Seq(S)
  BY HeadTailProperties
<1>2. Append(s, Head(t)) \in Seq(S) /\ Append(s, Head(t)) = s \o <<Head(t)>>
  BY <1>1, AppendProperties, AppendIsConcat
<1>3. (s \o <<Head(t)>>) \o Tail(t) = s \o (<<Head(t)>> \o Tail(t))
  BY <1>1, ConcatAssociative
<1>4. <<Head(t)>> \o Tail(t) = t
  BY <1>1
<1> QED
  BY <1>1, <1>2, <1>3, <1>4

(* An event that is added to the last part is added to the pipeline. *)
LEMMA LineAdd == ASSUME NEW S, NEW s \in Seq(S), NEW t \in Seq(S), NEW u \in Seq(S), NEW e \in S
                 PROVE  LineOf(s, t, Append(u, e)) = Append(LineOf(s, t, u), e)
<1>1. s \o t \in Seq(S) /\ <<e>> \in Seq(S) /\ (s \o t) \o u \in Seq(S)
  BY ConcatProperties
<1>2. Append(u, e) = u \o <<e>> /\ Append((s \o t) \o u, e) = ((s \o t) \o u) \o <<e>>
  BY <1>1, AppendIsConcat
<1>3. (s \o t) \o (u \o <<e>>) = ((s \o t) \o u) \o <<e>>
  BY <1>1, ConcatAssociative
<1> QED
  BY <1>2, <1>3 DEF LineOf

(* Moving an event from the second part to the first, from the third to *)
(* the second, or the whole third part to an empty second part leaves   *)
(* the pipeline as it is.                                               *)
LEMMA LineMoves == ASSUME NEW S, NEW s \in Seq(S), NEW t \in Seq(S), NEW u \in Seq(S)
                   PROVE  /\ t # << >> => LineOf(Append(s, Head(t)), Tail(t), u) = LineOf(s, t, u)
                          /\ u # << >> => LineOf(s, Append(t, Head(u)), Tail(u)) = LineOf(s, t, u)
                          /\ t = << >> => LineOf(s, u, << >>) = LineOf(s, t, u)
<1>1. ASSUME t # << >> PROVE LineOf(Append(s, Head(t)), Tail(t), u) = LineOf(s, t, u)
  BY <1>1, HeadMoves DEF LineOf
<1>2. ASSUME u # << >> PROVE LineOf(s, Append(t, Head(u)), Tail(u)) = LineOf(s, t, u)
  <2>1. /\ Append(t, Head(u)) \in Seq(S) /\ Tail(u) \in Seq(S)
        /\ Append(t, Head(u)) \o Tail(u) = t \o u
    BY <1>2, HeadMoves
  <2>2. \A a, b \in Seq(S) : (s \o a) \o b = s \o (a \o b)
    BY ConcatAssociative
  <2>3. /\ (s \o Append(t, Head(u))) \o Tail(u) = s \o (Append(t, Head(u)) \o Tail(u))
        /\ (s \o t) \o u = s \o (t \o u)
    BY <2>1, <2>2, Zenon
  <2> QED
    BY <2>1, <2>2, <2>3 DEF LineOf
<1>3. ASSUME t = << >> PROVE LineOf(s, u, << >>) = LineOf(s, t, u)
  <2>1. s \o << >> = s /\ s \o u \in Seq(S)
    BY ConcatEmptySeq, ConcatProperties
  <2>2. (s \o u) \o << >> = s \o u
    BY <2>1, ConcatEmptySeq
  <2> QED
    BY <1>3, <2>1, <2>2 DEF LineOf
<1> QED
  BY <1>1, <1>2, <1>3

(* The whole queue moves into the empty batch. *)
LEMMA LineSwap == ASSUME NEW S, NEW s \in Seq(S), NEW u \in Seq(S)
                  PROVE  LineOf(s, u, << >>) = LineOf(s, << >>, u)
<1>1. << >> \in Seq(S)
  OBVIOUS
<1> QED
  BY <1>1, LineMoves

(***************************************************************************)
(* Of the events 1 .. m those in l are on their way, in order, those in D  *)
(* were dropped and those in H are in their thread's hands; and no event   *)
(* is in two places or in none.                                            *)
(***************************************************************************)
Placed(l, m, D, H) == /\ Increasing(l)
                      /\ Range(l) \cup D \cup H = 1 .. m
                      /\ Range(l) \cap D = {} /\ Range(l) \cap H = {} /\ D \cap H = {}

(* An event is created, and perhaps dropped at once. *)
LEMMA PlacedCreate == ASSUME NEW l, NEW m \in Nat, NEW D, Placed(l, m, D, {})
                      PROVE  Placed(l, m + 1, D, {m + 1}) /\ Placed(l, m + 1, D \cup {m + 1}, {})
<1>1. 1 .. (m + 1) = (1 .. m) \cup {m + 1} /\ m + 1 \notin 1 .. m
  OBVIOUS
<1> QED
  BY <1>1 DEF Placed

(* The event in hand is added at the end of the line. *)
LEMMA PlacedAdd == ASSUME NEW l \in Seq(Nat), NEW m \in Nat, NEW D, Placed(l, m, D, {m})
                   PROVE  Placed(Append(l, m), m, D, {})
<1>1. Range(Append(l, m)) = Range(l) \cup {m}
  BY AppendRange
<1>2. \A x \in Range(l) : x < m
  <2>1. \A x \in Range(l) : x \in 1 .. m /\ x # m
    BY DEF Placed
  <2>2. \A x \in 1 .. m : x # m => x < m
    OBVIOUS
  <2> QED
    BY <2>1, <2>2
<1>3. Increasing(Append(l, m))
  BY <1>2, AppendIncreasing DEF Placed
<1> QED
  BY <1>1, <1>3 DEF Placed

(* The event in hand is dropped. *)
LEMMA PlacedDrop == ASSUME NEW l, NEW m, NEW D, Placed(l, m, D, {m})
                    PROVE  Placed(l, m, D \cup {m}, {})
  BY DEF Placed
=============================================================================
