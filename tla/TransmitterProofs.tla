-------------------------- MODULE TransmitterProofs -------------------------
(***************************************************************************)
(* Proofs about the transmitter: whatever the triggers, however long the   *)
(* blocks' calls, a receiver gets every vector in order, and every frame   *)
(* begins with a null symbol of the right length.                          *)
(***************************************************************************)
EXTENDS Transmitter, FiniteSetTheorems, SequenceTheorems, WellFoundedInduction,
        TLAPS

-----------------------------------------------------------------------------
(* Induction.  The library's induction theorems have a predicate as a      *)
(* parameter; here it is a set, and the least number outside of it is a    *)
(* minimal element of the initial segments, ordered by inclusion.          *)

LEMMA LeastNumber ==
    ASSUME NEW T, T \subseteq Nat, T # {}
    PROVE  \E m \in T : \A k \in T : m <= k
<1>1. PICK n \in T : TRUE
  OBVIOUS
<1> DEFINE S == 0..n
           Segments == {0..m : m \in {k \in T : k <= n}}
<1>2. IsWellFoundedOn(StrictSubsetOrdering(S), FiniteSubsetsOf(S))
  BY FS_StrictSubsetOrderingWellFounded
<1>3. Segments \subseteq FiniteSubsetsOf(S)
  <2>1. \A m \in Nat : m <= n => 0..m \subseteq S /\ IsFiniteSet(0..m)
    BY FS_Interval, <1>1
  <2> QED
    BY <2>1 DEF FiniteSubsetsOf
<1>4. Segments # {}
  BY <1>1
<1>5. PICK x \in Segments :
         \A y \in Segments : ~ (<<y, x>> \in StrictSubsetOrdering(S))
  <2> HIDE DEF Segments, S
  <2> QED
    BY <1>2, <1>3, <1>4, WFMin
<1>6. PICK m \in T : m <= n /\ x = 0..m
  OBVIOUS
<1>7. \A k \in T : m <= k
  <2> SUFFICES ASSUME NEW k \in T, k < m
               PROVE  FALSE
    BY <1>6
  <2>1. 0..k \in Segments
    BY <1>6
  <2>2. 0..k \subseteq 0..m /\ 0..k # 0..m /\ 0..m \subseteq S
    <3>1. m \in 0..m /\ m \notin 0..k
      OBVIOUS
    <3> QED
      BY <1>6, <3>1
  <2>3. <<0..k, x>> \in StrictSubsetOrdering(S)
    BY <1>6, <2>2 DEF StrictSubsetOrdering
  <2> QED
    BY <1>5, <2>1, <2>3
<1> QED
  BY <1>7

LEMMA Induction ==
    ASSUME NEW S, 0 \in S, \A n \in Nat : n \in S => n + 1 \in S
    PROVE  Nat \subseteq S
<1> DEFINE T == {n \in Nat : n \notin S}
<1> SUFFICES ASSUME T # {}
             PROVE  FALSE
  OBVIOUS
<1>1. PICK m \in T : \A k \in T : m <= k
  <2> HIDE DEF T
  <2>1. T \subseteq Nat
    BY DEF T
  <2> QED
    BY <2>1, LeastNumber
<1>2. m # 0 /\ m \in Nat
  OBVIOUS
<1>3. m - 1 \in Nat /\ m - 1 \notin T
  BY <1>1, <1>2
<1>4. m \in S
  BY <1>2, <1>3
<1> QED
  BY <1>4

Recursive(g, base, N, step) ==
    g[0] = base /\ \A n \in 1..N : g[n] = step[<<n, g[n - 1]>>]

\* A recursive function over 0..N exists.
LEMMA Recursion ==
    ASSUME NEW S, NEW base \in S, NEW N \in Nat, NEW step \in [(1..N) \X S -> S]
    PROVE  \E g \in [0..N -> S] : Recursive(g, base, N, step)
<1> DEFINE Good(g, m) == Recursive(g, base, m, step)
           M == {m \in Nat : m <= N => \E g \in [0..m -> S] : Good(g, m)}
<1> USE DEF Recursive
<1>1. 0 \in M
  <2>1. Good([n \in 0..0 |-> base], 0) /\ [n \in 0..0 |-> base] \in [0..0 -> S]
    OBVIOUS
  <2> QED
    BY <2>1
<1>2. ASSUME NEW m \in Nat, m \in M
      PROVE  m + 1 \in M
  <2> SUFFICES ASSUME m + 1 <= N
               PROVE  \E g \in [0..(m + 1) -> S] : Good(g, m + 1)
    OBVIOUS
  <2>1. PICK g \in [0..m -> S] : Good(g, m)
    BY <1>2
  <2> DEFINE h == [n \in 0..(m + 1) |->
                     IF n <= m THEN g[n] ELSE step[<<m + 1, g[m]>>]]
  <2>2. step[<<m + 1, g[m]>>] \in S
    OBVIOUS
  <2>3. h \in [0..(m + 1) -> S]
    BY <2>2
  <2>4. Good(h, m + 1)
    <3>1. h[0] = base
      BY <2>1
    <3>2. ASSUME NEW n \in 1..(m + 1)
          PROVE  h[n] = step[<<n, h[n - 1]>>]
      <4>1. h[n - 1] = g[n - 1]
        OBVIOUS
      <4>2. CASE n <= m
        BY <2>1, <4>1, <4>2
      <4>3. CASE n = m + 1
        <5>1. h[m + 1] = step[<<m + 1, g[m]>>] /\ n - 1 = m
          BY <4>3
        <5> QED
          BY <4>1, <4>3, <5>1
      <4> QED
        BY <4>2, <4>3
    <3> QED
      BY <3>1, <3>2
  <2> QED
    BY <2>3, <2>4
<1>3. Nat \subseteq M
  <2> HIDE DEF M
  <2> QED
    BY <1>1, <1>2, Induction
<1> HIDE DEF Recursive
<1> QED
  BY <1>3

-----------------------------------------------------------------------------
(* The inductive invariant.  What is in flight between insert_pilot and the *)
(* air is numbered from the air on: item i has a trigger, and a symbol when *)
(* it is past sum_phasor_trig.                                              *)

InFlight == Len(starts) + Len(marked)
Flag(i) == IF i <= Len(starts) THEN starts[i] ELSE marked[i - Len(starts)].trigger
Symbol(i) == IF i <= Len(symbols) THEN symbols[i] ELSE products[i - Len(symbols)]
SymbolBefore(i) ==
    IF i > 1 THEN Symbol(i - 1) ELSE IF air = <<>> THEN <<>> ELSE air[Len(air)].of

Item == [of : Int, trigger : {0, 1}]
Sample == [of : Seq(Int), at : 0..SymbolLength]

Types ==
    /\ frame_start \in [1..NumVectors -> {0, 1}] /\ frame_start[1] = 1
    /\ sent \in 0..NumVectors /\ given \in 0..NumVectors
    /\ vectors \in Seq(Int) /\ triggers \in Seq({0, 1})
    /\ d_start \in {0, 1}
    /\ marked \in Seq(Item) /\ d_last_symbol \in Seq(Int)
    /\ products \in Seq(Seq(Int)) /\ symbols \in Seq(Seq(Int))
    /\ starts \in Seq({0, 1})
    /\ air \in Seq(Sample)
Lengths ==
    /\ Len(vectors) <= Room /\ Len(triggers) <= Room /\ Len(marked) <= Room
    /\ Len(products) <= Room /\ Len(symbols) <= Room /\ Len(starts) <= Room
    /\ Len(starts) = Len(symbols) + Len(products)

\* The vectors that insert_pilot has taken; vectors and triggers in order.
Taken == given - Len(triggers)
Inputs ==
    /\ Taken >= 0 /\ sent - Len(vectors) = Taken
    /\ \A i \in 1..Len(vectors) : vectors[i] = Taken + i
    /\ \A i \in 1..Len(triggers) : triggers[i] = frame_start[Taken + i]
    /\ d_start = 1 => triggers # <<>> /\ triggers[1] = 1

\* The number of data vectors up to each item; what the items hold.
Numbered(num) ==
    /\ num[InFlight] = Taken
    /\ \A i \in 1..InFlight : num[i] = IF Flag(i) = 1 THEN num[i - 1] ELSE num[i - 1] + 1
    /\ \A k \in 1..Len(marked) :
          marked[k].of = IF marked[k].trigger = 1 THEN Pilot ELSE num[Len(starts) + k]
    /\ \A i \in 1..Len(starts) :
          Symbol(i) = IF starts[i] = 1 THEN <<Pilot>> ELSE Append(SymbolBefore(i), num[i])

\* A pilot is followed by a vector.
Chained ==
    /\ d_last_symbol = SymbolBefore(Len(starts) + 1)
    /\ \A i \in 1..(InFlight - 1) : Flag(i) = 1 => Flag(i + 1) = 0
    /\ InFlight > 0 => (Flag(InFlight) = 1 <=> d_start = 1)

\* Of samples A that have been sent, the next item in flight being u + 1 and
\* `added' samples of silence being counted.
Ends(A) == A # <<>> /\ A[Len(A)].at = SymbolLength
Silent(A, n) ==
    /\ n \in 1..Len(A)
    /\ \A i \in 1..n : A[Len(A) - n + i] = Silence
    /\ n < Len(A) => A[Len(A) - n].at = SymbolLength
Continues(A, u, added) ==
    /\ A = <<>> => added = 0
    /\ Ends(A) => A[Len(A)].of = SymbolBefore(u + 1)
    /\ Ends(A) /\ A[Len(A)].of = <<Pilot>> =>
          added = NsLength /\ IF u < InFlight THEN Flag(u + 1) = 0 ELSE d_start = 1
    /\ Ends(A) /\ A[Len(A)].of # <<Pilot>> => added = 0
    /\ A # <<>> /\ ~Ends(A) =>
          /\ Silent(A, added)
          /\ u < Len(symbols) /\ u < Len(starts) /\ starts[u + 1] = 1
    /\ u < InFlight /\ Flag(u + 1) = 0 => Ends(A)
    /\ u = InFlight /\ (Taken > 0 \/ d_start = 1) => Ends(A)

\* The properties, of samples A.
DataEndsOf(A, last) ==
    {p \in 1..last : A[p].at = SymbolLength /\ A[p].of # <<Pilot>>}
GetsVector(A, p) ==
    /\ p > SymbolLength
    /\ DiffPhasor(A[p - SymbolLength].of, A[p].of) = Cardinality(DataEndsOf(A, p))
NullFirst(A, p) ==
    /\ A[p].at > 1 => p > 1 /\ A[p - 1] = [A[p] EXCEPT !.at = @ - 1]
    /\ A[p].at = 1 =>
          IF A[p].of = <<Pilot>>
          THEN /\ p > NsLength
               /\ \A i \in 1..NsLength : A[p - 1 - NsLength + i] = Silence
               /\ p > NsLength + 1 => A[p - 1 - NsLength].at = SymbolLength
          ELSE p > 1 /\ A[p - 1].at = SymbolLength
Sound(A) ==
    /\ \A p \in DataEndsOf(A, Len(A)) : GetsVector(A, p)
    /\ \A p \in 1..Len(A) : NullFirst(A, p)

OnAir(num) ==
    /\ d_ns_added \in 0..NsLength
    /\ Sound(air) /\ Continues(air, 0, d_ns_added)
    /\ Cardinality(DataEnds(Len(air))) = num[0]

TInv ==
    /\ Types /\ Lengths /\ Inputs /\ Chained
    /\ \E num \in [0..InFlight -> 0..NumVectors] : Numbered(num) /\ OnAir(num)

-----------------------------------------------------------------------------
(* Queues *)

\* What is left of a queue from which the first n items were taken.
LEMMA Dropped ==
    ASSUME NEW S, NEW s \in Seq(S), NEW n \in 0..Len(s)
    PROVE  /\ SubSeq(s, n + 1, Len(s)) \in Seq(S)
           /\ Len(SubSeq(s, n + 1, Len(s))) = Len(s) - n
           /\ \A i \in 1..(Len(s) - n) : SubSeq(s, n + 1, Len(s))[i] = s[n + i]
<1>1. Len(s) \in Nat /\ \A i \in 1..Len(s) : s[i] \in S
  BY LenProperties, ElementOfSeq
<1>2. \A i \in (n + 1)..Len(s) : s[i] \in S
  BY <1>1
<1>3. /\ SubSeq(s, n + 1, Len(s)) \in Seq(S)
      /\ Len(SubSeq(s, n + 1, Len(s))) =
            IF n + 1 <= Len(s) THEN Len(s) - (n + 1) + 1 ELSE 0
      /\ \A i \in 1..(Len(s) - (n + 1) + 1) :
            SubSeq(s, n + 1, Len(s))[i] = s[n + 1 + i - 1]
  BY <1>1, <1>2, SubSeqProperties
<1>4. Len(SubSeq(s, n + 1, Len(s))) = Len(s) - n
  BY <1>1, <1>3
<1>5. ASSUME NEW i \in 1..(Len(s) - n)
      PROVE  SubSeq(s, n + 1, Len(s))[i] = s[n + i]
  <2>1. i \in 1..(Len(s) - (n + 1) + 1) /\ n + 1 + i - 1 = n + i
    BY <1>1
  <2> QED
    BY <1>3, <2>1
<1> QED
  BY <1>3, <1>4, <1>5

LEMMA Joined ==
    ASSUME NEW S, NEW s \in Seq(S), NEW t \in Seq(S), NEW q, q = s \o t
    PROVE  /\ q \in Seq(S) /\ Len(q) = Len(s) + Len(t)
           /\ \A i \in 1..Len(s) : q[i] = s[i]
           /\ \A i \in 1..Len(t) : q[Len(s) + i] = t[i]
<1>1. /\ s \o t \in Seq(S) /\ Len(s \o t) = Len(s) + Len(t)
      /\ \A i \in 1..(Len(s) + Len(t)) :
            (s \o t)[i] = IF i <= Len(s) THEN s[i] ELSE t[i - Len(s)]
  BY ConcatProperties
<1>2. Len(s) \in Nat /\ Len(t) \in Nat
  BY LenProperties
<1>3. ASSUME NEW i \in 1..Len(s)
      PROVE  (s \o t)[i] = s[i]
  BY <1>1, <1>2
<1>4. ASSUME NEW i \in 1..Len(t)
      PROVE  (s \o t)[Len(s) + i] = t[i]
  <2>1. /\ Len(s) + i \in 1..(Len(s) + Len(t)) /\ ~(Len(s) + i <= Len(s))
        /\ Len(s) + i - Len(s) = i
    BY <1>2
  <2> QED
    BY <1>1, <2>1
<1> QED
  BY <1>1, <1>2, <1>3, <1>4

LEMMA FirstOf ==
    ASSUME NEW S, NEW s \in Seq(S), NEW n \in 0..Len(s)
    PROVE  /\ SubSeq(s, 1, n) \in Seq(S) /\ Len(SubSeq(s, 1, n)) = n
           /\ \A i \in 1..n : SubSeq(s, 1, n)[i] = s[i]
<1>1. Len(s) \in Nat /\ \A i \in 1..Len(s) : s[i] \in S
  BY LenProperties, ElementOfSeq
<1>2. \A i \in 1..n : s[i] \in S
  BY <1>1
<1>3. /\ SubSeq(s, 1, n) \in Seq(S)
      /\ Len(SubSeq(s, 1, n)) = IF 1 <= n THEN n - 1 + 1 ELSE 0
      /\ \A i \in 1..(n - 1 + 1) : SubSeq(s, 1, n)[i] = s[1 + i - 1]
  BY <1>1, <1>2, SubSeqProperties
<1>4. ASSUME NEW i \in 1..n
      PROVE  SubSeq(s, 1, n)[i] = s[i]
  <2>1. i \in 1..(n - 1 + 1) /\ 1 + i - 1 = i
    BY <1>1
  <2> QED
    BY <1>3, <2>1
<1>5. Len(SubSeq(s, 1, n)) = n
  BY <1>1, <1>3
<1> QED
  BY <1>3, <1>4, <1>5

LEMMA Throughout ==
    ASSUME NEW N \in Nat, NEW S, 0 \in S, \A n \in 1..N : n - 1 \in S => n \in S
    PROVE  \A n \in 0..N : n \in S
<1> DEFINE M == {n \in Nat : n <= N => n \in S}
<1>1. 0 \in M
  OBVIOUS
<1>2. ASSUME NEW n \in Nat, n \in M
      PROVE  n + 1 \in M
  <2>1. n + 1 <= N => n + 1 \in 1..N /\ n + 1 - 1 = n
    OBVIOUS
  <2> QED
    BY <1>2, <2>1
<1>3. Nat \subseteq M
  <2> HIDE DEF M
  <2> QED
    BY <1>1, <1>2, Induction
<1> QED
  BY <1>3

-----------------------------------------------------------------------------
(* The sources, and the steps that keep the order *)

LEMMA StartInvariant == Init => TInv
<1> SUFFICES ASSUME Init
             PROVE  TInv
  OBVIOUS
<1> DEFINE num == [i \in 0..0 |-> 0]
<1>1. /\ Len(starts) = 0 /\ Len(marked) = 0 /\ Len(air) = 0 /\ Len(triggers) = 0
      /\ Len(vectors) = 0 /\ Len(products) = 0 /\ Len(symbols) = 0
      /\ {NumVectors, NsLength, SymbolLength, Room} \subseteq Nat \ {0}
  BY TransmitterAssumption DEF Init
<1>2. Types /\ Lengths /\ Inputs
  BY <1>1 DEF Init, Types, Lengths, Inputs, Taken
<1>3. Chained
  BY <1>1 DEF Init, Chained, SymbolBefore, InFlight
<1>4. num \in [0..InFlight -> 0..NumVectors] /\ Numbered(num)
  <2>1. InFlight = 0 /\ Taken = 0
    <3>1. given = 0
      BY DEF Init
    <3> QED
      BY <1>1, <3>1 DEF InFlight, Taken
  <2>3. num[0] = 0
    OBVIOUS
  <2> HIDE DEF num
  <2>2. num \in [0..0 -> 0..NumVectors]
    BY <1>1 DEF num
  <2> QED
    BY <1>1, <2>1, <2>2, <2>3 DEF Numbered
<1>5. OnAir(num)
  <2>1. DataEnds(Len(air)) = {} /\ DataEndsOf(air, Len(air)) = {}
    BY <1>1 DEF DataEnds, DataEndsOf
  <2>2. Cardinality(DataEnds(Len(air))) = num[0]
    BY <2>1, FS_EmptySet
  <2>3. Sound(air)
    BY <1>1, <2>1 DEF Sound
  <2>4. Continues(air, 0, d_ns_added) /\ d_ns_added \in 0..NsLength
    BY <1>1 DEF Init, Continues, Ends, InFlight, Taken
  <2> QED
    BY <2>2, <2>3, <2>4 DEF OnAir
<1> QED
  BY <1>2, <1>3, <1>4, <1>5 DEF TInv

LEMMA QueueLengths ==
    ASSUME Types
    PROVE  /\ Len(vectors) \in Nat /\ Len(triggers) \in Nat /\ Len(marked) \in Nat
           /\ Len(products) \in Nat /\ Len(symbols) \in Nat /\ Len(starts) \in Nat
           /\ Len(air) \in Nat /\ InFlight \in Nat
           /\ {NumVectors, NsLength, SymbolLength, Room} \subseteq Nat \ {0}
  BY LenProperties, TransmitterAssumption DEF Types, InFlight

\* The sources do not touch what is in flight.
LEMMA FlightKept ==
    ASSUME Chained, NEW num,
           UNCHANGED <<d_start, sum, products, null, air>>, Taken' = Taken
    PROVE  /\ Chained' /\ InFlight' = InFlight
           /\ Numbered(num) => Numbered(num)'
           /\ OnAir(num) => OnAir(num)'
<1>1. /\ d_start' = d_start /\ marked' = marked /\ d_last_symbol' = d_last_symbol
      /\ products' = products /\ symbols' = symbols /\ starts' = starts
      /\ d_ns_added' = d_ns_added /\ air' = air
  BY DEF sum, null
<1>2. InFlight' = InFlight /\ \A i : Flag(i)' = Flag(i) /\ Symbol(i)' = Symbol(i)
  BY <1>1 DEF InFlight, Flag, Symbol
<1>3. \A i : SymbolBefore(i)' = SymbolBefore(i)
  BY <1>1, <1>2 DEF SymbolBefore
<1>4. Chained'
  BY <1>1, <1>2, <1>3 DEF Chained
<1>5. Numbered(num) => Numbered(num)'
  BY <1>1, <1>2, <1>3 DEF Numbered
<1>6. ASSUME OnAir(num)
      PROVE  OnAir(num)'
  <2>1. Continues(air, 0, d_ns_added)'
    BY <1>1, <1>2, <1>3, <1>6 DEF OnAir, Continues
  <2>2. Cardinality(DataEnds(Len(air)))' = num[0]
    BY <1>1, <1>6 DEF OnAir, DataEnds
  <2> QED
    BY <1>1, <1>6, <2>1, <2>2 DEF OnAir
<1> QED
  BY <1>2, <1>4, <1>5, <1>6

LEMMA SendInvariant == TInv /\ SendVector => TInv'
<1> SUFFICES ASSUME TInv, SendVector
             PROVE  TInv'
  OBVIOUS
<1>1. /\ sent < NumVectors /\ Len(vectors) < Room /\ sent' = sent + 1
      /\ vectors' = Append(vectors, sent + 1)
      /\ UNCHANGED <<frame_start, given, triggers, d_start, sum, products, null, air>>
  BY DEF SendVector
<1>2. Types /\ Lengths /\ Inputs /\ Chained
  BY DEF TInv
<1>3. sent \in 0..NumVectors /\ vectors \in Seq(Int)
  BY <1>2 DEF Types
<1>4. /\ vectors' \in Seq(Int) /\ Len(vectors') = Len(vectors) + 1
      /\ \A i \in 1..Len(vectors) : vectors'[i] = vectors[i]
      /\ vectors'[Len(vectors) + 1] = sent + 1
  BY <1>1, <1>3, AppendProperties
<1>5. Types' /\ Lengths'
  <2>1. sent' \in 0..NumVectors /\ Len(vectors') <= Room
    BY <1>1, <1>2, <1>3, <1>4, QueueLengths
  <2> QED
    BY <1>1, <1>2, <1>4, <2>1 DEF Types, Lengths, sum, null
<1>6. Taken' = Taken
  BY <1>1 DEF Taken
<1>7. Inputs'
  <2>1. Len(vectors) \in Nat /\ Taken \in Int
    BY <1>2, QueueLengths DEF Types, Taken
  <2>2. \A i \in 1..Len(vectors') : i \in 1..Len(vectors) \/ i = Len(vectors) + 1
    BY <1>4, <2>1
  <2>3. Taken + (Len(vectors) + 1) = sent + 1
    BY <1>2, <1>3, <2>1 DEF Inputs
  <2>4. \A i \in 1..Len(vectors') : vectors'[i] = Taken + i
    BY <1>2, <1>4, <2>2, <2>3 DEF Inputs
  <2>5. sent' - Len(vectors') = Taken
    BY <1>1, <1>3, <1>4, <2>1, <2>3
  <2> QED
    BY <1>1, <1>2, <1>6, <2>4, <2>5 DEF Inputs
<1>8. PICK num \in [0..InFlight -> 0..NumVectors] : Numbered(num) /\ OnAir(num)
  BY DEF TInv
<1>9. /\ Chained' /\ Numbered(num)' /\ OnAir(num)'
      /\ num \in [0..InFlight' -> 0..NumVectors]
  BY <1>1, <1>2, <1>6, <1>8, FlightKept
<1> QED
  BY <1>5, <1>7, <1>9 DEF TInv

LEMMA GiveInvariant == TInv /\ GiveTrigger => TInv'
<1> SUFFICES ASSUME TInv, GiveTrigger
             PROVE  TInv'
  OBVIOUS
<1>1. /\ given < NumVectors /\ Len(triggers) < Room /\ given' = given + 1
      /\ triggers' = Append(triggers, frame_start[given + 1])
      /\ UNCHANGED <<frame_start, sent, vectors, d_start, sum, products, null, air>>
  BY DEF GiveTrigger
<1>2. Types /\ Lengths /\ Inputs /\ Chained
  BY DEF TInv
<1>3. given \in 0..NumVectors /\ triggers \in Seq({0, 1}) /\ NumVectors \in Nat
  BY <1>2, QueueLengths DEF Types
<1>4. frame_start[given + 1] \in {0, 1}
  BY <1>1, <1>2, <1>3 DEF Types
<1>5. /\ triggers' \in Seq({0, 1}) /\ Len(triggers') = Len(triggers) + 1
      /\ \A i \in 1..Len(triggers) : triggers'[i] = triggers[i]
      /\ triggers'[Len(triggers) + 1] = frame_start[given + 1]
  BY <1>1, <1>3, <1>4, AppendProperties
<1>6. Len(triggers) \in Nat
  BY <1>2, QueueLengths
<1>7. Types' /\ Lengths'
  <2>1. given' \in 0..NumVectors /\ Len(triggers') <= Room
    BY <1>1, <1>2, <1>3, <1>5, QueueLengths
  <2> QED
    BY <1>1, <1>2, <1>5, <2>1 DEF Types, Lengths, sum, null
<1>8. Taken' = Taken /\ Taken \in Int
  BY <1>1, <1>3, <1>5, <1>6 DEF Taken
<1>9. Inputs'
  <2>1. \A i \in 1..Len(triggers') : i \in 1..Len(triggers) \/ i = Len(triggers) + 1
    BY <1>5, <1>6
  <2>2. Taken + (Len(triggers) + 1) = given + 1
    BY <1>3, <1>6 DEF Taken
  <2>3. \A i \in 1..Len(triggers') : triggers'[i] = frame_start[Taken + i]
    BY <1>2, <1>5, <2>1, <2>2 DEF Inputs
  <2>4. d_start' = 1 => triggers' # <<>> /\ triggers'[1] = 1
    <3>1. d_start' = 1 => triggers # <<>> /\ triggers[1] = 1
      BY <1>1, <1>2 DEF Inputs
    <3>2. triggers # <<>> => 1 \in 1..Len(triggers)
      BY <1>3, <1>6
    <3>3. triggers' # <<>>
      BY <1>5, <1>6
    <3> QED
      BY <1>5, <3>1, <3>2, <3>3
  <2> QED
    BY <1>1, <1>2, <1>8, <2>3, <2>4 DEF Inputs
<1>10. PICK num \in [0..InFlight -> 0..NumVectors] : Numbered(num) /\ OnAir(num)
  BY DEF TInv
<1>11. /\ Chained' /\ Numbered(num)' /\ OnAir(num)'
       /\ num \in [0..InFlight' -> 0..NumVectors]
  BY <1>1, <1>2, <1>8, <1>10, FlightKept
<1> QED
  BY <1>7, <1>9, <1>11 DEF TInv

\* Steps at the far end do not touch what the air continues with.
LEMMA OnAirKept ==
    ASSUME NEW num, OnAir(num), Types, Types',
           UNCHANGED <<air, d_ns_added, d_start>>, Taken' = Taken, InFlight' = InFlight,
           InFlight > 0 => Flag(1)' = Flag(1),
           Len(starts) <= Len(starts'), Len(symbols) <= Len(symbols'),
           starts # <<>> => starts'[1] = starts[1]
    PROVE  OnAir(num)'
<1>1. SymbolBefore(1)' = SymbolBefore(1)
  BY DEF SymbolBefore
<1>2. /\ Len(starts) \in Nat /\ Len(symbols) \in Nat /\ InFlight \in Nat
      /\ Len(starts') \in Nat /\ Len(symbols') \in Nat /\ (0 < Len(starts) => starts # <<>>)
  <2>1. /\ starts' \in Seq({0, 1}) /\ symbols' \in Seq(Seq(Int))
        /\ starts \in Seq({0, 1}) /\ symbols \in Seq(Seq(Int))
    BY DEF Types
  <2> QED
    BY <2>1, QueueLengths
<1>3. Continues(air, 0, d_ns_added)
  BY DEF OnAir
<1>4. Continues(air, 0, d_ns_added)'
  BY <1>1, <1>2, <1>3 DEF Continues
<1>5. Cardinality(DataEnds(Len(air)))' = num[0]
  BY DEF OnAir, DataEnds
<1> QED
  BY <1>4, <1>5 DEF OnAir

LEMMA ModulateInvariant == TInv /\ Modulate => TInv'
<1> SUFFICES ASSUME TInv, Modulate
             PROVE  TInv'
  OBVIOUS
<1>1. PICK n \in 1..Len(products) :
         /\ Len(symbols) + n <= Room
         /\ symbols' = symbols \o SubSeq(products, 1, n)
         /\ products' = SubSeq(products, n + 1, Len(products))
         /\ UNCHANGED <<source, pilot, sum, starts, d_ns_added, air>>
  BY DEF Modulate
<1>2. Types /\ Lengths /\ Inputs /\ Chained
  BY DEF TInv
<1>3. /\ symbols \in Seq(Seq(Int)) /\ products \in Seq(Seq(Int))
      /\ Len(symbols) \in Nat /\ Len(products) \in Nat /\ n \in 0..Len(products)
  BY <1>2, QueueLengths, SMTT(20) DEF Types
<1> DEFINE first == SubSeq(products, 1, n)
<1>4. /\ first \in Seq(Seq(Int)) /\ Len(first) = n
      /\ \A i \in 1..n : first[i] = products[i]
  BY <1>3, FirstOf
<1> HIDE DEF first
<1>5. /\ symbols' \in Seq(Seq(Int)) /\ Len(symbols') = Len(symbols) + n
      /\ \A i \in 1..Len(symbols) : symbols'[i] = symbols[i]
      /\ \A i \in 1..n : symbols'[Len(symbols) + i] = products[i]
  <2>1. symbols' = symbols \o first
    BY <1>1 DEF first
  <2>2. symbols \in Seq(Seq(Int)) /\ first \in Seq(Seq(Int))
    BY <1>3, <1>4
  <2>5. Len(symbols') = Len(symbols) + Len(first)
    BY <2>1, <2>2
  <2>6. symbols' \in Seq(Seq(Int))
    BY <2>1, <2>2, ConcatProperties
  <2>3. \A i \in 1..Len(symbols) : symbols'[i] = symbols[i]
    BY <1>3, <1>4, <2>1
  <2>4. \A i \in 1..Len(first) : symbols'[Len(symbols) + i] = first[i]
    BY <1>3, <1>4, <2>1
  <2> QED
    BY <1>4, <2>3, <2>4, <2>5, <2>6
<1>6. /\ products' \in Seq(Seq(Int)) /\ Len(products') = Len(products) - n
      /\ \A i \in 1..(Len(products) - n) : products'[i] = products[n + i]
  BY <1>1, <1>3, Dropped
<1>7. /\ UNCHANGED <<frame_start, sent, given, vectors, triggers, d_start, marked,
                     d_last_symbol, starts, d_ns_added, air>>
      /\ Taken' = Taken /\ InFlight' = InFlight /\ \A i : Flag(i)' = Flag(i)
  BY <1>1 DEF source, pilot, sum, Taken, InFlight, Flag
<1>8. Types'
  BY <1>2, <1>5, <1>6, <1>7 DEF Types
<1>9. Lengths'
  <2>1. Len(symbols') <= Room /\ Len(products') <= Room
    BY <1>1, <1>2, <1>3, <1>5, <1>6, QueueLengths, SMTT(20) DEF Lengths
  <2>2. Len(symbols') + Len(products') = Len(symbols) + Len(products)
    BY <1>3, <1>5, <1>6
  <2> QED
    BY <1>2, <1>7, <2>1, <2>2 DEF Lengths
<1>10. Inputs'
  BY <1>2, <1>7 DEF Inputs
<1>11. \A i \in 1..Len(starts) : Symbol(i)' = Symbol(i)
  <2> SUFFICES ASSUME NEW i \in 1..Len(starts)
               PROVE  Symbol(i)' = Symbol(i)
    OBVIOUS
  <2>1. Len(starts) = Len(symbols) + Len(products) /\ i \in Nat
    BY <1>2, QueueLengths DEF Lengths
  <2>2. CASE i <= Len(symbols)
    <3>1. i \in 1..Len(symbols) /\ i <= Len(symbols')
      BY <1>3, <1>5, <2>2
    <3> QED
      BY <1>5, <3>1 DEF Symbol
  <2>3. CASE i > Len(symbols) /\ i <= Len(symbols) + n
    <3>1. /\ i - Len(symbols) \in 1..n /\ Len(symbols) + (i - Len(symbols)) = i
          /\ i <= Len(symbols') /\ ~(i <= Len(symbols))
      BY <1>3, <1>5, <2>1, <2>3
    <3>2. symbols'[i] = products[i - Len(symbols)]
      BY <1>5, <3>1
    <3> QED
      BY <3>1, <3>2 DEF Symbol
  <2>4. CASE i > Len(symbols) + n
    <3>1. /\ i - Len(symbols') \in 1..(Len(products) - n)
          /\ n + (i - Len(symbols')) = i - Len(symbols)
          /\ ~(i <= Len(symbols')) /\ ~(i <= Len(symbols))
      BY <1>3, <1>5, <2>1, <2>4, SMTT(20)
    <3>2. products'[i - Len(symbols')] = products[i - Len(symbols)]
      BY <1>6, <3>1
    <3> QED
      BY <3>1, <3>2 DEF Symbol
  <2> QED
    BY <1>3, <2>1, <2>2, <2>3, <2>4
<1>12. \A i \in 1..(Len(starts) + 1) : SymbolBefore(i)' = SymbolBefore(i)
  <2>1. \A i \in 1..(Len(starts) + 1) : i > 1 => i - 1 \in 1..Len(starts)
    BY <1>2, QueueLengths, SMTT(20)
  <2> QED
    BY <1>7, <1>11, <2>1 DEF SymbolBefore
<1>13. Chained'
  <2>1. Len(starts) + 1 \in 1..(Len(starts) + 1)
    BY <1>2, QueueLengths
  <2> QED
    BY <1>2, <1>7, <1>12, <2>1 DEF Chained
<1>14. PICK num \in [0..InFlight -> 0..NumVectors] : Numbered(num) /\ OnAir(num)
  BY DEF TInv
<1>15. Numbered(num)'
  <2>1. \A i \in 1..Len(starts) : i \in 1..(Len(starts) + 1)
    BY <1>2, QueueLengths
  <2> QED
    BY <1>7, <1>11, <1>12, <1>14, <2>1 DEF Numbered
<1>16. OnAir(num)'
  <2>1. Len(starts) <= Len(starts') /\ Len(symbols) <= Len(symbols')
    BY <1>2, <1>3, <1>5, <1>7, QueueLengths
  <2> QED
    BY <1>2, <1>7, <1>8, <1>14, <2>1, OnAirKept
<1> QED
  BY <1>7, <1>8, <1>9, <1>10, <1>13, <1>14, <1>15, <1>16 DEF TInv

-----------------------------------------------------------------------------
(* sum_phasor_trig *)

LEMMA PhaseFacts ==
    ASSUME Types, NEW n \in 1..Len(marked)
    PROVE  /\ Phases(n) \in Seq(Seq(Int)) /\ Len(Phases(n)) = n
           /\ \A k \in 1..n :
                 Phases(n)[k] =
                    IF marked[k].trigger = 1 THEN <<marked[k].of>>
                    ELSE Append(IF k = 1 THEN d_last_symbol ELSE Phases(n)[k - 1],
                                marked[k].of)
<1> DEFINE Next1(symbol, item) ==
              IF item.trigger = 1 THEN <<item.of>> ELSE Append(symbol, item.of)
           step == [p \in (1..n) \X Seq(Int) |-> Next1(p[2], marked[p[1]])]
           Phase(h) == [k \in 0..n |-> IF k = 0 THEN d_last_symbol
                          ELSE IF marked[k].trigger = 1 THEN <<marked[k].of>>
                          ELSE Append(h[k - 1], marked[k].of)]
<1>1. /\ n \in Nat /\ \A k \in 1..n : marked[k] \in Item
      /\ d_last_symbol \in Seq(Int)
  <2>1. marked \in Seq(Item) /\ d_last_symbol \in Seq(Int) /\ Len(marked) \in Nat
    BY QueueLengths DEF Types
  <2>2. \A k \in 1..n : k \in 1..Len(marked)
    BY <2>1
  <2> QED
    BY <2>1, <2>2, ElementOfSeq
<1>2. \A symbol \in Seq(Int), item \in Item : Next1(symbol, item) \in Seq(Int)
  <2> SUFFICES ASSUME NEW symbol \in Seq(Int), NEW item \in Item
               PROVE  Next1(symbol, item) \in Seq(Int)
    OBVIOUS
  <2>1. item.of \in Int
    BY DEF Item
  <2> QED
    BY <2>1, AppendProperties
<1>3. step \in [(1..n) \X Seq(Int) -> Seq(Int)]
  <2> HIDE DEF Next1
  <2> QED
    BY <1>1, <1>2
<1>4. PICK g \in [0..n -> Seq(Int)] :
         g[0] = d_last_symbol /\ \A k \in 1..n : g[k] = step[<<k, g[k - 1]>>]
  <2>1. PICK S, do : S = Seq(Int) /\ do = step
    OBVIOUS
  <2>2. d_last_symbol \in S /\ n \in Nat
    BY <1>1, <2>1
  <2>3. do \in [(1..n) \X S -> S]
    BY <1>3, <2>1
  <2> HIDE DEF step
  <2>4. \E g \in [0..n -> S] : Recursive(g, d_last_symbol, n, do)
    BY <2>2, <2>3, Recursion
  <2> QED
    BY <2>1, <2>4 DEF Recursive
<1>5. g = Phase(g)
  <2>1. \A k \in 1..n : g[k] = Next1(g[k - 1], marked[k])
    <3> SUFFICES ASSUME NEW k \in 1..n
                 PROVE  g[k] = Next1(g[k - 1], marked[k])
      OBVIOUS
    <3>1. k - 1 \in 0..n
      BY <1>1
    <3>2. g[k - 1] \in Seq(Int)
      BY <1>4, <3>1
    <3> HIDE DEF Next1
    <3> QED
      BY <1>4, <3>2
  <2>2. \A k \in 0..n : k # 0 => k \in 1..n
    BY <1>1
  <2> QED
    BY <1>4, <2>1, <2>2
<1> DEFINE phase == CHOOSE h : h = Phase(h)
<1>6. phase = Phase(phase)
  BY <1>5
<1>7. Phases(n) = [k \in 1..n |-> phase[k]]
  BY DEF Phases
<1> HIDE DEF phase
<1>8. phase[0] = d_last_symbol /\ \A k \in 1..n : phase[k] = Next1(phase[k - 1], marked[k])
  <2>1. 0 \in 0..n /\ \A k \in 1..n : k \in 0..n /\ k # 0
    BY <1>1
  <2> QED
    BY <1>6, <2>1
<1>9. \A k \in 0..n : phase[k] \in Seq(Int)
  <2> DEFINE T == {k \in 0..n : phase[k] \in Seq(Int)}
  <2>1. 0 \in T
    BY <1>1, <1>8
  <2>2. \A k \in 1..n : k - 1 \in T => k \in T
    <3> SUFFICES ASSUME NEW k \in 1..n, phase[k - 1] \in Seq(Int)
                 PROVE  phase[k] \in Seq(Int)
      BY <1>1
    <3> HIDE DEF Next1
    <3>1. phase[k] = Next1(phase[k - 1], marked[k]) /\ marked[k] \in Item
      BY <1>1, <1>8
    <3> QED
      BY <1>2, <3>1
  <2> HIDE DEF T
  <2>3. \A k \in 0..n : k \in T
    BY <1>1, <2>1, <2>2, Throughout
  <2> QED
    BY <2>3 DEF T
<1>10. Phases(n) \in Seq(Seq(Int)) /\ Len(Phases(n)) = n
  <2>1. \A k \in 1..n : phase[k] \in Seq(Int)
    BY <1>1, <1>9
  <2> QED
    BY <1>1, <1>7, <2>1
<1>11. ASSUME NEW k \in 1..n
       PROVE  Phases(n)[k] =
                 IF marked[k].trigger = 1 THEN <<marked[k].of>>
                 ELSE Append(IF k = 1 THEN d_last_symbol ELSE Phases(n)[k - 1],
                             marked[k].of)
  <2>1. phase[k - 1] = IF k = 1 THEN d_last_symbol ELSE Phases(n)[k - 1]
    BY <1>1, <1>7, <1>8
  <2> QED
    BY <1>7, <1>8, <2>1
<1> QED
  BY <1>10, <1>11

LEMMA SumInvariant == TInv /\ SumPhase => TInv'
<1> SUFFICES ASSUME TInv, SumPhase
             PROVE  TInv'
  OBVIOUS
<1>1. PICK n \in 1..Len(marked) :
         /\ Len(products) + n <= Room /\ Len(starts) + n <= Room
         /\ products' = products \o Phases(n)
         /\ starts' = starts \o [k \in 1..n |-> marked[k].trigger]
         /\ d_last_symbol' = Remembered(Phases(n))
         /\ marked' = SubSeq(marked, n + 1, Len(marked))
         /\ UNCHANGED <<source, pilot, symbols, d_ns_added, air>>
  BY DEF SumPhase
<1>a. PICK P \in Nat : P = Len(starts)
  BY QueueLengths DEF TInv
<1> DEFINE out == Phases(n)
           flags == [k \in 1..n |-> marked[k].trigger]
<1>2. Types /\ Lengths /\ Inputs /\ Chained
  BY DEF TInv
<1>3. /\ products \in Seq(Seq(Int)) /\ symbols \in Seq(Seq(Int))
      /\ starts \in Seq({0, 1}) /\ marked \in Seq(Item)
      /\ Len(products) \in Nat /\ Len(symbols) \in Nat /\ P \in Nat
      /\ Len(marked) \in Nat /\ n \in 0..Len(marked) /\ n \in Nat
      /\ P = Len(symbols) + Len(products) /\ P = Len(starts)
  BY <1>a, <1>2, QueueLengths DEF Types, Lengths
<1>b. /\ Len(starts) = P /\ InFlight = P + Len(marked) /\ Len(marked) \in Nat
      /\ n \in Nat /\ n >= 1 /\ n <= Len(marked)
      /\ Len(symbols) \in Nat /\ Len(products) \in Nat
      /\ P = Len(symbols) + Len(products)
  BY <1>a, <1>3 DEF InFlight
<1>c. Room \in Nat /\ Len(marked) <= Room /\ Len(products) + n <= Room /\ P + n <= Room
  BY <1>1, <1>a, <1>2, QueueLengths DEF Lengths
<1>4. \A k \in 1..n : k \in 1..Len(marked) /\ marked[k] \in Item /\ marked[k].trigger \in {0, 1}
  <2>1. \A k \in 1..n : k \in 1..Len(marked)
    BY <1>3
  <2>2. \A k \in 1..Len(marked) : marked[k] \in Item
    BY <1>3, ElementOfSeq
  <2> QED
    BY <2>1, <2>2 DEF Item
<1>5. /\ out \in Seq(Seq(Int)) /\ Len(out) = n
      /\ \A k \in 1..n :
            out[k] = IF marked[k].trigger = 1 THEN <<marked[k].of>>
                     ELSE Append(IF k = 1 THEN d_last_symbol ELSE out[k - 1], marked[k].of)
  BY <1>2, PhaseFacts
<1>6. flags \in Seq({0, 1}) /\ Len(flags) = n /\ \A k \in 1..n : flags[k] = marked[k].trigger
  BY <1>3, <1>4
<1>7. starts' = starts \o flags /\ products' = products \o out
  BY <1>1
<1> HIDE DEF out, flags
<1>8. /\ starts' \in Seq({0, 1}) /\ Len(starts') = P + n
      /\ \A i \in 1..P : starts'[i] = starts[i]
      /\ \A k \in 1..n : starts'[P + k] = marked[k].trigger
  <2>1. starts \in Seq({0, 1}) /\ flags \in Seq({0, 1}) /\ starts' = starts \o flags
    BY <1>3, <1>6, <1>7
  <2>2. starts' \in Seq({0, 1})
    BY <2>1, ConcatProperties
  <2>3. Len(starts') = Len(starts) + Len(flags)
    BY <2>1
  <2>4. \A i \in 1..Len(starts) : starts'[i] = starts[i]
    BY <2>1
  <2>5. \A k \in 1..Len(flags) : starts'[Len(starts) + k] = flags[k]
    BY <2>1
  <2> QED
    BY <1>3, <1>6, <2>2, <2>3, <2>4, <2>5
<1>9. /\ products' \in Seq(Seq(Int)) /\ Len(products') = Len(products) + n
      /\ \A i \in 1..Len(products) : products'[i] = products[i]
      /\ \A k \in 1..n : products'[Len(products) + k] = out[k]
  <2>1. /\ products \in Seq(Seq(Int)) /\ out \in Seq(Seq(Int))
        /\ products' = products \o out
    BY <1>3, <1>5, <1>7
  <2>2. products' \in Seq(Seq(Int))
    BY <2>1, ConcatProperties
  <2>3. Len(products') = Len(products) + Len(out)
    BY <2>1
  <2>4. \A i \in 1..Len(products) : products'[i] = products[i]
    BY <2>1
  <2>5. \A k \in 1..Len(out) : products'[Len(products) + k] = out[k]
    BY <2>1
  <2> QED
    BY <1>5, <2>2, <2>3, <2>4, <2>5
<1>10. /\ marked' \in Seq(Item) /\ Len(marked') = Len(marked) - n
       /\ \A k \in 1..(Len(marked) - n) : marked'[k] = marked[n + k]
  BY <1>1, <1>3, Dropped
<1>11. /\ UNCHANGED <<frame_start, sent, given, vectors, triggers, d_start, symbols,
                      d_ns_added, air>>
       /\ Taken' = Taken
  BY <1>1 DEF source, pilot, Taken
<1>12. InFlight' = InFlight
  BY <1>3, <1>8, <1>10 DEF InFlight
<1>13. d_last_symbol' = out[n]
  <2>1. d_last_symbol' = Last(out)
    BY <1>1 DEF out, Remembered
  <2> QED
    BY <1>5, <2>1 DEF Last
<1>14. Types'
  <2>1. d_last_symbol' \in Seq(Int)
    BY <1>3, <1>5, <1>13, ElementOfSeq
  <2> QED
    BY <1>2, <1>8, <1>9, <1>10, <1>11, <2>1 DEF Types
<1>15. Lengths'
  <2>1. /\ Len(products') <= Room /\ Len(starts') <= Room /\ Len(marked') <= Room
        /\ Len(starts') = Len(symbols) + Len(products')
    BY <1>b, <1>c, <1>8, <1>9, <1>10
  <2> QED
    BY <1>2, <1>11, <2>1 DEF Lengths
<1>16. Inputs'
  BY <1>2, <1>11 DEF Inputs
<1>17. \A i \in 1..InFlight : Flag(i)' = Flag(i)
  <2> SUFFICES ASSUME NEW i \in 1..InFlight
               PROVE  Flag(i)' = Flag(i)
    OBVIOUS
  <2>1. CASE i <= P
    <3>1. i \in 1..P /\ i <= Len(starts) /\ i <= Len(starts')
      BY <1>b, <1>8, <2>1
    <3>2. starts'[i] = starts[i]
      BY <1>8, <3>1
    <3> QED
      BY <3>1, <3>2 DEF Flag
  <2>2. CASE i > P /\ i <= P + n
    <3>1. /\ i - P \in 1..n /\ P + (i - P) = i /\ i <= Len(starts') /\ ~(i <= P)
      BY <1>b, <1>8, <2>2
    <3>2. starts'[i] = marked[i - P].trigger
      BY <1>8, <3>1
    <3> QED
      BY <1>b, <3>1, <3>2 DEF Flag
  <2>3. CASE i > P + n
    <3>1. /\ i - Len(starts') \in 1..(Len(marked) - n) /\ n + (i - Len(starts')) = i - P
          /\ ~(i <= Len(starts')) /\ ~(i <= P)
      BY <1>b, <1>8, <2>3
    <3>2. marked'[i - Len(starts')] = marked[i - P]
      BY <1>10, <3>1
    <3> QED
      BY <1>b, <3>1, <3>2 DEF Flag
  <2> QED
    BY <1>b, <2>1, <2>2, <2>3
<1>18. \A i \in 1..P : Symbol(i)' = Symbol(i)
  <2> SUFFICES ASSUME NEW i \in 1..P
               PROVE  Symbol(i)' = Symbol(i)
    OBVIOUS
  <2>1. CASE i <= Len(symbols)
    BY <1>11, <2>1 DEF Symbol
  <2>2. CASE i > Len(symbols)
    <3>1. i - Len(symbols) \in 1..Len(products) /\ ~(i <= Len(symbols))
      BY <1>3, <2>2
    <3> QED
      BY <1>9, <1>11, <3>1 DEF Symbol
  <2> QED
    BY <1>3, <2>1, <2>2
<1>19. \A k \in 1..n : Symbol(P + k)' = out[k]
  <2> SUFFICES ASSUME NEW k \in 1..n
               PROVE  Symbol(P + k)' = out[k]
    OBVIOUS
  <2>1. P + k - Len(symbols) = Len(products) + k /\ ~(P + k <= Len(symbols))
    BY <1>3
  <2>3. products'[Len(products) + k] = out[k]
    BY <1>9
  <2>4. \A i : ~(i <= Len(symbols)) => Symbol(i)' = products'[i - Len(symbols)]
    BY <1>11 DEF Symbol
  <2> QED
    BY <2>1, <2>3, <2>4
<1>20. \A k \in 1..n : Flag(P + k) = marked[k].trigger /\ P + k \in 1..InFlight
  BY <1>3 DEF Flag, InFlight
<1>21. PICK num : /\ num \in [0..InFlight -> 0..NumVectors]
                  /\ Numbered(num) /\ OnAir(num)
  BY DEF TInv
<1>22. \A i \in 1..(P + 1) : SymbolBefore(i)' = SymbolBefore(i)
  <2>1. \A i \in 1..(P + 1) : i > 1 => i - 1 \in 1..P
    BY <1>3
  <2> QED
    BY <1>11, <1>18, <2>1 DEF SymbolBefore
<1>23. \A k \in 1..n : SymbolBefore(P + k)' = IF k = 1 THEN d_last_symbol ELSE out[k - 1]
  <2> SUFFICES ASSUME NEW k \in 1..n
               PROVE  SymbolBefore(P + k)' = IF k = 1 THEN d_last_symbol ELSE out[k - 1]
    OBVIOUS
  <2>1. CASE k = 1
    <3>1. P + k \in 1..(P + 1) /\ P + k = P + 1
      BY <1>3, <2>1
    <3> QED
      BY <1>2, <1>3, <1>22, <2>1, <3>1 DEF Chained
  <2>2. CASE k # 1
    <3>1. k - 1 \in 1..n /\ P + k > 1 /\ P + k - 1 = P + (k - 1)
      BY <1>3, <2>2
    <3>2. Symbol(P + k - 1)' = out[k - 1]
      BY <1>19, <3>1
    <3> QED
      BY <2>2, <3>1, <3>2 DEF SymbolBefore
  <2> QED
    BY <2>1, <2>2
<1>24. Chained'
  <2>1. Len(starts') + 1 - 1 = P + n /\ Len(starts') + 1 > 1 /\ n \in 1..n
    BY <1>b, <1>8
  <2>2. d_last_symbol' = SymbolBefore(Len(starts) + 1)'
    BY <1>13, <1>19, <2>1 DEF SymbolBefore
  <2>3. \A i \in 1..(InFlight - 1) : i \in 1..InFlight /\ i + 1 \in 1..InFlight
    BY <1>3 DEF InFlight
  <2>4. InFlight > 0 => InFlight \in 1..InFlight
    BY <1>3 DEF InFlight
  <2>5. PICK F : F = InFlight
    OBVIOUS
  <2>6. Flag(InFlight)' = Flag(F)'
    BY <1>12, <2>5
  <2> QED
    BY <1>2, <1>11, <1>12, <1>17, <2>2, <2>3, <2>4, <2>5, <2>6 DEF Chained
<1>25. Numbered(num)'
  <2>1. num[InFlight'] = Taken'
    BY <1>11, <1>12, <1>21 DEF Numbered
  <2>2. \A i \in 1..InFlight' : num[i] = IF Flag(i)' = 1 THEN num[i - 1] ELSE num[i - 1] + 1
    BY <1>12, <1>17, <1>21 DEF Numbered
  <2>3. ASSUME NEW k \in 1..Len(marked')
        PROVE  marked'[k].of = IF marked'[k].trigger = 1 THEN Pilot ELSE num[Len(starts') + k]
    <3>1. PICK M : M = Len(marked)
      OBVIOUS
    <3>2. M \in Nat /\ n \in 1..M /\ k \in 1..(M - n)
      BY <1>b, <1>10, <3>1
    <3>3. n + k \in 1..M /\ P + (n + k) = (P + n) + k
      BY <3>2
    <3>4. Len(starts') = P + n /\ marked'[k] = marked[n + k]
      BY <1>8, <1>10, <3>1, <3>2
    <3>5. n + k \in 1..Len(marked) /\ P + (n + k) = Len(starts') + k
      BY <3>1, <3>3, <3>4
    <3> QED
      BY <1>b, <1>21, <3>4, <3>5 DEF Numbered
  <2>4. ASSUME NEW i \in 1..Len(starts')
        PROVE  Symbol(i)' = IF starts'[i] = 1 THEN <<Pilot>>
                            ELSE Append(SymbolBefore(i)', num[i])
    <3>1. CASE i <= P
      <4>1. i \in 1..P /\ i \in 1..(P + 1)
        BY <1>3, <3>1
      <4>2. starts'[i] = starts[i] /\ Symbol(i)' = Symbol(i) /\ SymbolBefore(i)' = SymbolBefore(i)
        BY <1>8, <1>18, <1>22, <4>1
      <4> QED
        BY <1>3, <1>21, <4>1, <4>2 DEF Numbered
    <3>2. CASE i > P
      <4>1. PICK k \in 1..n : i = P + k
        <5>1. i - P \in 1..n /\ i = P + (i - P)
          BY <1>b, <1>8, <3>2
        <5> QED
          BY <5>1
      <4>2. starts'[i] = marked[k].trigger /\ Symbol(i)' = out[k]
        BY <1>8, <1>19, <4>1
      <4>3. marked[k].of = IF marked[k].trigger = 1 THEN Pilot ELSE num[i]
        BY <1>3, <1>4, <1>21, <4>1 DEF Numbered
      <4>4. SymbolBefore(i)' = IF k = 1 THEN d_last_symbol ELSE out[k - 1]
        BY <1>23, <4>1
      <4> QED
        BY <1>5, <4>2, <4>3, <4>4
    <3> QED
      BY <1>3, <1>8, <3>1, <3>2
  <2> QED
    BY <2>1, <2>2, <2>3, <2>4 DEF Numbered
<1>26. OnAir(num)'
  <2>1. Len(starts) <= Len(starts') /\ Len(symbols) <= Len(symbols')
    BY <1>3, <1>8, <1>11
  <2>2. starts # <<>> => starts'[1] = starts[1]
    <3>1. starts # <<>> => 1 \in 1..P
      BY <1>3
    <3> QED
      BY <1>8, <3>1
  <2>3. InFlight > 0 => Flag(1)' = Flag(1)
    BY <1>3, <1>17 DEF InFlight
  <2> QED
    BY <1>2, <1>11, <1>12, <1>14, <1>21, <2>1, <2>2, <2>3, OnAirKept
<1> QED
  BY <1>12, <1>14, <1>15, <1>16, <1>21, <1>24, <1>25, <1>26 DEF TInv
-----------------------------------------------------------------------------
(* ofdm_insert_pilot *)

PilotState == [start : {0, 1}, used : Nat, out : Seq(Item)]
PilotRun(after, n) ==
    /\ after \in [0..n -> PilotState]
    /\ after[0] = [start |-> d_start, used |-> 0, out |-> <<>>]
    /\ \A k \in 1..n : after[k] = PilotItem(after[k - 1])

LEMMA PilotItemType ==
    ASSUME Types, NEW c \in PilotState
    PROVE  PilotItem(c) \in PilotState
<1>1. /\ c = [start |-> c.start, used |-> c.used, out |-> c.out]
      /\ c.start \in {0, 1} /\ c.used \in Nat /\ c.out \in Seq(Item)
  BY DEF PilotState
<1>2. CASE PilotFirst(c)
  <2>1. [of |-> Pilot, trigger |-> 1] \in Item
    BY DEF Item, Pilot
  <2>2. Append(c.out, [of |-> Pilot, trigger |-> 1]) \in Seq(Item)
    BY <1>1, <2>1, AppendProperties
  <2>3. PilotItem(c) = [start |-> 1, used |-> c.used,
                        out |-> Append(c.out, [of |-> Pilot, trigger |-> 1])]
    BY <1>1, <1>2 DEF PilotItem
  <2> QED
    BY <1>1, <2>2, <2>3 DEF PilotState
<1>3. CASE ~PilotFirst(c)
  <2> DEFINE of == IF c.used < Len(vectors) THEN vectors[c.used + 1] ELSE Stale
  <2>1. of \in Int
    <3>1. vectors \in Seq(Int) /\ Len(vectors) \in Nat
      BY QueueLengths DEF Types
    <3>2. c.used < Len(vectors) => c.used + 1 \in 1..Len(vectors)
      BY <1>1, <3>1
    <3>3. c.used < Len(vectors) => vectors[c.used + 1] \in Int
      BY <3>1, <3>2, ElementOfSeq
    <3> QED
      BY <3>3 DEF Stale
  <2>2. PilotItem(c) = [start |-> 0, used |-> c.used + 1,
                        out |-> Append(c.out, [of |-> of, trigger |-> 0])]
    BY <1>1, <1>3 DEF PilotItem
  <2> HIDE DEF of
  <2>3. [of |-> of, trigger |-> 0] \in Item
    BY <2>1 DEF Item
  <2>4. Append(c.out, [of |-> of, trigger |-> 0]) \in Seq(Item)
    BY <1>1, <2>3, AppendProperties
  <2> QED
    BY <1>1, <2>2, <2>4 DEF PilotState
<1> QED
  BY <1>2, <1>3

LEMMA PilotRuns ==
    ASSUME Types, NEW n \in Nat
    PROVE  \E after : PilotRun(after, n) /\ PilotCall(n) = after[n]
<1> DEFINE start == [start |-> d_start, used |-> 0, out |-> <<>>]
           step == [p \in (1..n) \X PilotState |-> PilotItem(p[2])]
           After(h) == [k \in 0..n |-> IF k = 0 THEN start ELSE PilotItem(h[k - 1])]
<1>1. start \in PilotState
  BY DEF PilotState, Types
<1>2. step \in [(1..n) \X PilotState -> PilotState]
  BY PilotItemType
<1>3. PICK g \in [0..n -> PilotState] :
         g[0] = start /\ \A k \in 1..n : g[k] = step[<<k, g[k - 1]>>]
  <2>1. PICK S, base, do : S = PilotState /\ base = start /\ do = step
    OBVIOUS
  <2>2. base \in S
    BY <1>1, <2>1
  <2>3. do \in [(1..n) \X S -> S]
    BY <1>2, <2>1
  <2> HIDE DEF step, start
  <2>4. \E g \in [0..n -> S] : Recursive(g, base, n, do)
    BY <2>2, <2>3, Recursion
  <2> QED
    BY <2>1, <2>4 DEF Recursive
<1> HIDE DEF start
<1>4. g = After(g)
  <2>1. \A k \in 1..n : g[k] = PilotItem(g[k - 1])
    <3> SUFFICES ASSUME NEW k \in 1..n
                 PROVE  g[k] = PilotItem(g[k - 1])
      OBVIOUS
    <3>1. g[k - 1] \in PilotState
      BY <1>3
    <3> QED
      BY <1>3, <3>1
  <2>2. \A k \in 0..n : k # 0 => k \in 1..n
    OBVIOUS
  <2> QED
    BY <1>3, <2>1, <2>2
<1> DEFINE after == CHOOSE h : h = After(h)
<1>5. after = After(after)
  BY <1>4
<1>6. PilotCall(n) = after[n]
  BY DEF PilotCall, start
<1> HIDE DEF after
<1>7. after[0] = start /\ \A k \in 1..n : after[k] = PilotItem(after[k - 1])
  <2>1. 0 \in 0..n /\ \A k \in 1..n : k \in 0..n /\ k # 0
    OBVIOUS
  <2> QED
    BY <1>5, <2>1
<1>8. \A k \in 0..n : after[k] \in PilotState
  <2> DEFINE T == {k \in 0..n : after[k] \in PilotState}
  <2>1. 0 \in T
    BY <1>1, <1>7
  <2>2. \A k \in 1..n : k - 1 \in T => k \in T
    BY <1>7, PilotItemType
  <2> HIDE DEF T
  <2>3. \A k \in 0..n : k \in T
    BY <2>1, <2>2, Throughout
  <2> QED
    BY <2>3 DEF T
<1>9. after \in [0..n -> PilotState]
  BY <1>5, <1>8
<1> QED
  BY <1>6, <1>7, <1>9 DEF PilotRun, start

\* What the rounds of a call do: a pilot, or the next vector.
LEMMA PilotFacts ==
    ASSUME Types, Inputs, NEW n \in Nat, PilotRequires(n),
           NEW after, PilotRun(after, n)
    PROVE  /\ \A k \in 0..n :
                 /\ after[k].used \in 0..k /\ after[k].start \in {0, 1}
                 /\ after[k].start = 1 => /\ after[k].used < Len(triggers)
                                          /\ triggers[after[k].used + 1] = 1
           /\ after[n].out \in Seq(Item) /\ Len(after[n].out) = n
           /\ \A k \in 1..n :
                 IF PilotFirst(after[k - 1])
                 THEN /\ after[k].start = 1 /\ after[k].used = after[k - 1].used
                      /\ after[n].out[k] = [of |-> Pilot, trigger |-> 1]
                 ELSE /\ after[k].start = 0 /\ after[k].used = after[k - 1].used + 1
                      /\ after[n].out[k] = [of |-> Taken + after[k].used, trigger |-> 0]
<1>1. /\ \A k \in 0..n : /\ after[k] \in PilotState /\ after[k].start \in {0, 1}
                         /\ after[k].used \in Nat /\ after[k].out \in Seq(Item)
                         /\ after[k] = [start |-> after[k].start, used |-> after[k].used,
                                        out |-> after[k].out]
      /\ after[0] = [start |-> d_start, used |-> 0, out |-> <<>>]
      /\ \A k \in 1..n : after[k] = PilotItem(after[k - 1])
  <2>1. \A k \in 0..n : after[k] \in PilotState
    BY DEF PilotRun
  <2> QED
    BY <2>1 DEF PilotRun, PilotState
<1>2. /\ Len(vectors) \in Nat /\ Len(triggers) \in Nat /\ Taken \in Int
      /\ n <= Len(vectors) /\ n <= Len(triggers)
  BY QueueLengths DEF PilotRequires, Taken, Types
<1>3. \A k \in 1..n : k - 1 \in 0..n /\ k \in 0..n
  OBVIOUS
<1> DEFINE it(k) == IF PilotFirst(after[k - 1]) THEN [of |-> Pilot, trigger |-> 1]
                    ELSE [of |-> IF after[k - 1].used < Len(vectors)
                                 THEN vectors[after[k - 1].used + 1] ELSE Stale,
                          trigger |-> 0]
<1>4. \A k \in 1..n :
         /\ PilotFirst(after[k - 1]) =>
               after[k].start = 1 /\ after[k].used = after[k - 1].used
         /\ ~PilotFirst(after[k - 1]) =>
               after[k].start = 0 /\ after[k].used = after[k - 1].used + 1
         /\ after[k].out = Append(after[k - 1].out, it(k))
  <2> SUFFICES ASSUME NEW k \in 1..n
               PROVE  /\ PilotFirst(after[k - 1]) =>
                            after[k].start = 1 /\ after[k].used = after[k - 1].used
                      /\ ~PilotFirst(after[k - 1]) =>
                            after[k].start = 0 /\ after[k].used = after[k - 1].used + 1
                      /\ after[k].out = Append(after[k - 1].out, it(k))
    OBVIOUS
  <2>1. PICK c : c = after[k - 1]
    OBVIOUS
  <2>2. after[k] = PilotItem(c) /\ c = [start |-> c.start, used |-> c.used, out |-> c.out]
    BY <1>1, <1>3, <2>1
  <2>3. CASE PilotFirst(c)
    <3>1. after[k] = [start |-> 1, used |-> c.used,
                      out |-> Append(c.out, [of |-> Pilot, trigger |-> 1])]
      BY <2>2, <2>3 DEF PilotItem
    <3> QED
      BY <2>1, <2>3, <3>1
  <2>4. CASE ~PilotFirst(c)
    <3>1. after[k] = [start |-> 0, used |-> c.used + 1,
                      out |-> Append(c.out, [of |-> IF c.used < Len(vectors)
                                                    THEN vectors[c.used + 1] ELSE Stale,
                                             trigger |-> 0])]
      BY <2>2, <2>4 DEF PilotItem
    <3> QED
      BY <2>1, <2>4, <3>1
  <2> QED
    BY <2>3, <2>4
<1>5. ASSUME NEW k \in 1..n
      PROVE  /\ it(k) \in Item
             /\ ~PilotFirst(after[k - 1]) /\ after[k - 1].used < n =>
                   it(k) = [of |-> Taken + (after[k - 1].used + 1), trigger |-> 0]
  <2>1. PICK u : u = after[k - 1].used
    OBVIOUS
  <2>2. u \in Nat
    BY <1>1, <1>3, <2>1
  <2>3. u < Len(vectors) => u + 1 \in 1..Len(vectors)
    BY <1>2, <2>2
  <2>4. u < Len(vectors) => vectors[u + 1] \in Int /\ vectors[u + 1] = Taken + (u + 1)
    BY <2>3, ElementOfSeq DEF Inputs, Types
  <2>5. (IF u < Len(vectors) THEN vectors[u + 1] ELSE Stale) \in Int
    BY <2>4 DEF Stale
  <2>6. it(k) \in Item
    BY <2>1, <2>5 DEF Item, Pilot
  <2>7. u < n => u < Len(vectors)
    BY <1>2, <2>2
  <2> QED
    BY <2>1, <2>4, <2>6, <2>7
<1> HIDE DEF it
<1> DEFINE Good(k) ==
              /\ after[k].used \in 0..k
              /\ after[k].start = 1 => /\ after[k].used < Len(triggers)
                                       /\ triggers[after[k].used + 1] = 1
              /\ Len(after[k].out) = k
              /\ \A j \in 1..k : after[k].out[j] = it(j)
           T == {k \in 0..n : Good(k)}
<1>6. 0 \in T
  <2>1. after[0].used = 0 /\ after[0].start = d_start /\ Len(after[0].out) = 0
    BY <1>1
  <2>2. d_start = 1 => 0 < Len(triggers) /\ triggers[0 + 1] = 1
    <3>1. d_start = 1 => triggers # <<>> /\ triggers[1] = 1
      BY DEF Inputs
    <3>2. triggers # <<>> => Len(triggers) # 0
      BY EmptySeq DEF Types
    <3> QED
      BY <1>2, <3>1, <3>2
  <2> QED
    BY <2>1, <2>2
<1>7. ASSUME NEW k \in 1..n, k - 1 \in T
      PROVE  k \in T
  <2>1. PICK u, out : u = after[k - 1].used /\ out = after[k - 1].out
    OBVIOUS
  <2>2. /\ u \in 0..(k - 1) /\ out \in Seq(Item) /\ Len(out) = k - 1
        /\ \A j \in 1..(k - 1) : out[j] = it(j)
    BY <1>1, <1>3, <1>7, <2>1
  <2>a. /\ PilotFirst(after[k - 1]) => after[k].start = 1 /\ after[k].used = u
        /\ ~PilotFirst(after[k - 1]) => after[k].start = 0 /\ after[k].used = u + 1
    BY <1>4, <2>1
  <2>b. u \in 0..(k - 1)
    BY <2>2
  <2>3. after[k].used \in 0..k
    BY <2>a, <2>b
  <2>4. after[k].start = 1 => /\ after[k].used < Len(triggers)
                              /\ triggers[after[k].used + 1] = 1
    <3>1. PilotFirst(after[k - 1]) => triggers[u + 1] = 1
      BY <2>1 DEF PilotFirst
    <3>2. u < Len(triggers)
      BY <1>2, <2>b
    <3> QED
      BY <2>a, <3>1, <3>2
  <2>5. after[k].out = Append(out, it(k)) /\ it(k) \in Item
    BY <1>4, <1>5, <2>1
  <2>6. /\ Len(after[k].out) = Len(out) + 1 /\ after[k].out[Len(out) + 1] = it(k)
        /\ \A j \in 1..Len(out) : after[k].out[j] = out[j]
    BY <2>2, <2>5, AppendProperties
  <2>7. Len(after[k].out) = k /\ after[k].out[k] = it(k)
    BY <2>2, <2>6
  <2>8. \A j \in 1..k : after[k].out[j] = it(j)
    <3>1. \A j \in 1..k : j \in 1..(k - 1) \/ j = k
      OBVIOUS
    <3> QED
      BY <2>2, <2>6, <2>7, <3>1
  <2> QED
    BY <2>3, <2>4, <2>7, <2>8
<1>8. \A k \in 0..n : Good(k)
  <2> HIDE DEF Good
  <2>1. \A k \in 0..n : k \in T
    <3> HIDE DEF T
    <3> QED
      BY <1>6, <1>7, Throughout
  <2> QED
    BY <2>1
<1>9. after[n].out \in Seq(Item) /\ Len(after[n].out) = n
  <2>1. Good(n) /\ n \in 0..n
    BY <1>8
  <2> QED
    BY <1>1, <2>1
<1>10. ASSUME NEW k \in 1..n
       PROVE  /\ after[k - 1].used < n
              /\ after[n].out[k] = it(k)
  <2>1. Good(k - 1) /\ Good(n)
    BY <1>3, <1>8
  <2> QED
    BY <2>1
<1>11. ASSUME NEW k \in 1..n
       PROVE  IF PilotFirst(after[k - 1])
              THEN /\ after[k].start = 1 /\ after[k].used = after[k - 1].used
                   /\ after[n].out[k] = [of |-> Pilot, trigger |-> 1]
              ELSE /\ after[k].start = 0 /\ after[k].used = after[k - 1].used + 1
                   /\ after[n].out[k] = [of |-> Taken + after[k].used, trigger |-> 0]
  <2>1. CASE PilotFirst(after[k - 1])
    <3>1. it(k) = [of |-> Pilot, trigger |-> 1]
      BY <2>1 DEF it
    <3> QED
      BY <1>4, <1>10, <2>1, <3>1
  <2>2. CASE ~PilotFirst(after[k - 1])
    BY <1>4, <1>5, <1>10, <2>2
  <2> QED
    BY <2>1, <2>2
<1>12. \A k \in 0..n :
          /\ after[k].used \in 0..k /\ after[k].start \in {0, 1}
          /\ after[k].start = 1 => /\ after[k].used < Len(triggers)
                                   /\ triggers[after[k].used + 1] = 1
  BY <1>1, <1>8
<1> HIDE DEF Good
<1> QED
  BY <1>9, <1>11, <1>12

LEMMA PilotInvariant == TInv /\ InsertPilot => TInv'
<1> SUFFICES ASSUME TInv, InsertPilot
             PROVE  TInv'
  OBVIOUS
<1>1. PICK n \in 1..(Room - Len(marked)) :
         /\ PilotRequires(n)
         /\ LET call == PilotCall(n)
            IN  /\ d_start' = call.start
                /\ marked' = marked \o call.out
                /\ vectors' = SubSeq(vectors, call.used + 1, Len(vectors))
                /\ triggers' = SubSeq(triggers, call.used + 1, Len(triggers))
         /\ UNCHANGED <<source, d_last_symbol, products, null, air>>
  BY DEF InsertPilot
<1>2. Types /\ Lengths /\ Inputs /\ Chained
  BY DEF TInv
<1>3. PICK M, P, F, V, G, T \in Nat :
         /\ M = Len(marked) /\ P = Len(starts) /\ F = InFlight /\ F = P + M
         /\ V = Len(vectors) /\ G = Len(triggers) /\ T = Taken
  <2>1. Taken \in Nat
    BY <1>2, QueueLengths DEF Inputs, Types, Taken
  <2> QED
    BY <1>2, <2>1, QueueLengths DEF InFlight
<1>4. n \in Nat /\ n >= 1 /\ n <= V /\ n <= G /\ M + n <= Room /\ Room \in Nat
  BY <1>1, <1>2, <1>3, QueueLengths, SMTT(20) DEF PilotRequires
<1>5. PICK after : PilotRun(after, n) /\ PilotCall(n) = after[n]
  BY <1>2, <1>4, PilotRuns
<1>6. /\ \A k \in 0..n :
            /\ after[k].used \in 0..k /\ after[k].start \in {0, 1}
            /\ after[k].start = 1 => /\ after[k].used < Len(triggers)
                                     /\ triggers[after[k].used + 1] = 1
      /\ after[n].out \in Seq(Item) /\ Len(after[n].out) = n
      /\ \A k \in 1..n :
            IF PilotFirst(after[k - 1])
            THEN /\ after[k].start = 1 /\ after[k].used = after[k - 1].used
                 /\ after[n].out[k] = [of |-> Pilot, trigger |-> 1]
            ELSE /\ after[k].start = 0 /\ after[k].used = after[k - 1].used + 1
                 /\ after[n].out[k] = [of |-> Taken + after[k].used, trigger |-> 0]
  BY <1>1, <1>2, <1>4, <1>5, PilotFacts, SMTT(20)
<1>7. PICK out, u, s : out = after[n].out /\ u = after[n].used /\ s = after[n].start
  OBVIOUS
<1>8. /\ u \in 0..n /\ s \in {0, 1} /\ out \in Seq(Item) /\ Len(out) = n
      /\ s = 1 => u < G /\ triggers[u + 1] = 1
  BY <1>3, <1>4, <1>6, <1>7
<1>9. /\ d_start' = s /\ marked' = marked \o out
      /\ vectors' = SubSeq(vectors, u + 1, Len(vectors))
      /\ triggers' = SubSeq(triggers, u + 1, Len(triggers))
  BY <1>1, <1>5, <1>7
<1>10. UNCHANGED <<frame_start, sent, given, d_last_symbol, products, symbols, starts,
                   d_ns_added, air>>
  BY <1>1 DEF source, null
<1>11. /\ vectors' \in Seq(Int) /\ Len(vectors') = V - u
       /\ \A i \in 1..(V - u) : vectors'[i] = vectors[u + i]
  <2>1. vectors \in Seq(Int) /\ u \in 0..Len(vectors)
    BY <1>2, <1>3, <1>4, <1>8 DEF Types
  <2> QED
    BY <1>3, <1>9, <2>1, Dropped
<1>12. /\ triggers' \in Seq({0, 1}) /\ Len(triggers') = G - u
       /\ \A i \in 1..(G - u) : triggers'[i] = triggers[u + i]
  <2>1. triggers \in Seq({0, 1}) /\ u \in 0..Len(triggers)
    BY <1>2, <1>3, <1>4, <1>8 DEF Types
  <2> QED
    BY <1>3, <1>9, <2>1, Dropped
<1>13. /\ marked' \in Seq(Item) /\ Len(marked') = M + n
       /\ \A i \in 1..M : marked'[i] = marked[i]
       /\ \A k \in 1..n : marked'[M + k] = out[k]
  <2>1. marked \in Seq(Item) /\ out \in Seq(Item) /\ marked' = marked \o out
    BY <1>2, <1>8, <1>9 DEF Types
  <2>2. marked' \in Seq(Item)
    BY <2>1, ConcatProperties
  <2>3. Len(marked') = Len(marked) + Len(out)
    BY <2>1
  <2>4. \A i \in 1..Len(marked) : marked'[i] = marked[i]
    BY <2>1
  <2>5. \A k \in 1..Len(out) : marked'[Len(marked) + k] = out[k]
    BY <2>1
  <2> QED
    BY <1>3, <1>8, <2>2, <2>3, <2>4, <2>5
<1>14. Types'
  BY <1>2, <1>8, <1>9, <1>10, <1>11, <1>12, <1>13 DEF Types
<1>15. Lengths'
  <2>1. V <= Room /\ G <= Room
    BY <1>2, <1>3 DEF Lengths
  <2>2. V - u <= Room /\ G - u <= Room
    BY <1>3, <1>4, <1>8, <2>1
  <2> QED
    BY <1>2, <1>4, <1>10, <1>11, <1>12, <1>13, <2>2 DEF Lengths
<1>16. Taken' = T + u /\ InFlight' = F + n
  <2>1. given \in Nat /\ sent \in Nat /\ T = given - G
    BY <1>2, <1>3, QueueLengths DEF Types, Taken
  <2>2. Taken' = T + u
    BY <1>3, <1>8, <1>10, <1>12, <2>1 DEF Taken
  <2>3. InFlight' = F + n
    BY <1>3, <1>4, <1>10, <1>13 DEF InFlight
  <2> QED
    BY <2>2, <2>3
<1>17. Inputs'
  <2>1. sent \in Nat /\ sent - V = T
    BY <1>2, <1>3, QueueLengths DEF Types, Inputs
  <2>2. T + u >= 0 /\ sent' - Len(vectors') = T + u
    BY <1>3, <1>8, <1>10, <1>11, <2>1
  <2>3. \A i \in 1..Len(vectors') : vectors'[i] = T + u + i
    <3>1. \A i \in 1..(V - u) : u + i \in 1..V /\ T + (u + i) = T + u + i
      BY <1>3, <1>8
    <3>2. 1..Len(vectors') = 1..(V - u)
      BY <1>11
    <3> QED
      BY <1>2, <1>3, <1>11, <3>1, <3>2 DEF Inputs
  <2>4. \A i \in 1..Len(triggers') : triggers'[i] = frame_start'[T + u + i]
    <3>1. \A i \in 1..Len(triggers') : u + i \in 1..G /\ T + (u + i) = T + u + i
      BY <1>3, <1>8, <1>12
    <3> QED
      BY <1>2, <1>3, <1>10, <1>12, <3>1 DEF Inputs
  <2>5. d_start' = 1 => triggers' # <<>> /\ triggers'[1] = 1
    <3>1. s = 1 => 1 \in 1..(G - u)
      BY <1>3, <1>8
    <3>2. s = 1 => triggers'[1] = 1 /\ Len(triggers') # 0
      BY <1>3, <1>8, <1>12, <3>1
    <3> QED
      BY <1>9, <3>2
  <2> QED
    BY <1>16, <2>2, <2>3, <2>4, <2>5 DEF Inputs
<1>18. \A k \in 1..n :
          /\ out[k].trigger = 1 => /\ after[k].start = 1 /\ after[k - 1].start = 0
                                   /\ after[k].used = after[k - 1].used
                                   /\ out[k].of = Pilot
          /\ out[k].trigger = 0 => /\ after[k].start = 0
                                   /\ after[k].used = after[k - 1].used + 1
                                   /\ out[k].of = T + after[k].used
          /\ out[k].trigger \in {0, 1}
  <2> SUFFICES ASSUME NEW k \in 1..n
               PROVE  /\ out[k].trigger = 1 =>
                            /\ after[k].start = 1 /\ after[k - 1].start = 0
                            /\ after[k].used = after[k - 1].used
                            /\ out[k].of = Pilot
                      /\ out[k].trigger = 0 =>
                            /\ after[k].start = 0
                            /\ after[k].used = after[k - 1].used + 1
                            /\ out[k].of = T + after[k].used
                      /\ out[k].trigger \in {0, 1}
    OBVIOUS
  <2>1. CASE PilotFirst(after[k - 1])
    <3>1. /\ after[k].start = 1 /\ after[k].used = after[k - 1].used
          /\ out[k] = [of |-> Pilot, trigger |-> 1] /\ after[k - 1].start = 0
      BY <1>6, <1>7, <2>1 DEF PilotFirst
    <3> QED
      BY <3>1
  <2>2. CASE ~PilotFirst(after[k - 1])
    <3>1. /\ after[k].start = 0 /\ after[k].used = after[k - 1].used + 1
          /\ out[k] = [of |-> T + after[k].used, trigger |-> 0]
      BY <1>3, <1>6, <1>7, <2>2
    <3> QED
      BY <3>1
  <2> QED
    BY <2>1, <2>2
<1>19. /\ after[0].used = 0 /\ after[0].start = d_start /\ after[n].used = u /\ after[n].start = s
       /\ \A k \in 0..n : after[k].used \in 0..k /\ after[k].start \in {0, 1}
  BY <1>5, <1>6, <1>7 DEF PilotRun
<1>20. out[1].trigger = 0 => d_start = 1 \/ T > 0
  <2>1. 1 \in 1..n /\ 1 - 1 = 0 /\ 0 + 1 = 1
    BY <1>4
  <2>2. out[1].trigger = 0 /\ d_start = 0 => triggers[1] # 1
    <3>1. PilotFirst(after[0]) => out[1].trigger = 1
      <4>1. PilotFirst(after[1 - 1]) => out[1] = [of |-> Pilot, trigger |-> 1]
        BY <1>6, <1>7, <2>1
      <4> QED
        BY <4>1
    <3> QED
      BY <1>19, <2>1, <3>1 DEF PilotFirst
  <2>3. triggers[1] = frame_start[T + 1] /\ frame_start[1] = 1
    <3>1. 1 \in 1..Len(triggers)
      BY <1>3, <1>4
    <3> QED
      BY <1>2, <1>3, <3>1 DEF Inputs, Types
  <2> QED
    BY <1>2, <1>3, <2>2, <2>3 DEF Types
<1>21. /\ \A i \in 1..F : Flag(i)' = Flag(i)
       /\ \A k \in 1..n : Flag(F + k)' = out[k].trigger
       /\ \A i \in Nat : Symbol(i)' = Symbol(i) /\ SymbolBefore(i)' = SymbolBefore(i)
  <2>1. ASSUME NEW i \in 1..F
        PROVE  Flag(i)' = Flag(i)
    <3>1. i > P => i - P \in 1..M
      BY <1>3
    <3>2. i > P => marked'[i - P] = marked[i - P]
      BY <1>13, <3>1
    <3>3. starts' = starts /\ Len(starts) = P /\ (i <= P \/ i > P)
      BY <1>3, <1>10
    <3> QED
      BY <3>2, <3>3 DEF Flag
  <2>2. ASSUME NEW k \in 1..n
        PROVE  Flag(F + k)' = out[k].trigger
    <3>1. F + k - P = M + k /\ ~(F + k <= P)
      BY <1>3
    <3>2. marked'[M + k] = out[k] /\ Len(starts') = P
      BY <1>3, <1>10, <1>13
    <3>3. PICK j : j = F + k
      OBVIOUS
    <3>4. Flag(j)' = marked'[M + k].trigger
      BY <3>1, <3>2, <3>3 DEF Flag
    <3> QED
      BY <3>2, <3>3, <3>4
  <2>3. \A i : Symbol(i)' = Symbol(i)
    BY <1>10 DEF Symbol
  <2>4. \A i : SymbolBefore(i)' = SymbolBefore(i)
    BY <1>10, <2>3 DEF SymbolBefore
  <2> QED
    BY <2>1, <2>2, <2>3, <2>4
<1>22. \A i \in 1..(F + n) : i \in 1..F \/ \E k \in 1..n : i = F + k
  <2> SUFFICES ASSUME NEW i \in 1..(F + n), i \notin 1..F
               PROVE  \E k \in 1..n : i = F + k
    OBVIOUS
  <2>1. i - F \in 1..n /\ i = F + (i - F)
    BY <1>4
  <2> QED
    BY <2>1
<1>23. Chained'
  <2>1. d_last_symbol' = SymbolBefore(Len(starts) + 1)'
    <3>1. d_last_symbol = SymbolBefore(P + 1) /\ P + 1 \in Nat
      BY <1>2, <1>3 DEF Chained
    <3>2. d_last_symbol' = SymbolBefore(P + 1)'
      BY <1>10, <1>21, <3>1
    <3>3. Len(starts') = P
      BY <1>3, <1>10
    <3> QED
      BY <3>2, <3>3
  <2>2. ASSUME NEW i \in 1..(F + n - 1), Flag(i)' = 1
        PROVE  Flag(i + 1)' = 0
    <3>1. CASE i < F
      <4>1. i \in 1..F /\ i + 1 \in 1..F /\ i \in 1..(F - 1)
        BY <1>3, <3>1
      <4>2. Flag(i) = 1 /\ Flag(i + 1)' = Flag(i + 1)
        BY <1>21, <2>2, <4>1
      <4> QED
        BY <1>2, <1>3, <4>1, <4>2 DEF Chained
    <3>2. CASE i = F
      <4>1. F \in 1..F /\ 1 \in 1..n /\ 0 = 1 - 1
        BY <1>3, <1>4, <3>2
      <4>2. Flag(F) = 1
        BY <1>21, <2>2, <3>2, <4>1
      <4>3. d_start = 1
        BY <1>2, <1>3, <4>1, <4>2 DEF Chained
      <4>4. out[1].trigger = 0
        BY <1>18, <1>19, <4>1, <4>3
      <4> QED
        BY <1>21, <3>2, <4>1, <4>4
    <3>3. CASE i > F
      <4>a. i \in 1..(F + n) /\ i \notin 1..F
        BY <1>4, <3>3
      <4>1. PICK k \in 1..n : i = F + k
        BY <1>22, <4>a
      <4>2. k + 1 \in 1..n /\ k + 1 - 1 = k /\ i + 1 = F + (k + 1)
        BY <1>3, <1>4, <4>1
      <4>3. out[k].trigger = 1
        BY <1>21, <2>2, <4>1
      <4>4. out[k + 1].trigger = 0
        BY <1>18, <4>2, <4>3, SMTT(20)
      <4> QED
        BY <1>21, <4>2, <4>4
    <3> QED
      BY <1>3, <3>1, <3>2, <3>3
  <2>3. Flag(F + n)' = 1 <=> d_start' = 1
    <3>1. n \in 1..n
      BY <1>4
    <3>2. Flag(F + n)' = out[n].trigger
      BY <1>21, <3>1
    <3>3. out[n].trigger = 1 <=> s = 1
      BY <1>18, <1>19, <3>1
    <3> QED
      BY <1>9, <3>2, <3>3
  <2>4. Flag(InFlight)' = Flag(F + n)'
    <3>1. PICK j : j = F + n
      OBVIOUS
    <3>2. InFlight' = j
      BY <1>16, <3>1
    <3> QED
      BY <3>1, <3>2
  <2> QED
    BY <1>16, <2>1, <2>2, <2>3, <2>4 DEF Chained
<1>24. PICK num : /\ num \in [0..InFlight -> 0..NumVectors]
                  /\ Numbered(num) /\ OnAir(num)
  BY DEF TInv
<1> DEFINE counts == [i \in 0..(F + n) |-> IF i <= F THEN num[i] ELSE T + after[i - F].used]
<1>25. /\ \A i \in 0..F : counts[i] = num[i]
       /\ \A k \in 0..n : counts[F + k] = T + after[k].used
       /\ counts \in [0..InFlight' -> 0..NumVectors]
  <2>1. \A i \in 0..F : counts[i] = num[i]
    BY <1>3
  <2>2. num[F] = T
    BY <1>3, <1>24 DEF Numbered
  <2>3. ASSUME NEW k \in 0..n
        PROVE  counts[F + k] = T + after[k].used
    <3>1. CASE k = 0
      <4>1. F + k \in 0..F /\ F + k = F
        BY <1>3, <3>1
      <4> QED
        BY <1>3, <1>19, <2>1, <2>2, <3>1, <4>1
    <3>2. CASE k # 0
      <4>1. F + k \in 0..(F + n) /\ ~(F + k <= F) /\ F + k - F = k
        BY <1>3, <1>4, <3>2
      <4> QED
        BY <4>1
    <3> QED
      BY <3>1, <3>2
  <2>4. \A k \in 0..n : T + after[k].used \in 0..NumVectors
    <3>1. given \in 0..NumVectors /\ NumVectors \in Nat /\ T = given - G
      BY <1>2, <1>3, QueueLengths DEF Types, Taken
    <3>2. ASSUME NEW k \in 0..n
          PROVE  T + after[k].used \in 0..NumVectors
      <4>1. PICK v \in 0..k : v = after[k].used
        BY <1>19
      <4>2. T + v \in 0..NumVectors
        BY <1>4, <3>1
      <4> QED
        BY <4>1, <4>2
    <3> QED
      BY <3>2
  <2>5. \A i \in 0..(F + n) : counts[i] \in 0..NumVectors
    <3> SUFFICES ASSUME NEW i \in 0..(F + n)
                 PROVE  counts[i] \in 0..NumVectors
      OBVIOUS
    <3>1. CASE i <= F
      BY <1>3, <1>24, <2>1, <3>1
    <3>2. CASE i > F
      <4>1. i - F \in 0..n /\ ~(i <= F)
        BY <1>3, <1>4, <3>2
      <4> QED
        BY <2>4, <4>1
    <3> QED
      BY <1>3, <3>1, <3>2
  <2>6. counts \in [0..(F + n) -> 0..NumVectors]
    BY <2>5
  <2> QED
    BY <1>16, <2>1, <2>3, <2>6
<1> HIDE DEF counts
<1>26. Numbered(counts)'
  <2>1. counts[F + n] = T + u
    BY <1>4, <1>19, <1>25
  <2>2. ASSUME NEW i \in 1..(F + n)
        PROVE  counts[i] = IF Flag(i)' = 1 THEN counts[i - 1] ELSE counts[i - 1] + 1
    <3>1. CASE i \in 1..F
      <4>1. i \in 0..F /\ i - 1 \in 0..F
        BY <1>3, <3>1
      <4>2. num[i] = IF Flag(i) = 1 THEN num[i - 1] ELSE num[i - 1] + 1
        BY <1>3, <1>24, <3>1 DEF Numbered
      <4> QED
        BY <1>21, <1>25, <3>1, <4>1, <4>2
    <3>2. CASE \E k \in 1..n : i = F + k
      <4>1. PICK k \in 1..n : i = F + k
        BY <3>2
      <4>2. k \in 0..n /\ k - 1 \in 0..n /\ i - 1 = F + (k - 1)
        BY <1>3, <1>4, <4>1
      <4>3. counts[i] = T + after[k].used /\ counts[i - 1] = T + after[k - 1].used
        BY <1>25, <4>1, <4>2
      <4>4. after[k].used = IF out[k].trigger = 1 THEN after[k - 1].used ELSE after[k - 1].used + 1
        BY <1>18
      <4>5. Flag(i)' = out[k].trigger
        BY <1>21, <4>1
      <4>6. after[k - 1].used \in Int
        BY <1>19, <4>2
      <4> QED
        BY <1>3, <4>3, <4>4, <4>5, <4>6, SMTT(20)
    <3> QED
      BY <1>22, <3>1, <3>2
  <2>3. ASSUME NEW k \in 1..(M + n)
        PROVE  marked'[k].of = IF marked'[k].trigger = 1 THEN Pilot ELSE counts[P + k]
    <3>1. CASE k <= M
      <4>1. k \in 1..M /\ P + k \in 0..F
        BY <1>3, <3>1
      <4> QED
        BY <1>3, <1>13, <1>24, <1>25, <4>1 DEF Numbered
    <3>2. CASE k > M
      <4>1. k - M \in 1..n /\ k - M \in 0..n /\ k = M + (k - M) /\ P + k = F + (k - M)
        BY <1>3, <1>4, <3>2
      <4>2. marked'[k] = out[k - M] /\ counts[P + k] = T + after[k - M].used
        BY <1>13, <1>25, <4>1
      <4> QED
        BY <1>18, <4>1, <4>2
    <3> QED
      BY <1>3, <3>1, <3>2
  <2>4. ASSUME NEW i \in 1..P
        PROVE  Symbol(i)' = IF starts'[i] = 1 THEN <<Pilot>>
                            ELSE Append(SymbolBefore(i)', counts[i])
    <3>1. i \in 0..F /\ i \in Nat
      BY <1>3
    <3> QED
      BY <1>3, <1>10, <1>21, <1>24, <1>25, <3>1 DEF Numbered
  <2>5. Len(starts') = P
    BY <1>3, <1>10
  <2> QED
    BY <1>13, <1>16, <2>1, <2>2, <2>3, <2>4, <2>5 DEF Numbered
<1>27. OnAir(counts)'
  <2>1. counts[0] = num[0]
    BY <1>3, <1>25
  <2>2. /\ Continues(air, 0, d_ns_added) /\ d_ns_added \in 0..NsLength /\ Sound(air)
        /\ Cardinality(DataEnds(Len(air))) = num[0]
    BY <1>24 DEF OnAir
  <2>3. Continues(air, 0, d_ns_added)'
    <3>1. SymbolBefore(1)' = SymbolBefore(1)
      BY <1>21
    <3>2. 1 \in 1..n /\ 1 - 1 = 0 /\ F + 1 = InFlight + 1
      BY <1>3, <1>4
    <3>3. Flag(1)' = IF F > 0 THEN Flag(1) ELSE out[1].trigger
      <4>1. CASE F > 0
        BY <1>3, <1>21, <4>1
      <4>2. CASE F = 0
        BY <1>21, <3>2, <4>2
      <4> QED
        BY <1>3, <4>1, <4>2
    <3>4. F = 0 /\ d_start = 1 => out[1].trigger = 0
      BY <1>18, <1>19, <3>2
    <3>5. InFlight' > 0 /\ (0 < InFlight <=> F > 0) /\ (0 = InFlight <=> F = 0)
      BY <1>3, <1>4, <1>16
    <3> QED
      BY <1>3, <1>10, <1>20, <2>2, <3>1, <3>3, <3>4, <3>5 DEF Continues
  <2>4. Cardinality(DataEnds(Len(air)))' = num[0]
    BY <1>10, <2>2 DEF DataEnds
  <2> QED
    BY <1>10, <2>1, <2>2, <2>3, <2>4 DEF OnAir
<1> QED
  BY <1>14, <1>15, <1>17, <1>23, <1>25, <1>26, <1>27 DEF TInv
-----------------------------------------------------------------------------
(* insert_null_symbol: what a round adds to the samples A. *)

Grown(A, C) ==
    /\ A \in Seq(Sample) /\ C \in Seq(Sample) /\ Len(A) <= Len(C)
    /\ \A i \in 1..Len(A) : C[i] = A[i]

\* The samples before stay sound, whatever is added.
LEMMA OldSamples ==
    ASSUME NEW A, NEW C, Grown(A, C), Sound(A)
    PROVE  /\ \A last \in 0..Len(A) : DataEndsOf(C, last) = DataEndsOf(A, last)
           /\ \A p \in 1..Len(A) : p \in DataEndsOf(C, p) => GetsVector(C, p)
           /\ \A p \in 1..Len(A) : NullFirst(C, p)
<1>1. Len(A) \in Nat /\ {NsLength, SymbolLength} \subseteq Nat \ {0}
  BY LenProperties, TransmitterAssumption DEF Grown
<1>2. \A i \in 1..Len(A) : C[i] = A[i]
  BY DEF Grown
<1>3. ASSUME NEW last \in 0..Len(A)
      PROVE  DataEndsOf(C, last) = DataEndsOf(A, last)
  <2>1. \A p \in 1..last : p \in 1..Len(A)
    BY <1>1
  <2> QED
    BY <1>2, <2>1 DEF DataEndsOf
<1>4. ASSUME NEW p \in 1..Len(A), p \in DataEndsOf(C, p)
      PROVE  GetsVector(C, p)
  <2>1. p \in DataEndsOf(A, Len(A)) /\ p \in 0..Len(A) /\ 1..p \subseteq 1..Len(A)
    <3>1. p \in 0..Len(A) /\ 1..p \subseteq 1..Len(A)
      BY <1>1
    <3>2. p \in DataEndsOf(A, p)
      BY <1>3, <1>4, <3>1
    <3> QED
      BY <3>1, <3>2 DEF DataEndsOf
  <2>2. GetsVector(A, p)
    BY <2>1 DEF Sound
  <2>3. p > SymbolLength /\ p - SymbolLength \in 1..Len(A)
    BY <1>1, <2>2 DEF GetsVector
  <2>4. C[p] = A[p] /\ C[p - SymbolLength] = A[p - SymbolLength]
    BY <1>2, <2>3
  <2> QED
    BY <1>3, <2>1, <2>2, <2>3, <2>4 DEF GetsVector
<1>5. ASSUME NEW p \in 1..Len(A)
      PROVE  NullFirst(C, p)
  <2>1. NullFirst(A, p) /\ C[p] = A[p]
    BY <1>2 DEF Sound
  <2>2. p > 1 => p - 1 \in 1..Len(A) /\ C[p - 1] = A[p - 1]
    BY <1>1, <1>2
  <2>3. p > NsLength =>
           \A i \in 1..NsLength : C[p - 1 - NsLength + i] = A[p - 1 - NsLength + i]
    <3>1. p > NsLength => \A i \in 1..NsLength : p - 1 - NsLength + i \in 1..Len(A)
      BY <1>1
    <3> QED
      BY <1>2, <3>1
  <2>4. p > NsLength + 1 => C[p - 1 - NsLength] = A[p - 1 - NsLength]
    <3>1. p > NsLength + 1 => p - 1 - NsLength \in 1..Len(A)
      BY <1>1
    <3> QED
      BY <1>2, <3>1
  <2> QED
    BY <2>1, <2>2, <2>3, <2>4 DEF NullFirst
<1> QED
  BY <1>3, <1>4, <1>5

LEMMA NewSamples ==
    ASSUME NEW A, NEW C, Grown(A, C), Sound(A),
           \A p \in (Len(A) + 1)..Len(C) :
              NullFirst(C, p) /\ (p \in DataEndsOf(C, p) => GetsVector(C, p))
    PROVE  Sound(C)
<1>1. Len(A) \in Nat /\ Len(C) \in Nat
  BY LenProperties DEF Grown
<1>2. \A p \in 1..Len(C) : p \in 1..Len(A) \/ p \in (Len(A) + 1)..Len(C)
  BY <1>1
<1>3. \A p \in 1..Len(C) : NullFirst(C, p) /\ (p \in DataEndsOf(C, p) => GetsVector(C, p))
  BY <1>2, OldSamples
<1>4. \A p \in DataEndsOf(C, Len(C)) : p \in 1..Len(C) /\ p \in DataEndsOf(C, p)
  BY <1>1 DEF DataEndsOf
<1> QED
  BY <1>3, <1>4 DEF Sound

\* Samples none of which ends a data symbol leave their number as it is.
LEMMA NoDataEnds ==
    ASSUME NEW A, NEW C, Grown(A, C), Sound(A),
           \A p \in (Len(A) + 1)..Len(C) : p \notin DataEndsOf(C, p)
    PROVE  DataEndsOf(C, Len(C)) = DataEndsOf(A, Len(A))
<1>1. Len(A) \in Nat /\ Len(C) \in Nat /\ Len(A) <= Len(C)
  BY LenProperties DEF Grown
<1>2. DataEndsOf(C, Len(A)) = DataEndsOf(A, Len(A))
  <2>1. Len(A) \in 0..Len(A)
    BY <1>1
  <2> QED
    BY <2>1, OldSamples
<1>3. DataEndsOf(C, Len(C)) = DataEndsOf(C, Len(A))
  <2>1. \A p \in 1..Len(C) : p \in 1..Len(A) \/ p \in (Len(A) + 1)..Len(C)
    BY <1>1
  <2>2. \A p \in 1..Len(A) : p \in 1..Len(C)
    BY <1>1
  <2>3. \A p \in (Len(A) + 1)..Len(C) : p \in 1..p
    BY <1>1
  <2> QED
    BY <2>1, <2>2, <2>3 DEF DataEndsOf
<1> QED
  BY <1>2, <1>3

\* A round of silence.
LEMMA SilenceAdded ==
    ASSUME NEW A, NEW C, Grown(A, C), Sound(A),
           \A p \in (Len(A) + 1)..Len(C) : C[p] = Silence
    PROVE  Sound(C) /\ DataEndsOf(C, Len(C)) = DataEndsOf(A, Len(A))
<1>1. {NsLength, SymbolLength} \subseteq Nat \ {0}
  BY TransmitterAssumption
<1>2. \A p \in (Len(A) + 1)..Len(C) : C[p].at = 0
  BY DEF Silence
<1>3. \A p \in (Len(A) + 1)..Len(C) : NullFirst(C, p) /\ p \notin DataEndsOf(C, p)
  BY <1>1, <1>2 DEF NullFirst, DataEndsOf
<1> QED
  BY <1>3, NewSamples, NoDataEnds

\* A round of one symbol.
WithSymbol(A, C, symbol) ==
    /\ Grown(A, C) /\ Len(C) = Len(A) + SymbolLength
    /\ \A k \in 1..SymbolLength : C[Len(A) + k] = [of |-> symbol, at |-> k]

LEMMA SymbolEnds ==
    ASSUME NEW A, NEW C, NEW symbol, WithSymbol(A, C, symbol)
    PROVE  /\ C # <<>> /\ Ends(C) /\ C[Len(C)].of = symbol
           /\ \A p \in (Len(A) + 1)..Len(C) :
                 /\ C[p].of = symbol /\ C[p].at = p - Len(A)
                 /\ p > Len(A) + 1 => C[p - 1] = [C[p] EXCEPT !.at = @ - 1]
           /\ Len(A) \in Nat /\ Len(C) = Len(A) + SymbolLength /\ SymbolLength \in Nat \ {0}
<1>1. Len(A) \in Nat /\ SymbolLength \in Nat \ {0} /\ Len(C) = Len(A) + SymbolLength
  BY LenProperties, TransmitterAssumption DEF Grown, WithSymbol
<1>2. C[Len(C)] = [of |-> symbol, at |-> SymbolLength]
  <2>1. SymbolLength \in 1..SymbolLength
    BY <1>1
  <2> QED
    BY <1>1, <2>1 DEF WithSymbol
<1>3. C # <<>>
  BY <1>1 DEF Grown, WithSymbol
<1>4. ASSUME NEW p \in (Len(A) + 1)..Len(C)
      PROVE  C[p] = [of |-> symbol, at |-> p - Len(A)]
  <2>1. p - Len(A) \in 1..SymbolLength /\ p = Len(A) + (p - Len(A))
    BY <1>1
  <2> QED
    BY <2>1 DEF WithSymbol
<1>5. ASSUME NEW p \in (Len(A) + 1)..Len(C), p > Len(A) + 1
      PROVE  C[p - 1] = [of |-> symbol, at |-> p - Len(A) - 1]
  <2>1. p - 1 \in (Len(A) + 1)..Len(C) /\ p - 1 - Len(A) = p - Len(A) - 1
    BY <1>1, <1>5
  <2> QED
    BY <1>4, <2>1
<1>6. ASSUME NEW p \in (Len(A) + 1)..Len(C)
      PROVE  /\ C[p].of = symbol /\ C[p].at = p - Len(A)
             /\ p > Len(A) + 1 => C[p - 1] = [C[p] EXCEPT !.at = @ - 1]
  <2>1. PICK x \in Int : x = p - Len(A)
    BY <1>1
  <2>2. C[p] = [of |-> symbol, at |-> x]
    BY <1>4, <2>1
  <2>3. p > Len(A) + 1 => C[p - 1] = [of |-> symbol, at |-> x - 1]
    BY <1>5, <2>1
  <2>4. C[p].of = symbol /\ C[p].at = x
    BY <2>2
  <2>5. [C[p] EXCEPT !.at = @ - 1] = [of |-> symbol, at |-> x - 1]
    BY <2>2
  <2> QED
    BY <2>1, <2>3, <2>4, <2>5
<1> QED
  BY <1>1, <1>2, <1>3, <1>6 DEF Ends

\* The pilot, after silence.
LEMMA PilotAdded ==
    ASSUME NEW A, NEW C, WithSymbol(A, C, <<Pilot>>), Sound(A), Silent(A, NsLength)
    PROVE  Sound(C) /\ DataEndsOf(C, Len(C)) = DataEndsOf(A, Len(A))
<1>1. /\ Len(A) \in Nat /\ {NsLength, SymbolLength} \subseteq Nat \ {0}
      /\ NsLength \in 1..Len(A) /\ Len(C) = Len(A) + SymbolLength
  BY SymbolEnds, TransmitterAssumption DEF Silent
<1>2. Grown(A, C) /\ \A i \in 1..Len(A) : C[i] = A[i]
  BY DEF WithSymbol, Grown
<1>3. ASSUME NEW p \in (Len(A) + 1)..Len(C)
      PROVE  NullFirst(C, p) /\ p \notin DataEndsOf(C, p)
  <2>1. /\ C[p].of = <<Pilot>> /\ C[p].at = p - Len(A)
        /\ p > Len(A) + 1 => C[p - 1] = [C[p] EXCEPT !.at = @ - 1]
    BY SymbolEnds
  <2>2. p \notin DataEndsOf(C, p)
    BY <2>1 DEF DataEndsOf
  <2>3. CASE p = Len(A) + 1
    <3>1. /\ C[p].at = 1 /\ C[p].of = <<Pilot>> /\ p > NsLength
          /\ p - 1 - NsLength = Len(A) - NsLength
      BY <1>1, <2>1, <2>3
    <3>2. \A i \in 1..NsLength : C[Len(A) - NsLength + i] = Silence
      <4>1. \A i \in 1..NsLength : Len(A) - NsLength + i \in 1..Len(A)
        BY <1>1
      <4> QED
        BY <1>2, <4>1 DEF Silent
    <3>3. p > NsLength + 1 => C[Len(A) - NsLength].at = SymbolLength
      <4>1. p > NsLength + 1 => NsLength < Len(A) /\ Len(A) - NsLength \in 1..Len(A)
        BY <1>1, <2>3
      <4> QED
        BY <1>2, <4>1 DEF Silent
    <3> QED
      BY <2>2, <3>1, <3>2, <3>3 DEF NullFirst
  <2>4. CASE p > Len(A) + 1
    <3>1. C[p].at = p - Len(A) /\ C[p].at > 1 /\ C[p].at # 1 /\ p > 1
      BY <1>1, <2>1, <2>4
    <3>2. C[p - 1] = [C[p] EXCEPT !.at = @ - 1]
      BY <1>1, <2>1, <2>4
    <3> QED
      BY <2>2, <3>1, <3>2 DEF NullFirst
  <2> QED
    BY <1>1, <2>3, <2>4
<1> QED
  BY <1>2, <1>3, NewSamples, NoDataEnds

\* A vector, after a symbol.
LEMMA DataAdded ==
    ASSUME NEW A, NEW C, NEW v, NEW symbol, WithSymbol(A, C, symbol), Sound(A),
           Ends(A), symbol # <<Pilot>>, DiffPhasor(A[Len(A)].of, symbol) = v,
           v = Cardinality(DataEndsOf(A, Len(A))) + 1
    PROVE  Sound(C) /\ Cardinality(DataEndsOf(C, Len(C))) = v 
<1>1. /\ Len(A) \in Nat /\ SymbolLength \in Nat \ {0} /\ Len(C) = Len(A) + SymbolLength
      /\ Len(A) # 0 /\ Len(A) \in 1..Len(A)
  <2>1. A \in Seq(Sample) /\ A # <<>>
    BY DEF WithSymbol, Grown, Ends
  <2>2. Len(A) # 0
    BY <2>1, EmptySeq
  <2>3. Len(A) \in Nat /\ SymbolLength \in Nat \ {0} /\ Len(C) = Len(A) + SymbolLength
    BY SymbolEnds
  <2> QED
    BY <2>2, <2>3
<1>2. Grown(A, C) /\ \A i \in 1..Len(A) : C[i] = A[i]
  BY DEF WithSymbol, Grown
<1>4. \A p \in (Len(A) + 1)..Len(C) :
         /\ C[p].of = symbol /\ C[p].at = p - Len(A)
         /\ p > Len(A) + 1 => C[p - 1] = [C[p] EXCEPT !.at = @ - 1]
  BY SymbolEnds, SMTT(20)
<1>5. DataEndsOf(C, Len(C)) = DataEndsOf(A, Len(A)) \cup {Len(C)}
  <2>1. DataEndsOf(C, Len(A)) = DataEndsOf(A, Len(A))
    <3>1. Len(A) \in 0..Len(A)
      BY <1>1
    <3> QED
      BY <1>2, <3>1, OldSamples
  <2>2. Len(C) \in DataEndsOf(C, Len(C))
    <3>1. Len(C) \in 1..Len(C) /\ Len(C) \in (Len(A) + 1)..Len(C) /\ Len(C) - Len(A) = SymbolLength
      BY <1>1
    <3> QED
      BY <1>4, <3>1 DEF DataEndsOf
  <2>3. ASSUME NEW p \in DataEndsOf(C, Len(C)), p # Len(C)
        PROVE  p \in DataEndsOf(C, Len(A))
    <3>1. p \in 1..Len(C) /\ C[p].at = SymbolLength /\ C[p].of # <<Pilot>>
      BY DEF DataEndsOf
    <3>2. p \in (Len(A) + 1)..Len(C) => C[p].at = p - Len(A)
      BY <1>4
    <3>3. p \notin (Len(A) + 1)..Len(C)
      BY <1>1, <2>3, <3>1, <3>2
    <3>4. p \in 1..Len(A)
      BY <1>1, <3>1, <3>3
    <3> QED
      BY <3>1, <3>4 DEF DataEndsOf
  <2>4. DataEndsOf(C, Len(A)) \subseteq DataEndsOf(C, Len(C))
    <3>1. 1..Len(A) \subseteq 1..Len(C)
      BY <1>1
    <3> QED
      BY <3>1 DEF DataEndsOf
  <2> QED
    BY <2>1, <2>2, <2>3, <2>4
<1>6. Cardinality(DataEndsOf(C, Len(C))) = v
  <2>1. IsFiniteSet(DataEndsOf(A, Len(A))) /\ Len(C) \notin DataEndsOf(A, Len(A))
    <3>1. DataEndsOf(A, Len(A)) \subseteq 1..Len(A) /\ Len(C) \notin 1..Len(A)
      BY <1>1 DEF DataEndsOf
    <3>2. IsFiniteSet(1..Len(A))
      BY <1>1, FS_Interval
    <3> QED
      BY <3>1, <3>2, FS_Subset
  <2>2. Cardinality(DataEndsOf(C, Len(C))) = Cardinality(DataEndsOf(A, Len(A))) + 1
    BY <1>5, <2>1, FS_AddElement
  <2> QED
    BY <2>2
<1>7. ASSUME NEW p \in (Len(A) + 1)..Len(C)
      PROVE  NullFirst(C, p)
  <2>1. CASE p = Len(A) + 1
    <3>a. p > 1 /\ p - 1 = Len(A) /\ p - Len(A) = 1
      BY <1>1, <2>1
    <3>1. C[p].at = 1 /\ C[p].of # <<Pilot>> /\ p > 1 /\ p - 1 = Len(A)
      BY <1>4, <3>a
    <3>2. C[Len(A)].at = SymbolLength
      BY <1>1, <1>2 DEF Ends
    <3> QED
      BY <3>1, <3>2 DEF NullFirst
  <2>2. CASE p > Len(A) + 1
    <3>a. p > 1 /\ p - Len(A) > 1 /\ p - Len(A) # 1
      BY <1>1, <2>2
    <3>b. C[p].at = p - Len(A)
      BY <1>4
    <3>1. C[p].at > 1 /\ C[p].at # 1 /\ p > 1
      BY <3>a, <3>b
    <3>2. C[p - 1] = [C[p] EXCEPT !.at = @ - 1]
      BY <1>1, <1>4, <2>2
    <3> QED
      BY <3>1, <3>2 DEF NullFirst
  <2> QED
    BY <1>1, <2>1, <2>2
<1>8. ASSUME NEW p \in (Len(A) + 1)..Len(C), p \in DataEndsOf(C, p)
      PROVE  GetsVector(C, p)
  <2>1. p = Len(C)
    <3>1. C[p].at = SymbolLength /\ C[p].at = p - Len(A)
      BY <1>4, <1>8 DEF DataEndsOf
    <3> QED
      BY <1>1, <3>1
  <2>2. p > SymbolLength /\ p - SymbolLength = Len(A) /\ C[Len(A)].of = A[Len(A)].of
    BY <1>1, <1>2, <2>1
  <2>3. C[p].of = symbol
    BY <1>4
  <2> QED
    BY <1>6, <2>1, <2>2, <2>3 DEF GetsVector
<1>9. Sound(C)
  BY <1>2, <1>7, <1>8, NewSamples
<1> QED
  BY <1>6, <1>9

\* The symbol of a vector is not the pilot, and gives the vector back.
LEMMA Quotient ==
    ASSUME NEW v \in Nat, v # 0, NEW before \in Seq(Int)
    PROVE  /\ Append(before, v) # <<Pilot>>
           /\ DiffPhasor(before, Append(before, v)) = v
<1>1. PICK symbol : symbol = Append(before, v)
  OBVIOUS
<1>2. /\ symbol \in Seq(Int) /\ Len(symbol) = Len(before) + 1
      /\ \A i \in 1..Len(before) : symbol[i] = before[i]
      /\ symbol[Len(before) + 1] = v
  BY <1>1, AppendProperties
<1>3. Len(before) \in Nat
  BY LenProperties
<1>4. symbol # <<>> /\ Last(symbol) = v
  BY <1>2, <1>3 DEF Last
<1>5. symbol # <<Pilot>>
  <2>1. symbol = <<Pilot>> => Len(before) + 1 = 1 /\ symbol[1] = Pilot
    BY <1>2
  <2>2. Len(before) + 1 = 1 => symbol[1] = v
    BY <1>2, <1>3
  <2> QED
    BY <2>1, <2>2 DEF Pilot
<1>6. Front(symbol) = before
  BY <1>2, <1>3 DEF Front
<1> QED
  BY <1>1, <1>4, <1>5, <1>6 DEF DiffPhasor
-----------------------------------------------------------------------------
(* The rounds of a call of insert_null_symbol *)

NullState == [added : 0..NsLength, used : Nat, out : Seq(Sample)]
NullRun(after, n) ==
    /\ after \in [0..n -> NullState]
    /\ after[0] = [added |-> d_ns_added, used |-> 0, out |-> <<>>]
    /\ \A k \in 1..n : after[k] = NullItem(n, after[k - 1])

\* A round puts out z samples of silence, or a symbol.
NextUp(c) == c.used < Len(symbols) /\ c.used < Len(starts)
PutsSilence(c, d) ==
    /\ NextUp(c) /\ starts[c.used + 1] = 1
    /\ \E z \in 1..(NsLength - c.added) :
          d = [added |-> c.added + z, used |-> c.used,
               out |-> c.out \o [k \in 1..z |-> Silence]]
PutsSymbol(c, d) ==
    /\ NextUp(c) /\ (starts[c.used + 1] = 1 => c.added = NsLength)
    /\ d = [added |-> IF starts[c.used + 1] = 0 THEN 0 ELSE c.added, used |-> c.used + 1,
            out |-> c.out \o Samples(symbols[c.used + 1])]

LEMMA NullRounds ==
    ASSUME Types, NEW n \in Nat, NEW c \in NullState
    PROVE  LET d == NullItem(n, c) IN d = c \/ PutsSilence(c, d) \/ PutsSymbol(c, d)
<1> DEFINE room == n - Len(c.out)
           zeros == IF NsLength - c.added < room THEN NsLength - c.added ELSE room
<1>1. /\ c = [added |-> c.added, used |-> c.used, out |-> c.out]
      /\ c.added \in 0..NsLength /\ c.used \in Nat /\ c.out \in Seq(Sample)
  BY DEF NullState
<1>2. /\ Len(symbols) \in Nat /\ Len(starts) \in Nat /\ Len(c.out) \in Nat
      /\ {NsLength, SymbolLength} \subseteq Nat \ {0}
  BY <1>1, QueueLengths, LenProperties
<1>3. CASE room < SymbolLength \/ c.used >= Len(symbols) \/ c.used >= Len(starts)
  <2>1. NullItem(n, c) = c
    BY <1>3 DEF NullItem
  <2> QED
    BY <2>1
<1>4. CASE ~(room < SymbolLength \/ c.used >= Len(symbols) \/ c.used >= Len(starts))
  <2>1. NextUp(c) /\ room >= 1 /\ room \in Nat
    BY <1>1, <1>2, <1>4 DEF NextUp
  <2>2. CASE starts[c.used + 1] = 1 /\ c.added < NsLength
    <3>1. zeros \in 1..(NsLength - c.added)
      BY <1>1, <1>2, <2>1, <2>2
    <3>2. NullItem(n, c) = [c EXCEPT !.added = @ + zeros,
                                     !.out = @ \o [k \in 1..zeros |-> Silence]]
      BY <1>4, <2>2 DEF NullItem
    <3> HIDE DEF zeros, room
    <3>3. NullItem(n, c) = [added |-> c.added + zeros, used |-> c.used,
                            out |-> c.out \o [k \in 1..zeros |-> Silence]]
      BY <1>1, <3>2
    <3> QED
      BY <2>1, <2>2, <3>1, <3>3 DEF PutsSilence
  <2>3. CASE ~(starts[c.used + 1] = 1 /\ c.added < NsLength)
    <3>1. NullItem(n, c) = [added |-> NextAdded(c), used |-> c.used + 1,
                            out |-> c.out \o Samples(symbols[c.used + 1])]
      BY <1>4, <2>3 DEF NullItem
    <3>2. starts[c.used + 1] = 1 => c.added = NsLength
      BY <1>1, <1>2, <2>3
    <3> QED
      BY <2>1, <3>1, <3>2 DEF PutsSymbol, NextAdded
  <2> QED
    BY <2>2, <2>3
<1> QED
  BY <1>3, <1>4

LEMMA SilenceIs ==
    ASSUME NEW z \in Nat
    PROVE  LET s == [k \in 1..z |-> Silence]
           IN  s \in Seq(Sample) /\ Len(s) = z /\ \A k \in 1..z : s[k] = Silence
<1>1. Silence \in Sample
  BY TransmitterAssumption DEF Silence, Sample
<1> QED
  BY <1>1

LEMMA SamplesAre ==
    ASSUME NEW symbol \in Seq(Int)
    PROVE  /\ Samples(symbol) \in Seq(Sample) /\ Len(Samples(symbol)) = SymbolLength
           /\ \A k \in 1..SymbolLength : Samples(symbol)[k] = [of |-> symbol, at |-> k]
<1>1. \A k \in 1..SymbolLength : [of |-> symbol, at |-> k] \in Sample
  BY TransmitterAssumption DEF Sample
<1> QED
  BY <1>1, TransmitterAssumption, SMTT(20) DEF Samples

LEMMA NullItemType ==
    ASSUME Types, NEW n \in Nat, NEW c \in NullState
    PROVE  NullItem(n, c) \in NullState
<1> DEFINE d == NullItem(n, c)
<1>1. d = c \/ PutsSilence(c, d) \/ PutsSymbol(c, d)
  BY NullRounds
<1> SUFFICES d \in NullState
  OBVIOUS
<1> HIDE DEF d
<1>2. c.added \in 0..NsLength /\ c.used \in Nat /\ c.out \in Seq(Sample) /\ NsLength \in Nat
  BY TransmitterAssumption DEF NullState
<1>3. CASE PutsSilence(c, d)
  <2>1. PICK z \in 1..(NsLength - c.added) :
           d = [added |-> c.added + z, used |-> c.used,
                out |-> c.out \o [k \in 1..z |-> Silence]]
    BY <1>3 DEF PutsSilence
  <2>2. z \in Nat /\ c.added + z \in 0..NsLength
    BY <1>2
  <2>3. c.out \o [k \in 1..z |-> Silence] \in Seq(Sample)
    BY <1>2, <2>2, SilenceIs, ConcatProperties
  <2> QED
    BY <1>2, <2>1, <2>2, <2>3 DEF NullState
<1>4. CASE PutsSymbol(c, d)
  <2>1. symbols[c.used + 1] \in Seq(Int)
    <3>1. c.used + 1 \in 1..Len(symbols)
      <4>1. c.used < Len(symbols) /\ Len(symbols) \in Nat
        BY <1>4, QueueLengths DEF PutsSymbol, NextUp
      <4> QED
        BY <1>2, <4>1
    <3> QED
      BY <3>1, ElementOfSeq DEF Types
  <2>2. c.out \o Samples(symbols[c.used + 1]) \in Seq(Sample)
    BY <1>2, <2>1, SamplesAre, ConcatProperties
  <2>3. (IF starts[c.used + 1] = 0 THEN 0 ELSE c.added) \in 0..NsLength
    BY <1>2
  <2> QED
    BY <1>2, <1>4, <2>2, <2>3 DEF PutsSymbol, NullState
<1> QED
  BY <1>1, <1>3, <1>4

LEMMA NullRuns ==
    ASSUME Types, d_ns_added \in 0..NsLength, NEW n \in Nat
    PROVE  \E after : NullRun(after, n) /\ NullCall(n) = after[n]
<1> DEFINE start == [added |-> d_ns_added, used |-> 0, out |-> <<>>]
           step == [p \in (1..n) \X NullState |-> NullItem(n, p[2])]
           After(h) == [k \in 0..n |-> IF k = 0 THEN start ELSE NullItem(n, h[k - 1])]
<1>1. start \in NullState
  BY DEF NullState
<1>2. step \in [(1..n) \X NullState -> NullState]
  BY NullItemType
<1>3. PICK g \in [0..n -> NullState] :
         g[0] = start /\ \A k \in 1..n : g[k] = step[<<k, g[k - 1]>>]
  <2>1. PICK S, base, do : S = NullState /\ base = start /\ do = step
    OBVIOUS
  <2>2. base \in S
    BY <1>1, <2>1
  <2>3. do \in [(1..n) \X S -> S]
    BY <1>2, <2>1
  <2> HIDE DEF step, start
  <2>4. \E g \in [0..n -> S] : Recursive(g, base, n, do)
    BY <2>2, <2>3, Recursion
  <2> QED
    BY <2>1, <2>4 DEF Recursive
<1> HIDE DEF start
<1>4. g = After(g)
  <2>1. \A k \in 1..n : g[k] = NullItem(n, g[k - 1])
    <3> SUFFICES ASSUME NEW k \in 1..n
                 PROVE  g[k] = NullItem(n, g[k - 1])
      OBVIOUS
    <3>1. g[k - 1] \in NullState
      BY <1>3
    <3> QED
      BY <1>3, <3>1
  <2>2. \A k \in 0..n : k # 0 => k \in 1..n
    OBVIOUS
  <2> QED
    BY <1>3, <2>1, <2>2
<1> DEFINE after == CHOOSE h : h = After(h)
<1>5. after = After(after)
  BY <1>4
<1>6. NullCall(n) = after[n]
  BY DEF NullCall, start
<1> HIDE DEF after
<1>7. after[0] = start /\ \A k \in 1..n : after[k] = NullItem(n, after[k - 1])
  <2>1. 0 \in 0..n /\ \A k \in 1..n : k \in 0..n /\ k # 0
    OBVIOUS
  <2> QED
    BY <1>5, <2>1
<1>8. \A k \in 0..n : after[k] \in NullState
  <2> DEFINE T == {k \in 0..n : after[k] \in NullState}
  <2>1. 0 \in T
    BY <1>1, <1>7
  <2>2. \A k \in 1..n : k - 1 \in T => k \in T
    BY <1>7, NullItemType
  <2> HIDE DEF T
  <2>3. \A k \in 0..n : k \in T
    BY <2>1, <2>2, Throughout
  <2> QED
    BY <2>3 DEF T
<1>9. after \in [0..n -> NullState]
  BY <1>5, <1>8
<1> QED
  BY <1>6, <1>7, <1>9 DEF NullRun, start

LEMMA Appended ==
    ASSUME NEW S, NEW s \in Seq(S), NEW t \in Seq(S), NEW x \in Seq(S),
           NEW A, A = s \o t, NEW tx, tx = t \o x, NEW C, C = s \o tx
    PROVE  /\ A \in Seq(S) /\ C \in Seq(S) /\ Len(A) \in Nat /\ Len(C) = Len(A) + Len(x)
           /\ \A i \in 1..Len(A) : C[i] = A[i]
           /\ \A k \in 1..Len(x) : C[Len(A) + k] = x[k]
<1>2. /\ tx \in Seq(S) /\ Len(tx) = Len(t) + Len(x)
      /\ \A i \in 1..Len(t) : tx[i] = t[i]
      /\ \A i \in 1..Len(x) : tx[Len(t) + i] = x[i]
  BY Joined
<1>3. /\ A \in Seq(S) /\ Len(A) = Len(s) + Len(t)
      /\ \A i \in 1..Len(s) : A[i] = s[i]
      /\ \A i \in 1..Len(t) : A[Len(s) + i] = t[i]
  BY Joined
<1>5. /\ C \in Seq(S) /\ Len(C) = Len(s) + Len(tx)
      /\ \A i \in 1..Len(s) : C[i] = s[i]
      /\ \A i \in 1..Len(tx) : C[Len(s) + i] = tx[i]
  <2>1. tx \in Seq(S)
    BY <1>2
  <2> QED
    BY <2>1, Joined
<1>6. Len(s) \in Nat /\ Len(t) \in Nat /\ Len(x) \in Nat
  BY LenProperties
<1>7. PICK a, b, c \in Nat : a = Len(s) /\ b = Len(t) /\ c = Len(x)
  BY <1>6
<1>8. Len(A) = a + b /\ Len(tx) = b + c /\ Len(C) = a + (b + c)
  BY <1>2, <1>3, <1>5, <1>7
<1>9. ASSUME NEW i \in 1..Len(A)
      PROVE  C[i] = A[i]
  <2>1. CASE i <= a
    <3>1. i \in 1..Len(s)
      BY <1>7, <1>8, <2>1
    <3> QED
      BY <1>3, <1>5, <3>1
  <2>2. CASE i > a
    <3>1. i - a \in 1..b /\ i - a \in 1..(b + c) /\ a + (i - a) = i
      BY <1>8, <2>2
    <3>2. C[a + (i - a)] = tx[i - a]
      BY <1>5, <1>7, <1>8, <3>1
    <3>3. tx[i - a] = t[i - a]
      BY <1>2, <1>7, <3>1
    <3>4. A[a + (i - a)] = t[i - a]
      BY <1>3, <1>7, <3>1
    <3> QED
      BY <3>1, <3>2, <3>3, <3>4
  <2> QED
    BY <1>8, <2>1, <2>2
<1>10. ASSUME NEW k \in 1..Len(x)
       PROVE  C[Len(A) + k] = x[k]
  <2>1. k \in 1..c /\ b + k \in 1..(b + c) /\ Len(A) + k = a + (b + k)
    BY <1>7, <1>8
  <2>2. C[a + (b + k)] = tx[b + k]
    BY <1>5, <1>7, <1>8, <2>1
  <2>3. tx[b + k] = x[k]
    BY <1>2, <1>7, <2>1
  <2> QED
    BY <2>1, <2>2, <2>3
<1>11. Len(A) \in Nat /\ Len(C) = Len(A) + Len(x)
  BY <1>7, <1>8
<1> QED
  BY <1>3, <1>5, <1>9, <1>10, <1>11

\* C is A and then x.
Extended(A, x, C) ==
    /\ A \in Seq(Sample) /\ C \in Seq(Sample) /\ Len(A) \in Nat
    /\ Len(C) = Len(A) + Len(x)
    /\ \A i \in 1..Len(A) : C[i] = A[i]
    /\ \A k \in 1..Len(x) : C[Len(A) + k] = x[k]

LEMMA AddedSamples ==
    ASSUME NEW s \in Seq(Sample), NEW t \in Seq(Sample), NEW x \in Seq(Sample),
           NEW A, A = s \o t, NEW tx, tx = t \o x, NEW C, C = s \o tx
    PROVE  Extended(A, x, C)
<1>1. PICK S : S = Sample
  OBVIOUS
<1>2. s \in Seq(S) /\ t \in Seq(S) /\ x \in Seq(S)
  BY <1>1
<1>3. /\ A \in Seq(S) /\ C \in Seq(S) /\ Len(A) \in Nat /\ Len(C) = Len(A) + Len(x)
      /\ \A i \in 1..Len(A) : C[i] = A[i]
      /\ \A k \in 1..Len(x) : C[Len(A) + k] = x[k]
  BY <1>2, Appended, SMTT(20)
<1> QED
  BY <1>1, <1>3 DEF Extended

\* What holds in each round.
RoundInv(c, num) ==
    LET A == air \o c.out
    IN  /\ c \in NullState /\ c.used <= Len(symbols) /\ (A = <<>> => c.used = 0)
        /\ Sound(A) /\ Continues(A, c.used, c.added)
        /\ Cardinality(DataEndsOf(A, Len(A))) = num[c.used]

LEMMA SilenceKeeps ==
    ASSUME Types, Lengths, NEW num, NEW c, RoundInv(c, num),
           NEW d \in NullState, PutsSilence(c, d)
    PROVE  RoundInv(d, num)
<1>1. PICK A, u, added : A = air \o c.out /\ u = c.used /\ added = c.added
  OBVIOUS
<1>2. /\ u \in Nat /\ added \in 0..NsLength /\ c.out \in Seq(Sample) /\ air \in Seq(Sample)
      /\ (A = <<>> => u = 0)
      /\ Sound(A) /\ Continues(A, u, added)
      /\ Cardinality(DataEndsOf(A, Len(A))) = num[u]
  BY <1>1 DEF RoundInv, NullState, Types
<1>3. /\ {NsLength, SymbolLength} \subseteq Nat \ {0}
      /\ Len(symbols) \in Nat /\ Len(starts) \in Nat /\ Len(marked) \in Nat
  BY QueueLengths
<1>4. /\ u < Len(symbols) /\ u < Len(starts) /\ starts[u + 1] = 1
      /\ u < InFlight /\ u # InFlight /\ Flag(u + 1) = 1
  <2>1. u < Len(symbols) /\ u < Len(starts) /\ starts[u + 1] = 1
    BY <1>1 DEF PutsSilence, NextUp
  <2>2. u < Len(starts) + Len(marked) /\ u + 1 <= Len(starts)
    BY <1>2, <1>3, <2>1
  <2> QED
    BY <1>2, <1>3, <2>1, <2>2 DEF InFlight, Flag
<1>5. PICK z \in 1..(NsLength - added) :
         d = [added |-> added + z, used |-> u, out |-> c.out \o [k \in 1..z |-> Silence]]
  BY <1>1 DEF PutsSilence
<1>6. PICK x : x = [k \in 1..z |-> Silence]
  OBVIOUS
<1>7. x \in Seq(Sample) /\ Len(x) = z /\ \A k \in 1..z : x[k] = Silence
  <2>1. z \in Nat
    OBVIOUS
  <2> QED
    BY <1>6, <2>1, SilenceIs
<1>8. PICK tx, C : tx = c.out \o x /\ C = air \o tx
  OBVIOUS
<1>9. d.added = added + z /\ d.used = u /\ air \o d.out = C
  BY <1>5, <1>6, <1>8
<1>10. /\ A \in Seq(Sample) /\ C \in Seq(Sample) /\ Len(A) \in Nat /\ Len(C) = Len(A) + z
       /\ \A i \in 1..Len(A) : C[i] = A[i]
       /\ \A k \in 1..z : C[Len(A) + k] = Silence
  <2>1. Extended(A, x, C)
    <3>1. PICK q, t : q = air /\ t = c.out
      OBVIOUS
    <3>2. q \in Seq(Sample) /\ t \in Seq(Sample) /\ x \in Seq(Sample)
      BY <1>2, <1>7, <3>1
    <3>3. A = q \o t /\ tx = t \o x /\ C = q \o tx
      BY <1>1, <1>8, <3>1
    <3> QED
      BY <3>2, <3>3, AddedSamples
  <2> QED
    BY <1>7, <2>1 DEF Extended
<1>11. Grown(A, C)
  BY <1>10 DEF Grown
<1>12. Sound(C) /\ DataEndsOf(C, Len(C)) = DataEndsOf(A, Len(A))
  <2>1. ASSUME NEW p \in (Len(A) + 1)..Len(C)
        PROVE  C[p] = Silence
    <3>1. p - Len(A) \in 1..z /\ Len(A) + (p - Len(A)) = p
      BY <1>10
    <3> QED
      BY <1>10, <3>1
  <2> QED
    BY <1>2, <1>11, <2>1, SilenceAdded
<1>13. Continues(C, u, added + z)
  <2>1. C # <<>> /\ C[Len(C)] = Silence
    <3>1. Len(C) # 0 /\ z \in 1..z /\ Len(C) = Len(A) + z
      BY <1>10
    <3> QED
      BY <1>10, <3>1, SMTT(20)
  <2>2. ~Ends(C)
    BY <1>3, <2>1 DEF Ends, Silence
  <2>3. added > 0 => Silent(A, added)
    BY <1>2, <1>4 DEF Continues
  <2>4. A # <<>> /\ added = 0 => Ends(A)
    BY <1>2, <1>10 DEF Continues, Silent
  <2>5. Silent(C, added + z)
    <3>1. added + z \in 1..Len(C)
      <4>1. added = 0 \/ added \in 1..Len(A)
        BY <1>2, <2>3 DEF Silent
      <4> QED
        BY <1>2, <1>10, <4>1
    <3>2. ASSUME NEW i \in 1..(added + z)
          PROVE  C[Len(C) - (added + z) + i] = Silence
      <4>1. CASE i <= added
        <5>1. added > 0 /\ i \in 1..added /\ added \in 1..Len(A)
          BY <1>2, <2>3, <4>1 DEF Silent
        <5>2. /\ Len(C) - (added + z) + i = Len(A) - added + i
              /\ Len(A) - added + i \in 1..Len(A)
          BY <1>10, <5>1
        <5> QED
          BY <1>10, <2>3, <5>1, <5>2 DEF Silent
      <4>2. CASE i > added
        <5>1. /\ i - added \in 1..z /\ Len(C) - (added + z) + i = Len(A) + (i - added)
          BY <1>2, <1>10, <4>2
        <5> QED
          BY <1>10, <5>1
      <4> QED
        BY <1>2, <4>1, <4>2
    <3>3. added + z < Len(C) => C[Len(C) - (added + z)].at = SymbolLength
      <4> SUFFICES ASSUME added + z < Len(C)
                   PROVE  C[Len(C) - (added + z)].at = SymbolLength
        OBVIOUS
      <4>1. /\ added < Len(A) /\ Len(C) - (added + z) = Len(A) - added
            /\ Len(A) - added \in 1..Len(A) /\ A # <<>>
        BY <1>2, <1>10
      <4>2. A[Len(A) - added].at = SymbolLength
        <5>1. CASE added = 0
          <6>1. Len(A) - added = Len(A)
            BY <1>10, <5>1
          <6> QED
            BY <2>4, <4>1, <5>1, <6>1 DEF Ends
        <5>2. CASE added # 0
          BY <1>2, <2>3, <4>1, <5>2 DEF Silent
        <5> QED
          BY <5>1, <5>2
      <4> QED
        BY <1>10, <4>1, <4>2
    <3> QED
      BY <3>1, <3>2, <3>3 DEF Silent
  <2> QED
    BY <1>3, <1>4, <2>1, <2>2, <2>5 DEF Continues
<1> QED
  BY <1>2, <1>4, <1>9, <1>12, <1>13, <1>10 DEF RoundInv

LEMMA SymbolKeeps ==
    ASSUME Types, Lengths, Inputs, Chained, NEW num \in [0..InFlight -> 0..NumVectors],
           Numbered(num), NEW c, RoundInv(c, num),
           NEW d \in NullState, PutsSymbol(c, d)
    PROVE  RoundInv(d, num)
<1>1. PICK A, u, added : A = air \o c.out /\ u = c.used /\ added = c.added
  OBVIOUS
<1>2. /\ u \in Nat /\ added \in 0..NsLength /\ c.out \in Seq(Sample) /\ air \in Seq(Sample)
      /\ (A = <<>> => u = 0)
      /\ Sound(A) /\ Continues(A, u, added)
      /\ Cardinality(DataEndsOf(A, Len(A))) = num[u]
  BY <1>1 DEF RoundInv, NullState, Types
<1>3. /\ {NsLength, SymbolLength} \subseteq Nat \ {0} /\ InFlight \in Nat
      /\ Len(symbols) \in Nat /\ Len(starts) \in Nat /\ Len(marked) \in Nat
  BY QueueLengths
<1>4. /\ u < Len(symbols) /\ u < Len(starts) /\ (starts[u + 1] = 1 => added = NsLength)
      /\ u < InFlight /\ u # InFlight /\ Flag(u + 1) = starts[u + 1] /\ u + 1 <= Len(symbols)
      /\ u + 1 \in 1..Len(starts) /\ u + 1 \in 1..Len(symbols) /\ u + 1 \in 1..InFlight
  <2>1. /\ u < Len(symbols) /\ u < Len(starts) /\ (starts[u + 1] = 1 => added = NsLength)
    BY <1>1 DEF PutsSymbol, NextUp
  <2>2. u < Len(starts) + Len(marked) /\ u + 1 <= Len(starts)
    BY <1>2, <1>3, <2>1
  <2> QED
    BY <1>2, <1>3, <2>1, <2>2 DEF InFlight, Flag
<1>5. PICK symbol : symbol = symbols[u + 1]
  OBVIOUS
<1>6. /\ symbol \in Seq(Int) /\ symbol = Symbol(u + 1) /\ starts[u + 1] \in {0, 1}
      /\ symbol = IF starts[u + 1] = 1 THEN <<Pilot>> ELSE Append(SymbolBefore(u + 1), num[u + 1])
      /\ num[u + 1] = IF starts[u + 1] = 1 THEN num[u] ELSE num[u] + 1
      /\ SymbolBefore(u + 2) = symbol
  <2>1. symbol = Symbol(u + 1)
    BY <1>4, <1>5 DEF Symbol
  <2>2. symbol \in Seq(Int)
    <3>1. symbols \in Seq(Seq(Int))
      BY DEF Types
    <3> QED
      BY <1>4, <1>5, <3>1, ElementOfSeq
  <2>3. starts[u + 1] \in {0, 1}
    <3>1. starts \in Seq({0, 1})
      BY DEF Types
    <3> QED
      BY <1>4, <3>1, ElementOfSeq
  <2>4. u \in Nat
    BY <1>2
  <2>5. SymbolBefore(u + 2) = symbol
    <3>1. PICK j : j = u + 2
      OBVIOUS
    <3>2. j > 1 /\ j - 1 = u + 1
      BY <2>4, <3>1
    <3>3. SymbolBefore(j) = Symbol(j - 1)
      BY <3>2 DEF SymbolBefore
    <3> QED
      BY <2>1, <3>1, <3>2, <3>3
  <2>6. Symbol(u + 1) = IF starts[u + 1] = 1 THEN <<Pilot>>
                        ELSE Append(SymbolBefore(u + 1), num[u + 1])
    BY <1>4 DEF Numbered
  <2>7. num[u + 1] = IF starts[u + 1] = 1 THEN num[u] ELSE num[u] + 1
    <3>1. PICK i : i = u + 1
      OBVIOUS
    <3>2. i \in 1..InFlight /\ i - 1 = u
      BY <1>4, <2>4, <3>1
    <3>3. num[i] = IF Flag(i) = 1 THEN num[i - 1] ELSE num[i - 1] + 1
      BY <3>2 DEF Numbered
    <3> QED
      BY <1>4, <3>1, <3>2, <3>3
  <2> QED
    BY <2>1, <2>2, <2>3, <2>5, <2>6, <2>7
<1>7. PICK x : x = Samples(symbol)
  OBVIOUS
<1>8. /\ x \in Seq(Sample) /\ Len(x) = SymbolLength
      /\ \A k \in 1..SymbolLength : x[k] = [of |-> symbol, at |-> k]
  BY <1>6, <1>7, SamplesAre
<1>9. PICK tx, C : tx = c.out \o x /\ C = air \o tx
  OBVIOUS
<1>10. PICK more : more = IF starts[u + 1] = 0 THEN 0 ELSE added
  OBVIOUS
<1>11. d.added = more /\ d.used = u + 1 /\ air \o d.out = C
  <2>1. d = [added |-> more, used |-> u + 1, out |-> tx]
    BY <1>1, <1>5, <1>7, <1>9, <1>10 DEF PutsSymbol
  <2> QED
    BY <1>9, <2>1
<1>12. /\ A \in Seq(Sample) /\ C \in Seq(Sample) /\ Len(A) \in Nat
       /\ Len(C) = Len(A) + SymbolLength
       /\ \A i \in 1..Len(A) : C[i] = A[i]
       /\ \A k \in 1..SymbolLength : C[Len(A) + k] = [of |-> symbol, at |-> k]
  <2>1. Extended(A, x, C)
    <3>1. PICK q, t : q = air /\ t = c.out
      OBVIOUS
    <3>2. q \in Seq(Sample) /\ t \in Seq(Sample) /\ x \in Seq(Sample)
      BY <1>2, <1>8, <3>1
    <3>3. A = q \o t /\ tx = t \o x /\ C = q \o tx
      BY <1>1, <1>9, <3>1
    <3> QED
      BY <3>2, <3>3, AddedSamples
  <2> QED
    BY <1>8, <2>1 DEF Extended
<1>13. WithSymbol(A, C, symbol)
  <2>1. Len(A) <= Len(C)
    BY <1>3, <1>12
  <2> QED
    BY <1>12, <2>1 DEF WithSymbol, Grown
<1>14. C # <<>> /\ Ends(C) /\ C[Len(C)].of = symbol
  BY <1>13, SymbolEnds
<1>15. CASE starts[u + 1] = 1
  <2>1. symbol = <<Pilot>> /\ more = NsLength /\ num[u + 1] = num[u] /\ added = NsLength
    BY <1>4, <1>6, <1>10, <1>15
  <2>2. Silent(A, NsLength)
    <3>1. A # <<>> /\ added # 0
      BY <1>2, <1>3, <2>1 DEF Continues
    <3>2. ~Ends(A)
      BY <1>2, <1>4, <1>15, <3>1 DEF Continues
    <3> QED
      BY <1>2, <2>1, <3>1, <3>2 DEF Continues
  <2>3. Sound(C) /\ DataEndsOf(C, Len(C)) = DataEndsOf(A, Len(A))
    BY <1>2, <1>13, <2>1, <2>2, PilotAdded
  <2>4. IF u + 1 < InFlight THEN Flag(u + 2) = 0 ELSE d_start = 1
    <3>1. u + 1 < InFlight => u + 1 \in 1..(InFlight - 1) /\ u + 1 + 1 = u + 2
      BY <1>2, <1>3
    <3>2. ~(u + 1 < InFlight) => u + 1 = InFlight /\ InFlight > 0
      BY <1>2, <1>3, <1>4
    <3> QED
      BY <1>4, <1>15, <3>1, <3>2 DEF Chained
  <2>5. Continues(C, u + 1, NsLength)
    <3>1. u + 1 + 1 = u + 2
      BY <1>2
    <3> QED
      BY <1>6, <1>14, <2>1, <2>4, <3>1 DEF Continues
  <2> QED
    BY <1>2, <1>4, <1>11, <1>14, <2>1, <2>3, <2>5 DEF RoundInv
<1>16. CASE starts[u + 1] = 0
  <2>1. Ends(A) /\ A[Len(A)].of = SymbolBefore(u + 1)
    BY <1>2, <1>4, <1>16 DEF Continues
  <2>2. PICK before, v : before = A[Len(A)].of /\ v = num[u + 1]
    OBVIOUS
  <2>3. symbol = Append(before, v) /\ v = num[u] + 1 /\ more = 0
    BY <1>6, <1>10, <1>16, <2>1, <2>2
  <2>4. before \in Seq(Int)
    <3>1. A # <<>>
      BY <2>1 DEF Ends
    <3>2. Len(A) \in 1..Len(A)
      BY <1>12, <3>1
    <3>3. A[Len(A)] \in Sample
      BY <1>12, <3>2, ElementOfSeq
    <3> QED
      BY <2>2, <3>3 DEF Sample
  <2>5. v \in Nat /\ v # 0
    <3>1. u \in 0..InFlight
      BY <1>2, <1>3, <1>4
    <3>2. num[u] \in Nat
      BY <3>1, QueueLengths
    <3> QED
      BY <2>3, <3>2
  <2>6. symbol # <<Pilot>> /\ DiffPhasor(A[Len(A)].of, symbol) = v
    BY <2>2, <2>3, <2>4, <2>5, Quotient
  <2>7. v = Cardinality(DataEndsOf(A, Len(A))) + 1
    BY <1>2, <2>3
  <2>8. Sound(C) /\ Cardinality(DataEndsOf(C, Len(C))) = v
    BY <1>2, <1>13, <2>1, <2>6, <2>7, DataAdded
  <2>9. Continues(C, u + 1, 0)
    <3>1. u + 1 + 1 = u + 2
      BY <1>2
    <3> QED
      BY <1>6, <1>14, <2>6, <3>1 DEF Continues
  <2> QED
    BY <1>2, <1>4, <1>11, <1>14, <2>2, <2>3, <2>8, <2>9 DEF RoundInv
<1> QED
  BY <1>6, <1>15, <1>16

LEMMA NullRunKeeps ==
    ASSUME Types, Lengths, Inputs, Chained, NEW num \in [0..InFlight -> 0..NumVectors],
           Numbered(num), OnAir(num), NEW n \in Nat, NEW after, NullRun(after, n)
    PROVE  RoundInv(after[n], num)
<1> DEFINE T == {k \in 0..n : RoundInv(after[k], num)}
<1>1. 0 \in T
  <2>1. after[0] = [added |-> d_ns_added, used |-> 0, out |-> <<>>] /\ after[0] \in NullState
    BY DEF NullRun
  <2>2. air \o <<>> = air
    <3>1. air \in Seq(Sample)
      BY DEF Types
    <3> QED
      BY <3>1, ConcatEmptySeq
  <2>3. /\ after[0].used = 0 /\ after[0].added = d_ns_added /\ air \o after[0].out = air
        /\ 0 <= Len(symbols) /\ DataEndsOf(air, Len(air)) = DataEnds(Len(air))
    BY <2>1, <2>2, QueueLengths DEF DataEnds, DataEndsOf
  <2>4. PICK c : c = after[0]
    OBVIOUS
  <2>5. RoundInv(c, num)
    BY <2>1, <2>3, <2>4 DEF RoundInv, OnAir
  <2> QED
    BY <2>4, <2>5
<1>2. \A k \in 1..n : k - 1 \in T => k \in T
  <2> SUFFICES ASSUME NEW k \in 1..n, RoundInv(after[k - 1], num)
               PROVE  RoundInv(after[k], num)
    OBVIOUS
  <2>1. PICK c, d : c = after[k - 1] /\ d = after[k]
    OBVIOUS
  <2>2. c \in NullState /\ d \in NullState /\ d = NullItem(n, c)
    BY <2>1 DEF NullRun
  <2>3. d = c \/ PutsSilence(c, d) \/ PutsSymbol(c, d)
    BY <2>2, NullRounds
  <2>4. RoundInv(c, num)
    BY <2>1
  <2>5. RoundInv(d, num)
    BY <2>2, <2>3, <2>4, SilenceKeeps, SymbolKeeps
  <2> QED
    BY <2>1, <2>5
<1> HIDE DEF T
<1>3. \A k \in 0..n : k \in T
  BY <1>1, <1>2, Throughout
<1> QED
  BY <1>3 DEF T

LEMMA NullInvariant == TInv /\ InsertNull => TInv'
<1> SUFFICES ASSUME TInv, InsertNull
             PROVE  TInv'
  OBVIOUS
<1>1. PICK m \in 1..Room :
         /\ LET call == NullCall(m * SymbolLength)
            IN  /\ d_ns_added' = call.added /\ air' = air \o call.out
                /\ symbols' = SubSeq(symbols, call.used + 1, Len(symbols))
                /\ starts' = SubSeq(starts, call.used + 1, Len(starts))
         /\ UNCHANGED <<source, pilot, sum, products>>
  BY DEF InsertNull
<1>2. Types /\ Lengths /\ Inputs /\ Chained
  BY DEF TInv
<1>3. PICK num : /\ num \in [0..InFlight -> 0..NumVectors]
                 /\ Numbered(num) /\ OnAir(num)
  BY DEF TInv
<1>4. PICK c : c = NullCall(m * SymbolLength) /\ RoundInv(c, num)
  <2>1. PICK n \in Nat : n = m * SymbolLength
    BY <1>2, QueueLengths
  <2>2. d_ns_added \in 0..NsLength
    BY <1>3 DEF OnAir
  <2>3. PICK after : NullRun(after, n) /\ NullCall(n) = after[n]
    BY <1>2, <2>2, NullRuns
  <2>4. RoundInv(after[n], num)
    BY <1>2, <1>3, <2>3, NullRunKeeps
  <2> QED
    BY <2>1, <2>3, <2>4
<1>5. PICK u, added, A : u = c.used /\ added = c.added /\ A = air \o c.out
  OBVIOUS
<1>6. /\ u \in Nat /\ added \in 0..NsLength /\ u <= Len(symbols) /\ (A = <<>> => u = 0)
      /\ Sound(A) /\ Continues(A, u, added)
      /\ Cardinality(DataEndsOf(A, Len(A))) = num[u] /\ c.out \in Seq(Sample)
  BY <1>4, <1>5 DEF RoundInv, NullState
<1>7. /\ d_ns_added' = added /\ air' = A
      /\ symbols' = SubSeq(symbols, u + 1, Len(symbols))
      /\ starts' = SubSeq(starts, u + 1, Len(starts))
      /\ UNCHANGED <<frame_start, sent, given, vectors, triggers, d_start, marked,
                     d_last_symbol, products>>
  BY <1>1, <1>4, <1>5 DEF source, pilot, sum
<1>8. PICK P, Y, D, M, F \in Nat :
         /\ P = Len(starts) /\ Y = Len(symbols) /\ D = Len(products) /\ M = Len(marked)
         /\ F = InFlight /\ F = P + M /\ P = Y + D
  BY <1>2, QueueLengths DEF InFlight, Lengths
<1>9. u \in Nat /\ u <= Y /\ u <= P /\ u <= F
  BY <1>6, <1>8
<1>10. /\ starts' \in Seq({0, 1}) /\ Len(starts') = P - u
       /\ \A i \in 1..(P - u) : starts'[i] = starts[u + i]
  <2>1. starts \in Seq({0, 1}) /\ u \in 0..Len(starts)
    BY <1>2, <1>8, <1>9 DEF Types
  <2> QED
    BY <1>7, <1>8, <2>1, Dropped
<1>11. /\ symbols' \in Seq(Seq(Int)) /\ Len(symbols') = Y - u
       /\ \A i \in 1..(Y - u) : symbols'[i] = symbols[u + i]
  <2>1. symbols \in Seq(Seq(Int)) /\ u \in 0..Len(symbols)
    BY <1>2, <1>8, <1>9 DEF Types
  <2> QED
    BY <1>7, <1>8, <2>1, Dropped
<1>12. A \in Seq(Sample)
  <2>1. air \in Seq(Sample) /\ c.out \in Seq(Sample)
    BY <1>2, <1>6 DEF Types
  <2> QED
    BY <1>5, <2>1, ConcatProperties
<1>13. Types'
  BY <1>2, <1>7, <1>10, <1>11, <1>12 DEF Types
<1>14. Lengths'
  <2>1. P <= Room /\ Y <= Room /\ Room \in Nat
    BY <1>2, <1>8, QueueLengths DEF Lengths
  <2>2. P - u <= Room /\ Y - u <= Room /\ P - u = Y - u + D
    BY <1>8, <1>9, <2>1
  <2> QED
    BY <1>2, <1>7, <1>8, <1>10, <1>11, <2>2 DEF Lengths
<1>15. Taken' = Taken /\ InFlight' = F - u /\ Inputs'
  <2>1. Taken' = Taken
    BY <1>7 DEF Taken
  <2>2. InFlight' = F - u
    <3>1. InFlight' = Len(starts') + Len(marked)
      BY <1>7 DEF InFlight
    <3>2. P - u + M = F - u
      BY <1>8, <1>9
    <3> QED
      BY <1>8, <1>10, <3>1, <3>2
  <2> QED
    BY <1>2, <1>7, <2>1, <2>2 DEF Inputs
<1>16. \A i \in 1..(F - u) : Flag(i)' = Flag(u + i)
  <2> SUFFICES ASSUME NEW i \in 1..(F - u)
               PROVE  Flag(i)' = Flag(u + i)
    OBVIOUS
  <2>1. PICK j : j = u + i
    OBVIOUS
  <2>2. CASE i <= P - u
    <3>1. i \in 1..(P - u) /\ j <= P
      BY <1>8, <1>9, <2>1, <2>2
    <3>2. starts'[i] = starts[j]
      BY <1>10, <2>1, <3>1
    <3> QED
      BY <1>8, <1>10, <2>1, <2>2, <3>1, <3>2 DEF Flag
  <2>3. CASE i > P - u
    <3>1. ~(j <= P) /\ ~(i <= P - u) /\ j - P = i - (P - u)
      BY <1>8, <1>9, <2>1, <2>3
    <3> QED
      BY <1>7, <1>8, <1>10, <2>1, <3>1 DEF Flag
  <2> QED
    BY <1>8, <1>9, <2>2, <2>3
<1>17. \A i \in 1..(P - u) : Symbol(i)' = Symbol(u + i)
  <2> SUFFICES ASSUME NEW i \in 1..(P - u)
               PROVE  Symbol(i)' = Symbol(u + i)
    OBVIOUS
  <2>1. PICK j : j = u + i
    OBVIOUS
  <2>2. CASE i <= Y - u
    <3>1. i \in 1..(Y - u) /\ j <= Y
      BY <1>8, <1>9, <2>1, <2>2
    <3>2. symbols'[i] = symbols[j]
      BY <1>11, <2>1, <3>1
    <3> QED
      BY <1>8, <1>11, <2>1, <2>2, <3>1, <3>2 DEF Symbol
  <2>3. CASE i > Y - u
    <3>1. ~(j <= Y) /\ ~(i <= Y - u) /\ j - Y = i - (Y - u)
      BY <1>8, <1>9, <2>1, <2>3
    <3> QED
      BY <1>7, <1>8, <1>11, <2>1, <3>1 DEF Symbol
  <2> QED
    BY <1>8, <1>9, <2>2, <2>3
\* What follows the air is what followed the symbols taken.
<1>18. Ends(A) => SymbolBefore(1)' = SymbolBefore(u + 1)
  <2>1. SymbolBefore(1)' = IF A = <<>> THEN <<>> ELSE A[Len(A)].of
    BY <1>7 DEF SymbolBefore
  <2> QED
    BY <1>6, <2>1 DEF Continues, Ends
<1>19. ASSUME NEW i \in 2..(P - u + 1)
       PROVE  SymbolBefore(i)' = SymbolBefore(u + i)
  <2>1. PICK j : j = u + i
    OBVIOUS
  <2>2. i - 1 \in 1..(P - u) /\ i > 1 /\ j > 1 /\ j - 1 = u + (i - 1)
    BY <1>8, <1>9, <2>1
  <2>3. Symbol(i - 1)' = Symbol(j - 1)
    BY <1>17, <2>2
  <2> QED
    BY <2>1, <2>2, <2>3 DEF SymbolBefore
<1>20. SymbolBefore(P - u + 1)' = SymbolBefore(P + 1)
  <2>1. CASE u < P
    <3>1. P - u + 1 \in 2..(P - u + 1) /\ u + (P - u + 1) = P + 1
      BY <1>8, <1>9, <2>1
    <3> QED
      BY <1>19, <3>1
  <2>2. CASE u = P /\ Ends(A)
    <3>1. P - u + 1 = 1 /\ u + 1 = P + 1
      BY <1>8, <1>9, <2>2
    <3> QED
      BY <1>18, <2>2, <3>1
  <2>3. CASE u = P /\ ~Ends(A)
    <3>1. A = <<>>
      BY <1>6, <1>8, <1>9, <2>3 DEF Continues
    <3>2. u = 0 /\ air = <<>> /\ P - u + 1 = 1 /\ P + 1 = 1
      <4>1. air = <<>>
        <5>1. air \in Seq(Sample) /\ c.out \in Seq(Sample)
          BY <1>2, <1>6 DEF Types
        <5>2. Len(air \o c.out) = Len(air) + Len(c.out)
          BY <5>1
        <5>3. Len(air \o c.out) = 0
          BY <1>5, <3>1
        <5>4. Len(air) \in Nat /\ Len(c.out) \in Nat
          BY <5>1, LenProperties
        <5>5. Len(air) = 0
          BY <5>2, <5>3, <5>4
        <5> QED
          BY <5>1, <5>5, EmptySeq
      <4> QED
        BY <1>6, <1>8, <2>3, <3>1, <4>1
    <3>3. SymbolBefore(1)' = <<>> /\ SymbolBefore(1) = <<>>
      BY <1>7, <3>1, <3>2 DEF SymbolBefore
    <3> QED
      BY <3>2, <3>3
  <2> QED
    BY <1>8, <1>9, <2>1, <2>2, <2>3
<1>21. Chained'
  <2>1. d_last_symbol' = SymbolBefore(Len(starts) + 1)'
    <3>1. d_last_symbol' = SymbolBefore(P - u + 1)'
      BY <1>2, <1>7, <1>8, <1>20 DEF Chained
    <3>2. PICK j : j = P - u + 1
      OBVIOUS
    <3>3. Len(starts') + 1 = j
      BY <1>10, <3>2
    <3> QED
      BY <3>1, <3>2, <3>3
  <2>2. ASSUME NEW i \in 1..(F - u - 1), Flag(i)' = 1
        PROVE  Flag(i + 1)' = 0
    <3>1. PICK j : j = i + 1
      OBVIOUS
    <3>2. /\ i \in 1..(F - u) /\ j \in 1..(F - u) /\ u + i \in 1..(F - 1)
          /\ u + j = u + i + 1
      BY <1>8, <1>9, <3>1
    <3>3. Flag(u + i) = 1 /\ Flag(j)' = Flag(u + i + 1)
      BY <1>16, <2>2, <3>2
    <3>4. Flag(u + i + 1) = 0
      BY <1>2, <1>8, <3>2, <3>3 DEF Chained
    <3> QED
      BY <3>1, <3>3, <3>4
  <2>3. F - u > 0 => (Flag(F - u)' = 1 <=> d_start' = 1)
    <3> SUFFICES ASSUME F - u > 0
                 PROVE  Flag(F - u)' = 1 <=> d_start' = 1
      OBVIOUS
    <3>1. F - u \in 1..(F - u) /\ u + (F - u) = F /\ F > 0
      BY <1>8, <1>9
    <3>2. Flag(F - u)' = Flag(F)
      BY <1>16, <3>1
    <3> QED
      BY <1>2, <1>7, <1>8, <3>1, <3>2 DEF Chained
  <2>4. Flag(InFlight)' = Flag(F - u)'
    <3>1. PICK j : j = F - u
      OBVIOUS
    <3>2. InFlight' = j
      BY <1>15, <3>1
    <3> QED
      BY <3>1, <3>2
  <2> QED
    BY <1>15, <2>1, <2>2, <2>3, <2>4 DEF Chained
<1> DEFINE counts == [i \in 0..(F - u) |-> num[u + i]]
<1>22. /\ \A i \in 0..(F - u) : counts[i] = num[u + i]
       /\ counts \in [0..InFlight' -> 0..NumVectors]
  <2>1. \A i \in 0..(F - u) : u + i \in 0..F
    BY <1>8, <1>9
  <2>2. \A i \in 0..(F - u) : num[u + i] \in 0..NumVectors
    BY <1>3, <1>8, <2>1
  <2>3. counts \in [0..(F - u) -> 0..NumVectors]
    BY <2>2
  <2> QED
    BY <1>15, <2>3
<1> HIDE DEF counts
<1>23. Numbered(counts)'
  <2>1. counts[F - u] = Taken
    <3>1. F - u \in 0..(F - u) /\ u + (F - u) = F
      BY <1>8, <1>9
    <3>2. counts[F - u] = num[F]
      BY <1>22, <3>1
    <3>3. num[F] = Taken
      BY <1>3, <1>8 DEF Numbered
    <3> QED
      BY <3>2, <3>3
  <2>2. ASSUME NEW i \in 1..(F - u)
        PROVE  counts[i] = IF Flag(i)' = 1 THEN counts[i - 1] ELSE counts[i - 1] + 1
    <3>1. PICK j : j = u + i
      OBVIOUS
    <3>2. /\ j \in 1..F /\ i \in 0..(F - u) /\ i - 1 \in 0..(F - u) /\ u + (i - 1) = j - 1
      BY <1>8, <1>9, <3>1
    <3>3. counts[i] = num[j] /\ counts[i - 1] = num[j - 1] /\ Flag(i)' = Flag(j)
      BY <1>16, <1>22, <3>1, <3>2
    <3>4. num[j] = IF Flag(j) = 1 THEN num[j - 1] ELSE num[j - 1] + 1
      BY <1>3, <1>8, <3>2 DEF Numbered
    <3> QED
      BY <3>3, <3>4
  <2>3. ASSUME NEW k \in 1..M
        PROVE  marked'[k].of = IF marked'[k].trigger = 1 THEN Pilot ELSE counts[P - u + k]
    <3>1. P - u + k \in 0..(F - u) /\ u + (P - u + k) = P + k
      BY <1>8, <1>9
    <3>2. counts[P - u + k] = num[P + k]
      BY <1>22, <3>1
    <3> QED
      BY <1>3, <1>7, <1>8, <3>2 DEF Numbered
  <2>4. ASSUME NEW i \in 1..(P - u)
        PROVE  Symbol(i)' = IF starts'[i] = 1 THEN <<Pilot>>
                            ELSE Append(SymbolBefore(i)', counts[i])
    <3>1. PICK j : j = u + i
      OBVIOUS
    <3>2. j \in 1..P /\ i \in 0..(F - u) /\ (i = 1 \/ i \in 2..(P - u + 1))
      BY <1>8, <1>9, <3>1
    <3>3. counts[i] = num[j] /\ Symbol(i)' = Symbol(j) /\ starts'[i] = starts[j]
      BY <1>10, <1>17, <1>22, <3>1, <3>2
    <3>4. Symbol(j) = IF starts[j] = 1 THEN <<Pilot>> ELSE Append(SymbolBefore(j), num[j])
      BY <1>3, <1>8, <3>2 DEF Numbered
    <3>5. starts[j] # 1 => SymbolBefore(i)' = SymbolBefore(j)
      <4>1. CASE i = 1
        <5>1. starts[j] # 1 => Ends(A)
          <6>1. starts[j] \in {0, 1}
            <7>1. starts \in Seq({0, 1})
              BY <1>2 DEF Types
            <7> QED
              BY <1>8, <3>2, <7>1, ElementOfSeq
          <6>2. Flag(u + 1) = starts[j] /\ u < InFlight
            BY <1>8, <1>9, <3>1, <3>2, <4>1 DEF Flag
          <6> QED
            BY <1>6, <6>1, <6>2 DEF Continues
        <5> QED
          BY <1>18, <3>1, <4>1, <5>1
      <4>2. CASE i \in 2..(P - u + 1)
        BY <1>19, <3>1, <4>2
      <4> QED
        BY <3>2, <4>1, <4>2
    <3> QED
      BY <3>3, <3>4, <3>5
  <2> QED
    BY <1>7, <1>8, <1>10, <1>15, <2>1, <2>2, <2>3, <2>4 DEF Numbered
<1>24. OnAir(counts)'
  <2>1. counts[0] = num[u]
    <3>1. 0 \in 0..(F - u) /\ u + 0 = u
      BY <1>8, <1>9
    <3> QED
      BY <1>22, <3>1
  <2>2. Cardinality(DataEnds(Len(air)))' = num[u]
    <3>1. DataEnds(Len(air))' = DataEndsOf(A, Len(A))
      BY <1>7 DEF DataEnds, DataEndsOf
    <3> QED
      BY <1>6, <3>1
  <2>3. Continues(air, 0, d_ns_added)'
    <3>1. u < F => Flag(1)' = Flag(u + 1)
      <4>1. u < F => 1 \in 1..(F - u)
        BY <1>8, <1>9
      <4> QED
        BY <1>16, <4>1
    <3>2. /\ (0 < InFlight' <=> u < InFlight) /\ (0 = InFlight' <=> u = InFlight)
          /\ (u < InFlight <=> u < F)
      <4>1. (0 < F - u <=> u < F) /\ (0 = F - u <=> u = F)
        BY <1>8, <1>9
      <4>2. InFlight = F /\ InFlight' = F - u
        BY <1>8, <1>15
      <4> QED
        BY <4>1, <4>2
    <3>3. u < Len(symbols) /\ u < Len(starts) /\ starts[u + 1] = 1 =>
             0 < Len(symbols') /\ 0 < Len(starts') /\ starts'[1] = 1
      <4>1. u < P => 1 \in 1..(P - u)
        BY <1>8, <1>9
      <4> QED
        BY <1>8, <1>9, <1>10, <1>11, <4>1, SMTT(20)
    <3>4. 0 + 1 = 1
      OBVIOUS
    <3>5. Continues(A, u, added)
      BY <1>6
    <3>6. SymbolBefore(0 + 1)' = SymbolBefore(1)' /\ Flag(0 + 1)' = Flag(1)'
      BY <3>4
    <3>7. /\ A = <<>> => added = 0
          /\ Ends(A) => A[Len(A)].of = SymbolBefore(1)'
      BY <1>18, <3>5 DEF Continues
    <3>8. Ends(A) /\ A[Len(A)].of = <<Pilot>> =>
             added = NsLength
             /\ IF 0 < InFlight' THEN Flag(1)' = 0 ELSE d_start' = 1
      BY <1>7, <3>1, <3>2, <3>5 DEF Continues
    <3>9. /\ Ends(A) /\ A[Len(A)].of # <<Pilot>> => added = 0
          /\ A # <<>> /\ ~Ends(A) =>
                /\ Silent(A, added)
                /\ 0 < Len(symbols') /\ 0 < Len(starts') /\ starts'[1] = 1
      BY <3>3, <3>5 DEF Continues
    <3>10. /\ 0 < InFlight' /\ Flag(1)' = 0 => Ends(A)
           /\ 0 = InFlight' /\ (Taken' > 0 \/ d_start' = 1) => Ends(A)
      BY <1>7, <1>15, <3>1, <3>2, <3>5 DEF Continues
    <3> QED
      BY <1>7, <3>4, <3>6, <3>7, <3>8, <3>9, <3>10 DEF Continues
  <2> QED
    BY <1>6, <1>7, <2>1, <2>2, <2>3 DEF OnAir
<1> QED
  BY <1>13, <1>14, <1>15, <1>21, <1>22, <1>23, <1>24 DEF TInv

-----------------------------------------------------------------------------
LEMMA TransmitterInvariant == Spec => []TInv
<1>1. Init => TInv
  BY StartInvariant
<1>2. TInv /\ [Next]_vars => TInv'
  <2> SUFFICES ASSUME TInv, [Next]_vars
               PROVE  TInv'
    OBVIOUS
  <2>1. CASE UNCHANGED vars
    <3>1. /\ UNCHANGED <<frame_start, sent, given, vectors, triggers>>
          /\ UNCHANGED <<d_start, sum, products, null, air>>
      BY <2>1 DEF vars, source, pilot
    <3>2. Types /\ Lengths /\ Inputs /\ Chained
      BY DEF TInv
    <3>3. Taken' = Taken
      BY <3>1 DEF Taken
    <3>4. Types' /\ Lengths' /\ Inputs'
      BY <3>1, <3>2, <3>3 DEF Types, Lengths, Inputs, sum, null
    <3>5. PICK num : /\ num \in [0..InFlight -> 0..NumVectors]
                     /\ Numbered(num) /\ OnAir(num)
      BY DEF TInv
    <3>6. /\ Chained' /\ Numbered(num)' /\ OnAir(num)'
          /\ num \in [0..InFlight' -> 0..NumVectors]
      BY <3>1, <3>2, <3>3, <3>5, FlightKept
    <3> QED
      BY <3>4, <3>6 DEF TInv
  <2> QED
    BY <2>1, SendInvariant, GiveInvariant, PilotInvariant, SumInvariant,
       ModulateInvariant, NullInvariant DEF Next
<1> QED
  BY <1>1, <1>2, PTL DEF Spec

LEMMA InvariantTypes == TInv => TypeOK
<1> SUFFICES ASSUME TInv
             PROVE  TypeOK
  OBVIOUS
<1>1. Types /\ Lengths
  BY DEF TInv
<1>2. PICK num : /\ num \in [0..InFlight -> 0..NumVectors]
                 /\ Numbered(num) /\ OnAir(num)
  BY DEF TInv
<1>3. Pending \subseteq 0..Room
  BY <1>1, QueueLengths DEF Lengths, Pending
<1>4. ASSUME NEW k \in 1..Len(marked)
      PROVE  marked[k].of \in 0..NumVectors
  <2>1. NumVectors \in Nat /\ Len(starts) \in Nat /\ Len(marked) \in Nat
    BY <1>1, QueueLengths
  <2>2. Len(starts) + k \in 0..InFlight
    BY <2>1 DEF InFlight
  <2>3. num[Len(starts) + k] \in 0..NumVectors
    BY <1>2, <2>2
  <2>4. marked[k].of = IF marked[k].trigger = 1 THEN Pilot ELSE num[Len(starts) + k]
    BY <1>2 DEF Numbered
  <2> QED
    BY <2>1, <2>3, <2>4 DEF Pilot
<1> QED
  BY <1>1, <1>2, <1>3, <1>4 DEF TypeOK, Types, OnAir

LEMMA InvariantNulls == TInv => NullBeforePilot
<1> SUFFICES ASSUME TInv
             PROVE  NullBeforePilot
  OBVIOUS
<1>1. Sound(air) /\ air \in Seq(Sample)
  BY DEF TInv, OnAir, Types
<1>2. NsLength \in Nat \ {0} /\ Len(air) \in Nat
  BY <1>1, LenProperties, TransmitterAssumption
<1>3. ASSUME NEW p \in 1..Len(air), p > NsLength,
             \A i \in 1..NsLength : air[p - 1 - NsLength + i] = Silence
      PROVE  Before(p, NsLength) = [k \in 1..NsLength |-> Silence]
  <2>1. PICK a, b : a = p - NsLength /\ b = p - 1
    OBVIOUS
  <2>2. a \in 1..Len(air) /\ b \in 1..Len(air) /\ b - a + 1 = NsLength /\ a <= b
    BY <1>2, <1>3, <2>1
  <2>3. Before(p, NsLength) = [i \in 1..(b - a + 1) |-> air[i + a - 1]]
    BY <2>1 DEF Before, SubSeq
  <2>4. \A i \in 1..NsLength : i + a - 1 = p - 1 - NsLength + i
    BY <1>2, <2>1
  <2>5. Before(p, NsLength) = [i \in 1..NsLength |-> air[i + a - 1]]
    BY <2>2, <2>3
  <2>6. \A i \in 1..NsLength : air[i + a - 1] = Silence
    BY <1>3, <2>4
  <2> QED
    BY <2>5, <2>6
<1>4. ASSUME NEW p \in 1..Len(air)
      PROVE  /\ air[p].at > 1 => p > 1 /\ air[p - 1] = [air[p] EXCEPT !.at = @ - 1]
             /\ air[p].at = 1 =>
                   IF air[p].of = <<Pilot>>
                   THEN /\ p > NsLength
                        /\ Before(p, NsLength) = [k \in 1..NsLength |-> Silence]
                        /\ p > NsLength + 1 => air[p - NsLength - 1].at = SymbolLength
                   ELSE p > 1 /\ air[p - 1].at = SymbolLength
  <2>1. NullFirst(air, p)
    BY <1>1 DEF Sound
  <2>2. p - NsLength - 1 = p - 1 - NsLength
    BY <1>2
  <2> QED
    BY <1>3, <2>1, <2>2 DEF NullFirst
<1> QED
  BY <1>4 DEF NullBeforePilot

\* The blocks' queues keep to their room, the counts to their ranges, and no
\* more is put out than was given: insert_pilot never reads a vector that has
\* not arrived (ofdm_insert_pilot_vcc, whose loop looks at the triggers alone).
THEOREM TransmitterTypes == Spec => []TypeOK
<1>1. TInv => TypeOK
  BY InvariantTypes
<1> QED
  BY <1>1, TransmitterInvariant, PTL

\* Whatever the triggers, and however the threads and the lengths of their
\* calls fall, the quotients of successive symbols on the air are the vectors
\* in order, none lost, doubled or mixed up (ofdm_mod).
THEOREM VectorsAreReceived == Spec => []ReceiverGetsVectors
<1>1. TInv => ReceiverGetsVectors
  <2> SUFFICES ASSUME TInv
               PROVE  ReceiverGetsVectors
    OBVIOUS
  <2>1. \A p \in DataEndsOf(air, Len(air)) : GetsVector(air, p)
    BY DEF TInv, OnAir, Sound
  <2>2. \A last : DataEnds(last) = DataEndsOf(air, last)
    BY DEF DataEnds, DataEndsOf
  <2> QED
    BY <2>1, <2>2 DEF ReceiverGetsVectors, GetsVector
<1> QED
  BY <1>1, TransmitterInvariant, PTL

\* Every pilot on the air has a null symbol of NsLength samples before it, in
\* one piece, and nothing else is silent or cut (insert_null_symbol).
THEOREM NullsBeforePilots == Spec => []NullBeforePilot
<1>1. TInv => NullBeforePilot
  BY InvariantNulls
<1> QED
  BY <1>1, TransmitterInvariant, PTL
=============================================================================
