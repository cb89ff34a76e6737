-------------------------- MODULE NullSearchProofs --------------------------
(***************************************************************************)
(* Proofs about NullSearch: for all energies, thresholds and averages, the *)
(* marks are the first maxima of excursions that follow one another.       *)
(***************************************************************************)
EXTENDS NullSearch, FiniteSetTheorems, TLAPS

(* The search starts a call at its first item.                             *)
Calls == noutput = 0 => i = 0 /\ peak_ind = 0

(* Where the excursion in progress stands: it has just begun, or its       *)
(* maximum is known.  What is marked lies before it.                       *)
Begun == d_peak_val = NegInfinity
Place ==
    /\ d_state = 0 => Begun
    /\ d_state = 1 /\ Begun => from = Item(i) /\ noutput > 0 /\ i < noutput
    /\ d_state = 1 /\ ~Begun => from <= Item(peak_ind) /\ (peak_ind < i \/ i = 0)
    /\ \A k \in 1..Len(peaks) : /\ peaks[k].to <= Len(in)
                                /\ d_state = 0 => peaks[k].to <= Item(i)
                                /\ d_state = 1 => peaks[k].to <= from

(* An excursion that no restart has cut has its maximum so far at peak_ind; *)
(* when a call begins, that is its first item.                             *)
SeenTo == IF i = 0 THEN Item(0) ELSE read + i
Maximum ==
    d_state = 1 /\ ~Begun /\ whole =>
        /\ SeenTo <= Len(in) /\ in[Item(peak_ind)] = d_peak_val
        /\ IsFirstMaximum(Item(peak_ind), from, SeenTo)

IInv == TypeOK /\ Calls /\ Place /\ Maximum /\ MarksMaxima /\ ExcursionsFollow

-----------------------------------------------------------------------------
LEMMA Initially == Init => IInv
<1> SUFFICES ASSUME Init PROVE IInv OBVIOUS
<1>1. TypeOK
  <2>1. in \in Seq(Energies) /\ Len(in) = 0 /\ read = 0
    BY DEF Init
  <2>2. peaks \in Seq(Peak)
    BY DEF Init
  <2>3. whole \in BOOLEAN
    BY Zenon DEF Init
  <2>4. /\ d_state \in {0, 1} /\ d_peak_val \in Energies \cup {NegInfinity}
        /\ d_avg \in Levels
    BY NullAssumption DEF Init
  <2>5. /\ noutput \in 0..(Len(in) - read) /\ i \in 0..noutput /\ peak_ind \in 0..i
        /\ from \in 1..(Len(in) + 1) /\ restarts \in Nat
    BY <2>1 DEF Init
  <2> QED BY <2>1, <2>2, <2>3, <2>4, <2>5 DEF TypeOK
<1>2. Calls /\ Place /\ Maximum /\ MarksMaxima /\ ExcursionsFollow
  BY DEF Init, Calls, Begun, Place, Maximum, MarksMaxima, ExcursionsFollow
<1> QED BY <1>1, <1>2 DEF IInv

(* The types, spelled out for the arithmetic.                              *)
LEMMA Numbers ==
    ASSUME TypeOK
    PROVE  /\ Len(in) \in Nat /\ read \in Nat /\ read <= Len(in)
           /\ noutput \in Nat /\ i \in Nat /\ peak_ind \in Nat /\ from \in Nat
           /\ read + noutput <= Len(in) /\ i <= noutput /\ peak_ind <= i
           /\ \A n \in 1..Len(in) : in[n] \in Energies /\ in[n] \in Int
           /\ d_peak_val \in Int /\ d_state \in {0, 1}
           /\ Len(peaks) \in Nat
           /\ \A k \in 1..Len(peaks) : /\ peaks[k].from \in Nat /\ 1 <= peaks[k].from
                                       /\ peaks[k].mark \in Nat /\ peaks[k].to \in Nat
<1>1. /\ Len(in) \in Nat /\ read \in Nat /\ read <= Len(in)
      /\ noutput \in Nat /\ i \in Nat /\ peak_ind \in Nat /\ from \in Nat
      /\ read + noutput <= Len(in) /\ i <= noutput /\ peak_ind <= i
      /\ d_state \in {0, 1}
  BY DEF TypeOK
<1>2. \A n \in 1..Len(in) : in[n] \in Energies /\ in[n] \in Int
  <2>1. in \in Seq(Energies)
    BY DEF TypeOK
  <2>2. \A n \in 1..Len(in) : in[n] \in Energies
    BY <2>1
  <2>3. \A e \in Energies : e \in Int
    BY NullAssumption
  <2> QED BY <2>2, <2>3
<1>3. d_peak_val \in Int
  BY NullAssumption DEF TypeOK
<1>4. /\ Len(peaks) \in Nat
      /\ \A k \in 1..Len(peaks) :
            peaks[k] \in Peak
  <2>1. peaks \in Seq(Peak)
    BY DEF TypeOK
  <2> QED BY <2>1
<1> QED BY <1>1, <1>2, <1>3, <1>4 DEF Peak

LEMMA ArriveStep == IInv /\ Arrive => IInv'
<1> SUFFICES ASSUME IInv, Arrive PROVE IInv' OBVIOUS
<1> USE DEF IInv
<1>0. PICK e \in Energies : in' = Append(in, e)
  BY DEF Arrive
<1>1. /\ UNCHANGED <<read, d_state, d_peak_val, d_avg, noutput, i, peak_ind, from>>
      /\ UNCHANGED <<whole, peaks, restarts>>
  BY DEF Arrive, local, history
<1>2. /\ in' \in Seq(Energies) /\ Len(in') = Len(in) + 1
      /\ \A n \in 1..Len(in) : in'[n] = in[n]
  BY <1>0 DEF TypeOK
<1>3. TypeOK'
  BY <1>1, <1>2, Numbers DEF TypeOK
<1>4. Calls' /\ Place'
  BY <1>1, <1>2, Numbers DEF Calls, Place, Begun, Item
<1>5. \A m, a, b \in Nat : /\ 1 <= a /\ b <= Len(in) /\ IsFirstMaximum(m, a, b)
                            => IsFirstMaximum(m, a, b)'
  <2> SUFFICES ASSUME NEW m \in Nat, NEW a \in Nat, NEW b \in Nat,
                      1 <= a, b <= Len(in), IsFirstMaximum(m, a, b)
               PROVE  IsFirstMaximum(m, a, b)'
    OBVIOUS
  <2>1. \A j \in a..b : in'[j] = in[j]
    <3>1. Len(in) \in Nat
      BY Numbers
    <3>2. \A j \in a..b : j \in 1..Len(in)
      BY <3>1
    <3> QED BY <1>2, <3>2
  <2>2. m \in a..b /\ \A j \in a..(m - 1) : j \in a..b
    BY DEF IsFirstMaximum
  <2> QED BY <2>1, <2>2 DEF IsFirstMaximum
<1>6. Maximum'
  <2> SUFFICES ASSUME d_state = 1, ~Begun, whole PROVE Maximum'
    BY <1>1 DEF Maximum, Begun
  <2>1. SeenTo' = SeenTo /\ Item(peak_ind)' = Item(peak_ind)
    BY <1>1 DEF SeenTo, Item
  <2>2. Item(peak_ind) \in Nat /\ SeenTo \in Nat /\ from \in Nat /\ 1 <= from
    BY Numbers DEF Item, SeenTo, TypeOK
  <2>3. IsFirstMaximum(Item(peak_ind), from, SeenTo) /\ SeenTo <= Len(in)
    BY DEF Maximum
  <2>4. Item(peak_ind) \in 1..Len(in)
    BY <2>2, <2>3, Numbers DEF IsFirstMaximum
  <2>5. IsFirstMaximum(Item(peak_ind), from, SeenTo)'
    BY <1>1, <1>5, <2>1, <2>2, <2>3 DEF IsFirstMaximum
  <2>6. in'[Item(peak_ind)] = d_peak_val
    BY <1>2, <2>4 DEF Maximum
  <2> QED BY <1>1, <1>2, <2>1, <2>3, <2>2, <2>5, <2>6, Numbers DEF Maximum
<1>7. MarksMaxima'
  <2> SUFFICES ASSUME NEW k \in 1..Len(peaks), peaks[k].whole
               PROVE  IsFirstMaximum(peaks[k].mark, peaks[k].from, peaks[k].to - 1)'
    BY <1>1 DEF MarksMaxima
  <2>1. IsFirstMaximum(peaks[k].mark, peaks[k].from, peaks[k].to - 1)
    BY DEF MarksMaxima
  <2>2. peaks[k].to <= Len(in)
    BY DEF Place
  <2>3. \A j \in peaks[k].from..(peaks[k].to - 1) : in'[j] = in[j]
    <3>1. 1 <= peaks[k].from /\ peaks[k].from \in Nat /\ peaks[k].to \in Nat
      BY Numbers
    <3>2. \A j \in peaks[k].from..(peaks[k].to - 1) : j \in 1..Len(in)
      <4>1. Len(in) \in Nat
        BY Numbers
      <4> QED BY <2>2, <3>1, <4>1
    <3> QED BY <1>2, <3>2
  <2>4. /\ peaks[k].mark \in peaks[k].from..(peaks[k].to - 1)
        /\ \A j \in peaks[k].from..(peaks[k].mark - 1) :
              j \in peaks[k].from..(peaks[k].to - 1)
    BY <2>1, Numbers DEF IsFirstMaximum
  <2> QED BY <1>1, <2>1, <2>3, <2>4 DEF IsFirstMaximum
<1>8. ExcursionsFollow'
  BY <1>1 DEF ExcursionsFollow
<1> QED BY <1>3, <1>4, <1>6, <1>7, <1>8

LEMMA RestartStep == IInv /\ Restart => IInv'
<1> SUFFICES ASSUME IInv, Restart PROVE IInv' OBVIOUS
<1> USE DEF IInv
<1>1. /\ noutput = 0 /\ read' = Len(in) /\ whole' = (d_state = 0)
      /\ restarts' = restarts + 1
      /\ UNCHANGED <<in, d_state, d_peak_val, d_avg, noutput, i, peak_ind, from, peaks>>
  BY DEF Restart, local
<1>2. i = 0 /\ peak_ind = 0
  BY <1>1 DEF Calls
<1>3. TypeOK'
  <2>1. whole' \in BOOLEAN
    BY <1>1, Zenon
  <2> QED BY <1>1, <1>2, <2>1, Numbers DEF TypeOK
<1>4. Calls' /\ Place'
  BY <1>1, <1>2, Numbers DEF Calls, Place, Begun, Item
<1>5. Maximum'
  <2>1. d_state = 1 => ~(d_state = 0)
    OBVIOUS
  <2>2. d_state = 1 => ~whole'
    BY <1>1, <2>1, Zenon
  <2> QED BY <1>1, <2>2 DEF Maximum
<1>6. MarksMaxima' /\ ExcursionsFollow'
  BY <1>1 DEF MarksMaxima, ExcursionsFollow, IsFirstMaximum
<1> QED BY <1>3, <1>4, <1>5, <1>6

-----------------------------------------------------------------------------
(* A step of a call that leaves the stream and the marks as they are.       *)
LEMMA MarksKept ==
    ASSUME MarksMaxima, ExcursionsFollow, UNCHANGED <<in, peaks>>
    PROVE  MarksMaxima' /\ ExcursionsFollow'
BY DEF MarksMaxima, ExcursionsFollow, IsFirstMaximum

LEMMA WorkBeginStep == IInv /\ WorkBegin => IInv'
<1> SUFFICES ASSUME IInv, WorkBegin PROVE IInv' OBVIOUS
<1> USE DEF IInv
<1>1. /\ noutput = 0 /\ Len(in) > read /\ noutput' = Len(in) - read
      /\ i' = 0 /\ peak_ind' = 0
      /\ UNCHANGED <<in, read, d_state, d_peak_val, d_avg, from, whole, peaks, restarts>>
  BY DEF WorkBegin, history
<1>2. i = 0 /\ peak_ind = 0
  BY <1>1 DEF Calls
<1>3. TypeOK'
  BY <1>1, Numbers DEF TypeOK
<1>4. Calls' /\ Place'
  BY <1>1, <1>2, Numbers DEF Calls, Place, Begun, Item
<1>5. Maximum'
  <2>1. /\ SeenTo' = SeenTo /\ Item(peak_ind)' = Item(peak_ind)
        /\ Begun' <=> Begun
    BY <1>1, <1>2 DEF SeenTo, Item, Begun
  <2>3. IsFirstMaximum(Item(peak_ind), from, SeenTo)'
           <=> IsFirstMaximum(Item(peak_ind), from, SeenTo)
    BY <1>1, <2>1 DEF IsFirstMaximum
  <2> SUFFICES ASSUME d_state = 1, ~Begun, whole PROVE Maximum'
    BY <1>1, <2>1 DEF Maximum
  <2>4. /\ SeenTo <= Len(in) /\ in[Item(peak_ind)] = d_peak_val
        /\ IsFirstMaximum(Item(peak_ind), from, SeenTo)
    BY DEF Maximum
  <2>5. SeenTo' <= Len(in') /\ in'[Item(peak_ind)'] = d_peak_val'
    BY <1>1, <2>1, <2>4
  <2> QED BY <2>3, <2>4, <2>5 DEF Maximum
<1>6. MarksMaxima' /\ ExcursionsFollow'
  BY <1>1, MarksKept
<1> QED BY <1>3, <1>4, <1>5, <1>6

(* The average stays a level.                                               *)
LEMMA AverageIsLevel ==
    ASSUME TypeOK, d_avg' \in Averaged(d_avg, x)
    PROVE  d_avg' \in Levels
BY DEF Averaged, TypeOK

LEMMA BelowStep == IInv /\ Below => IInv'
<1> SUFFICES ASSUME IInv, Below PROVE IInv' OBVIOUS
<1> USE DEF IInv
<1>1. /\ noutput > 0 /\ i < noutput /\ d_state = 0 /\ i' = i + 1
      /\ d_avg' \in Averaged(d_avg, x)
      /\ UNCHANGED <<in, read, d_state, d_peak_val, noutput, peak_ind, from, whole>>
      /\ UNCHANGED <<peaks, restarts>>
  BY DEF Below, Looping, history
<1>2. d_avg' \in Levels
  BY <1>1, AverageIsLevel
<1>3. TypeOK'
  BY <1>1, <1>2, Numbers DEF TypeOK
<1>4. Calls' /\ Place'
  <2>1. Calls'
    BY <1>1 DEF Calls
  <2>2. Begun' /\ d_state' = 0
    BY <1>1 DEF Place, Begun
  <2>3. Item(i) <= Item(i)' /\ Item(i) \in Int /\ Item(i)' \in Int
    BY <1>1, Numbers DEF Item
  <2>4. \A k \in 1..Len(peaks) : peaks[k].to <= Len(in) /\ peaks[k].to <= Item(i)
    BY <1>1 DEF Place
  <2>5. \A k \in 1..Len(peaks) : peaks[k].to <= Item(i)'
    BY <2>3, <2>4, Numbers
  <2> QED BY <1>1, <2>1, <2>2, <2>4, <2>5 DEF Place
<1>5. Maximum'
  BY <1>1 DEF Maximum
<1>6. MarksMaxima' /\ ExcursionsFollow'
  BY <1>1, MarksKept
<1> QED BY <1>3, <1>4, <1>5, <1>6

LEMMA RisesStep == IInv /\ Rises => IInv'
<1> SUFFICES ASSUME IInv, Rises PROVE IInv' OBVIOUS
<1> USE DEF IInv
<1>1. /\ noutput > 0 /\ i < noutput /\ d_state = 0 /\ d_state' = 1
      /\ from' = Item(i) /\ whole' = TRUE
      /\ UNCHANGED <<in, read, d_peak_val, d_avg, noutput, i, peak_ind, peaks, restarts>>
  BY DEF Rises, Looping, local
<1>2. d_peak_val' = NegInfinity
  BY <1>1 DEF Place, Begun
<1>3. TypeOK'
  <2>1. whole' \in BOOLEAN
    BY <1>1, Zenon
  <2>2. from' \in 1..(Len(in) + 1)
    BY <1>1, Numbers DEF Item
  <2> QED BY <1>1, <2>1, <2>2 DEF TypeOK
<1>4. Calls' /\ Place'
  <2>1. Calls'
    BY <1>1 DEF Calls
  <2>2. Begun' /\ from' = Item(i)' /\ noutput' > 0 /\ i' < noutput'
    BY <1>1, <1>2 DEF Begun, Item
  <2>3. \A k \in 1..Len(peaks) : peaks[k].to <= Len(in) /\ peaks[k].to <= Item(i)
    BY <1>1 DEF Place
  <2>4. \A k \in 1..Len(peaks') :
           /\ peaks'[k].to <= Len(in')
           /\ d_state' = 0 => peaks'[k].to <= Item(i)'
           /\ d_state' = 1 => peaks'[k].to <= from'
    BY <1>1, <2>3
  <2>5. d_state' = 1
    BY <1>1
  <2> QED BY <2>1, <2>2, <2>4, <2>5 DEF Place
<1>5. Maximum'
  BY <1>2 DEF Maximum, Begun
<1>6. MarksMaxima' /\ ExcursionsFollow'
  BY <1>1, MarksKept
<1> QED BY <1>3, <1>4, <1>5, <1>6

LEMMA NewPeakStep == IInv /\ NewPeak => IInv'
<1> SUFFICES ASSUME IInv, NewPeak PROVE IInv' OBVIOUS
<1> USE DEF IInv
<1>1. /\ noutput > 0 /\ i < noutput /\ d_state = 1 /\ x > d_peak_val
      /\ d_peak_val' = x /\ peak_ind' = i /\ i' = i + 1
      /\ d_avg' \in Averaged(d_avg, x)
      /\ UNCHANGED <<in, read, d_state, noutput, from, whole, peaks, restarts>>
  BY DEF NewPeak, Looping, IsHigher, history
<1>2. d_avg' \in Levels
  BY <1>1, AverageIsLevel
<1>3. Item(i) \in 1..Len(in) /\ x \in Energies /\ x \in Int /\ x # NegInfinity
  <2>1. Item(i) \in 1..Len(in)
    BY <1>1, Numbers DEF Item
  <2>2. x \in Energies /\ x \in Int
    BY <2>1, Numbers DEF x
  <2> QED BY <2>1, <2>2, NullAssumption
<1>4. TypeOK'
  BY <1>1, <1>2, <1>3, Numbers DEF TypeOK
<1>5. from <= Item(i)
  BY <1>1, Numbers DEF Place, Item
<1>6. Calls' /\ Place'
  <2>1. Calls'
    BY <1>1, Numbers DEF Calls
  <2>2. ~Begun' /\ from' <= Item(peak_ind)' /\ peak_ind' < i'
    BY <1>1, <1>3, <1>5, Numbers DEF Begun, Item
  <2>3. \A k \in 1..Len(peaks) : peaks[k].to <= Len(in) /\ peaks[k].to <= from
    BY <1>1 DEF Place
  <2> QED BY <1>1, <2>1, <2>2, <2>3 DEF Place
<1>7. Maximum'
  <2> SUFFICES ASSUME whole PROVE Maximum'
    BY <1>1 DEF Maximum
  <2>1. SeenTo' = Item(i) /\ Item(peak_ind)' = Item(i)
    BY <1>1, Numbers DEF SeenTo, Item
  <2>2. \A j \in from..(Item(i) - 1) : in[j] < x
    <3>1. CASE Begun
      <4>1. from = Item(i)
        BY <1>1, <3>1 DEF Place
      <4> QED BY <1>3, <4>1
    <3>2. CASE ~Begun /\ i = 0
      <4>1. Item(peak_ind) = Item(0) /\ in[Item(peak_ind)] = d_peak_val
        BY <1>1, <3>2, Numbers DEF Maximum
      <4>2. x = d_peak_val
        BY <3>2, <4>1 DEF x
      <4> QED BY <1>1, <1>3, <4>2
    <3>3. CASE ~Begun /\ i # 0
      <4>1. IsFirstMaximum(Item(peak_ind), from, read + i) /\ in[Item(peak_ind)] = d_peak_val
        BY <1>1, <3>3 DEF Maximum, SeenTo
      <4>2. \A j \in from..(read + i) : in[j] <= d_peak_val
        BY <4>1 DEF IsFirstMaximum
      <4>3. /\ Item(i) - 1 = read + i /\ from \in Nat /\ read + i <= Len(in)
            /\ read + i \in Nat
        BY <1>1, Numbers DEF Item
      <4>4. \A j \in from..(read + i) : in[j] \in Int
        <5>1. 1 <= from /\ Len(in) \in Nat
          BY Numbers DEF TypeOK
        <5>2. \A j \in from..(read + i) : j \in 1..Len(in)
          BY <4>3, <5>1
        <5> QED BY <5>2, Numbers
      <4>5. d_peak_val \in Int
        BY Numbers
      <4> QED BY <1>1, <1>3, <4>2, <4>3, <4>4, <4>5
    <3> QED BY <3>1, <3>2, <3>3
  <2>3. IsFirstMaximum(Item(i), from, Item(i))
    <3>1. Item(i) \in from..Item(i)
      BY <1>3, <1>5, Numbers
    <3>2. \A j \in from..Item(i) : j = Item(i) \/ j \in from..(Item(i) - 1)
      BY <1>3, Numbers
    <3>3. in[Item(i)] = x
      BY DEF x
    <3>4. \A j \in from..(Item(i) - 1) : in[j] \in Int
      <4>1. 1 <= from /\ Len(in) \in Nat /\ from \in Nat
        BY Numbers DEF TypeOK
      <4>2. \A j \in from..(Item(i) - 1) : j \in 1..Len(in)
        BY <1>3, <4>1
      <4> QED BY <4>2, Numbers
    <3>5. \A j \in from..Item(i) : in[j] <= x
      BY <1>3, <2>2, <3>2, <3>3, <3>4
    <3> QED BY <2>2, <3>1, <3>3, <3>5 DEF IsFirstMaximum
  <2>4. IsFirstMaximum(Item(peak_ind), from, SeenTo)'
    BY <1>1, <2>1, <2>3 DEF IsFirstMaximum
  <2>5. SeenTo' <= Len(in') /\ in'[Item(peak_ind)'] = d_peak_val'
    BY <1>1, <1>3, <2>1 DEF x
  <2> QED BY <2>4, <2>5 DEF Maximum
<1>8. MarksMaxima' /\ ExcursionsFollow'
  BY <1>1, MarksKept
<1> QED BY <1>4, <1>6, <1>7, <1>8

(* An item that is not higher than the maximum: the maximum is known.       *)
LEMMA NotHigher ==
    ASSUME IInv, Looping, d_state = 1, ~IsHigher
    PROVE  /\ Item(i) \in 1..Len(in) /\ x \in Energies /\ x \in Int /\ x <= d_peak_val
           /\ ~Begun /\ from <= Item(peak_ind) /\ (peak_ind < i \/ i = 0)
<1> USE DEF IInv
<1>1. Item(i) \in 1..Len(in)
  BY Numbers DEF Looping, Item
<1>2. x \in Energies /\ x \in Int
  BY <1>1, Numbers DEF x
<1>3. x <= d_peak_val
  BY <1>2, Numbers DEF IsHigher
<1>4. ~Begun
  BY <1>2, <1>3, NullAssumption DEF Begun
<1> QED BY <1>1, <1>2, <1>3, <1>4 DEF Place

LEMMA StaysAboveStep == IInv /\ StaysAbove => IInv'
<1> SUFFICES ASSUME IInv, StaysAbove PROVE IInv' OBVIOUS
<1> USE DEF IInv
<1>1. /\ noutput > 0 /\ i < noutput /\ d_state = 1 /\ i' = i + 1
      /\ d_avg' \in Averaged(d_avg, x)
      /\ UNCHANGED <<in, read, d_state, d_peak_val, noutput, peak_ind, from, whole>>
      /\ UNCHANGED <<peaks, restarts>>
  BY DEF StaysAbove, Looping, history
<1>2. d_avg' \in Levels
  BY <1>1, AverageIsLevel
<1>3. /\ Item(i) \in 1..Len(in) /\ x \in Energies /\ x \in Int /\ x <= d_peak_val
      /\ ~Begun /\ from <= Item(peak_ind) /\ (peak_ind < i \/ i = 0)
  BY NotHigher DEF StaysAbove
<1>4. TypeOK'
  BY <1>1, <1>2, Numbers DEF TypeOK
<1>5. Calls' /\ Place'
  <2>1. Calls'
    BY <1>1, Numbers DEF Calls
  <2>2. ~Begun' /\ from' <= Item(peak_ind)' /\ peak_ind' < i'
    BY <1>1, <1>3, Numbers DEF Begun, Item
  <2>3. \A k \in 1..Len(peaks) : peaks[k].to <= Len(in) /\ peaks[k].to <= from
    BY <1>1 DEF Place
  <2> QED BY <1>1, <2>1, <2>2, <2>3 DEF Place
<1>6. Maximum'
  <2> SUFFICES ASSUME whole PROVE Maximum'
    BY <1>1 DEF Maximum
  <2>1. /\ SeenTo <= Len(in) /\ in[Item(peak_ind)] = d_peak_val
        /\ IsFirstMaximum(Item(peak_ind), from, SeenTo)
    BY <1>1, <1>3 DEF Maximum
  <2>2. SeenTo' = Item(i) /\ Item(peak_ind)' = Item(peak_ind)
    <3>1. i' # 0 /\ read + i' = read + i + 1
      BY <1>1, Numbers
    <3> QED BY <1>1, <3>1 DEF SeenTo, Item
  <2>3. IsFirstMaximum(Item(peak_ind), from, Item(i))
    <3>1. CASE i = 0
      BY <2>1, <3>1 DEF SeenTo
    <3>2. CASE i # 0
      <4>1. SeenTo = Item(i) - 1 /\ Item(i) \in Nat /\ from \in Nat
        BY <3>2, Numbers DEF SeenTo, Item
      <4>2. \A j \in from..Item(i) : j = Item(i) \/ j \in from..SeenTo
        BY <4>1
      <4>3. \A j \in from..Item(i) : in[j] <= in[Item(peak_ind)]
        BY <1>3, <2>1, <4>2 DEF IsFirstMaximum, x
      <4>4. Item(peak_ind) \in from..Item(i)
        BY <2>1, <4>1 DEF IsFirstMaximum
      <4> QED BY <2>1, <4>3, <4>4 DEF IsFirstMaximum
    <3> QED BY <3>1, <3>2
  <2>4. IsFirstMaximum(Item(peak_ind), from, SeenTo)'
    BY <1>1, <2>2, <2>3 DEF IsFirstMaximum
  <2>5. SeenTo' <= Len(in') /\ in'[Item(peak_ind)'] = d_peak_val'
    BY <1>1, <1>3, <2>1, <2>2
  <2> QED BY <2>4, <2>5 DEF Maximum
<1>7. MarksMaxima' /\ ExcursionsFollow'
  BY <1>1, MarksKept
<1> QED BY <1>4, <1>5, <1>6, <1>7

(* What a falling item appends: the first maximum of the excursion.         *)
LEMMA MarkIsMaximum ==
    ASSUME IInv, Looping, d_state = 1, ~IsHigher, peak_ind # i
    PROVE  /\ Item(peak_ind) < Item(i)
           /\ whole => IsFirstMaximum(Item(peak_ind), from, Item(i) - 1)
<1> USE DEF IInv
<1>1. peak_ind < i /\ ~Begun
  BY NotHigher, Numbers
<1>2. Item(peak_ind) < Item(i) /\ i # 0 /\ Item(i) - 1 = read + i
  BY <1>1, Numbers DEF Item
<1>3. SeenTo = Item(i) - 1
  BY <1>2 DEF SeenTo
<1> QED BY <1>1, <1>2, <1>3 DEF Maximum

LEMMA FallsStep == IInv /\ Falls => IInv'
<1> SUFFICES ASSUME IInv, Falls PROVE IInv' OBVIOUS
<1> USE DEF IInv
<1>1. /\ Looping /\ noutput > 0 /\ i < noutput /\ d_state = 1 /\ ~IsHigher
      /\ d_state' = 0 /\ d_peak_val' = NegInfinity /\ peaks' = Marked
      /\ UNCHANGED <<in, read, d_avg, noutput, i, peak_ind, from, whole, restarts>>
  BY DEF Falls, Looping, local
<1>2. /\ Item(i) \in 1..Len(in) /\ x \in Energies /\ x \in Int /\ x <= d_peak_val
      /\ ~Begun /\ from <= Item(peak_ind) /\ (peak_ind < i \/ i = 0)
  BY <1>1, NotHigher
<1>3. \A k \in 1..Len(peaks) : peaks[k].to <= Len(in) /\ peaks[k].to <= from
  BY <1>1 DEF Place
<1>4. from \in Nat /\ Item(peak_ind) \in Nat /\ Item(peak_ind) <= Item(i)
  BY Numbers DEF Item
<1>5. Calls' /\ Maximum'
  BY <1>1 DEF Calls, Maximum
<1>6. CASE peak_ind = i
  <2>1. peaks' = peaks
    BY <1>1, <1>6 DEF Marked
  <2>2. TypeOK'
    BY <1>1, <2>1 DEF TypeOK
  <2>3. MarksMaxima' /\ ExcursionsFollow'
    BY <1>1, <2>1, MarksKept
  <2>4. \A k \in 1..Len(peaks') : peaks'[k].to <= Len(in') /\ peaks'[k].to <= Item(i)'
    <3>1. Item(i)' = Item(i)
      BY <1>1 DEF Item
    <3>2. from <= Item(i) /\ Item(i) \in Nat
      BY <1>2, <1>4
    <3>3. \A k \in 1..Len(peaks) : peaks[k].to <= Item(i)
      BY <1>3, <1>4, <3>2, Numbers
    <3> QED BY <1>1, <1>3, <2>1, <3>1, <3>3
  <2>5. Place'
    BY <1>1, <2>4 DEF Place, Begun
  <2> QED BY <1>5, <2>2, <2>3, <2>5
<1>7. CASE peak_ind # i
  <2> DEFINE r == [from |-> from, mark |-> Item(peak_ind), to |-> Item(i), whole |-> whole]
  <2>1. peaks' = Append(peaks, r)
    BY <1>1, <1>7 DEF Marked
  <2>2. r \in Peak
    BY <1>2, <1>4 DEF Peak, TypeOK
  <2>3. peaks \in Seq(Peak)
    BY DEF TypeOK
  <2>4. /\ peaks' \in Seq(Peak) /\ Len(peaks) \in Nat /\ Len(peaks') = Len(peaks) + 1
        /\ \A k \in 1..Len(peaks) : peaks'[k] = peaks[k]
        /\ peaks'[Len(peaks) + 1] = r
    BY <2>1, <2>2, <2>3
  <2>5. TypeOK'
    BY <1>1, <2>4 DEF TypeOK
  <2>6. /\ Item(peak_ind) < Item(i)
        /\ whole => IsFirstMaximum(Item(peak_ind), from, Item(i) - 1)
    BY <1>1, <1>7, MarkIsMaximum
  <2>7. \A k \in 1..Len(peaks') : (k \in 1..Len(peaks)) \/ k = Len(peaks) + 1
    BY <2>4
  <2> HIDE DEF r
  <2>8. MarksMaxima'
    <3>1. ASSUME NEW k \in 1..Len(peaks'), peaks'[k].whole
          PROVE  IsFirstMaximum(peaks'[k].mark, peaks'[k].from, peaks'[k].to - 1)
      <4>1. CASE k \in 1..Len(peaks)
        BY <2>4, <3>1, <4>1 DEF MarksMaxima
      <4>2. CASE k = Len(peaks) + 1
        BY <2>4, <2>6, <3>1, <4>2 DEF r
      <4> QED BY <2>7, <4>1, <4>2
    <3> QED BY <1>1, <3>1 DEF MarksMaxima, IsFirstMaximum
  <2>9. ExcursionsFollow'
    <3>1. \A k \in 1..Len(peaks') : /\ peaks'[k].from <= peaks'[k].mark
                                    /\ peaks'[k].mark < peaks'[k].to
      <4>1. r.from <= r.mark /\ r.mark < r.to
        BY <1>2, <2>6 DEF r
      <4> QED BY <2>4, <2>7, <4>1 DEF ExcursionsFollow
    <3>2. \A k \in 1..(Len(peaks') - 1) : peaks'[k].to <= peaks'[k + 1].from
      <4> SUFFICES ASSUME NEW k \in 1..(Len(peaks') - 1)
                   PROVE  peaks'[k].to <= peaks'[k + 1].from
        OBVIOUS
      <4>1. k \in 1..Len(peaks) /\ peaks'[k] = peaks[k]
        BY <2>4
      <4>2. CASE k = Len(peaks)
        <5>1. peaks'[k + 1].from = from
          BY <2>4, <4>2 DEF r
        <5> QED BY <1>3, <4>1, <5>1
      <4>3. CASE k # Len(peaks)
        <5>1. k \in 1..(Len(peaks) - 1) /\ k + 1 \in 1..Len(peaks)
          BY <2>4, <4>1, <4>3
        <5> QED BY <2>4, <4>1, <5>1 DEF ExcursionsFollow
      <4> QED BY <4>2, <4>3
    <3> QED BY <3>1, <3>2 DEF ExcursionsFollow
  <2>10. \A k \in 1..Len(peaks') : peaks'[k].to <= Len(in') /\ peaks'[k].to <= Item(i)'
    <3>1. Item(i)' = Item(i)
      BY <1>1 DEF Item
    <3>2. r.to = Item(i) /\ Item(i) <= Len(in) /\ Item(i) \in Nat
      BY <1>2 DEF r
    <3>3. \A k \in 1..Len(peaks) : peaks[k].to <= Len(in) /\ peaks[k].to <= Item(i)
      <4>1. from <= Item(i)
        BY <1>2, <1>4, <3>2
      <4> QED BY <1>3, <1>4, <3>2, <4>1, Numbers
    <3>4. \A k \in 1..Len(peaks') : peaks'[k].to <= Len(in) /\ peaks'[k].to <= Item(i)
      BY <2>4, <2>7, <3>2, <3>3
    <3> QED BY <1>1, <3>1, <3>4
  <2>11. Place'
    BY <1>1, <2>10 DEF Place, Begun
  <2> QED BY <1>5, <2>5, <2>8, <2>9, <2>11
<1> QED BY <1>6, <1>7

(* During an excursion work() returns what lies before the maximum, which   *)
(* becomes the first item of the next call.                                 *)
LEMMA WorkEndStep == IInv /\ WorkEnd => IInv'
<1> SUFFICES ASSUME IInv, WorkEnd PROVE IInv' OBVIOUS
<1> USE DEF IInv
<1>1. /\ noutput > 0 /\ i = noutput /\ read' = read + Returns
      /\ noutput' = 0 /\ i' = 0 /\ peak_ind' = 0
      /\ UNCHANGED <<in, d_state, d_peak_val, d_avg, from, whole, peaks, restarts>>
  BY DEF WorkEnd, history
<1>2. Returns \in Nat /\ Returns <= noutput
  BY Numbers DEF Returns
<1>3. TypeOK'
  BY <1>1, <1>2, Numbers DEF TypeOK
<1>4. Calls'
  BY <1>1 DEF Calls
<1>5. CASE d_state = 0
  <2>1. Item(i)' = Item(i)
    BY <1>1, <1>5, Numbers DEF Item, Returns
  <2>2. Begun' /\ d_state' = 0
    BY <1>1, <1>5 DEF Place, Begun
  <2>3. \A k \in 1..Len(peaks) : peaks[k].to <= Len(in) /\ peaks[k].to <= Item(i)
    BY <1>5 DEF Place
  <2>4. Place'
    BY <1>1, <2>1, <2>2, <2>3 DEF Place
  <2>5. Maximum'
    BY <2>2 DEF Maximum
  <2> QED BY <1>1, <1>3, <1>4, <2>4, <2>5, MarksKept
<1>6. CASE d_state = 1
  <2>1. /\ ~Begun /\ from <= Item(peak_ind) /\ peak_ind < i
        /\ SeenTo = read + i
    BY <1>1, <1>6, Numbers DEF Place, SeenTo
  <2>2. /\ Item(peak_ind)' = Item(peak_ind) /\ SeenTo' = Item(peak_ind)
        /\ Item(peak_ind) \in Nat /\ Item(peak_ind) <= SeenTo
    BY <1>1, <1>6, <2>1, Numbers DEF Item, SeenTo, Returns
  <2>3. \A k \in 1..Len(peaks) : peaks[k].to <= Len(in) /\ peaks[k].to <= from
    BY <1>6 DEF Place
  <2>4. Place'
    <3>1. ~Begun' /\ d_state' = 1 /\ from' <= Item(peak_ind)' /\ i' = 0
      BY <1>1, <1>6, <2>1, <2>2 DEF Begun
    <3> QED BY <1>1, <2>3, <3>1 DEF Place
  <2>5. Maximum'
    <3> SUFFICES ASSUME whole PROVE Maximum'
      BY <1>1 DEF Maximum
    <3>1. /\ SeenTo <= Len(in) /\ in[Item(peak_ind)] = d_peak_val
          /\ IsFirstMaximum(Item(peak_ind), from, SeenTo)
      BY <1>6, <2>1 DEF Maximum
    <3>2. from \in Nat /\ SeenTo \in Nat
      BY <2>1, Numbers
    <3>3. \A j \in from..Item(peak_ind) : j \in from..SeenTo
      BY <2>2, <3>2
    <3>4. Item(peak_ind) \in from..Item(peak_ind)
      BY <2>1, <2>2, <3>2
    <3>5. IsFirstMaximum(Item(peak_ind), from, Item(peak_ind))
      BY <3>1, <3>3, <3>4 DEF IsFirstMaximum
    <3>6. IsFirstMaximum(Item(peak_ind), from, SeenTo)'
      BY <1>1, <2>2, <3>5 DEF IsFirstMaximum
    <3>7. SeenTo' <= Len(in') /\ in'[Item(peak_ind)'] = d_peak_val'
      BY <1>1, <2>1, <2>2, <3>1, <3>2, Numbers
    <3> QED BY <3>6, <3>7 DEF Maximum
  <2> QED BY <1>1, <1>3, <1>4, <2>4, <2>5, MarksKept
<1> QED BY <1>5, <1>6, Numbers

LEMMA Stutters == IInv /\ UNCHANGED vars => IInv'
<1> SUFFICES ASSUME IInv, UNCHANGED vars PROVE IInv' OBVIOUS
<1>1. /\ UNCHANGED <<in, read, d_state, d_peak_val, d_avg, noutput, i, peak_ind>>
      /\ UNCHANGED <<from, whole, peaks, restarts>>
  BY DEF vars, local, history
<1>2. TypeOK'
  BY <1>1 DEF IInv, TypeOK
<1>3. Calls' /\ Place'
  BY <1>1 DEF IInv, Calls, Place, Begun, Item
<1>4. Maximum'
  BY <1>1 DEF IInv, Maximum, Begun, Item, SeenTo, IsFirstMaximum
<1>5. MarksMaxima' /\ ExcursionsFollow'
  BY <1>1, MarksKept DEF IInv
<1> QED BY <1>2, <1>3, <1>4, <1>5 DEF IInv

LEMMA Step == IInv /\ [Next]_vars => IInv'
<1> SUFFICES ASSUME IInv, [Next]_vars PROVE IInv' OBVIOUS
<1>1. CASE Arrive
  BY <1>1, ArriveStep
<1>2. CASE Restart
  BY <1>2, RestartStep
<1>3. CASE WorkBegin
  BY <1>3, WorkBeginStep
<1>4. CASE Below
  BY <1>4, BelowStep
<1>5. CASE Rises
  BY <1>5, RisesStep
<1>6. CASE NewPeak
  BY <1>6, NewPeakStep
<1>7. CASE StaysAbove
  BY <1>7, StaysAboveStep
<1>8. CASE Falls
  BY <1>8, FallsStep
<1>9. CASE WorkEnd
  BY <1>9, WorkEndStep
<1>10. CASE UNCHANGED vars
  BY <1>10, Stutters
<1> QED BY <1>1, <1>2, <1>3, <1>4, <1>5, <1>6, <1>7, <1>8, <1>9, <1>10 DEF Next, Work

-----------------------------------------------------------------------------
(* How many excursions restarts have cut: those that left a mark, and the  *)
(* one in progress.  FewFalseMarks is not inductive without the latter.    *)
FalseMarks == {k \in 1..Len(peaks) : ~peaks[k].whole}
Cut == IF d_state = 1 /\ ~whole THEN 1 ELSE 0
CutByRestarts == IsFiniteSet(FalseMarks) /\ Cardinality(FalseMarks) + Cut <= restarts

LEMMA CutInitially == Init => CutByRestarts
<1> SUFFICES ASSUME Init PROVE CutByRestarts OBVIOUS
<1>1. FalseMarks = {}
  BY DEF Init, FalseMarks
<1>2. Cut = 0 /\ restarts = 0
  BY DEF Init, Cut
<1> QED BY <1>1, <1>2, FS_EmptySet DEF CutByRestarts

(* A step that neither marks nor enters or leaves an excursion.            *)
LEMMA CutUnchanged ==
    ASSUME CutByRestarts, UNCHANGED <<peaks, restarts, d_state, whole>>
    PROVE  CutByRestarts'
<1>1. FalseMarks' = FalseMarks /\ Cut' = Cut
  BY DEF FalseMarks, Cut
<1> QED BY <1>1 DEF CutByRestarts

LEMMA CutByRestart == TypeOK /\ CutByRestarts /\ Restart => CutByRestarts'
<1> SUFFICES ASSUME TypeOK, CutByRestarts, Restart PROVE CutByRestarts' OBVIOUS
<1>1. FalseMarks' = FalseMarks
  BY DEF Restart, FalseMarks
<1>2. restarts' = restarts + 1 /\ restarts \in Nat
  BY DEF Restart, TypeOK
<1>3. Cut \in {0, 1} /\ Cut' \in {0, 1}
  BY DEF Cut
<1>4. Cardinality(FalseMarks) \in Nat
  BY FS_CardinalityType DEF CutByRestarts
<1> QED BY <1>1, <1>2, <1>3, <1>4 DEF CutByRestarts

LEMMA CutRises == CutByRestarts /\ Rises => CutByRestarts'
<1> SUFFICES ASSUME CutByRestarts, Rises PROVE CutByRestarts' OBVIOUS
<1>1. FalseMarks' = FalseMarks /\ restarts' = restarts
  BY DEF Rises, FalseMarks
<1>2. Cut = 0
  BY DEF Rises, Cut
<1>3. Cut' = 0
  <2>1. whole' = TRUE
    BY DEF Rises
  <2> QED BY <2>1 DEF Cut
<1> QED BY <1>1, <1>2, <1>3 DEF CutByRestarts

LEMMA CutFalls == TypeOK /\ CutByRestarts /\ Falls => CutByRestarts'
<1> SUFFICES ASSUME TypeOK, CutByRestarts, Falls PROVE CutByRestarts' OBVIOUS
<1>1. restarts' = restarts /\ d_state = 1 /\ d_state' = 0 /\ peaks' = Marked
  BY DEF Falls
<1>2. Cut' = 0
  BY <1>1 DEF Cut
<1>3. Cardinality(FalseMarks) \in Nat /\ restarts \in Nat
  BY FS_CardinalityType DEF CutByRestarts, TypeOK
<1>4. CASE peak_ind = i
  <2>1. FalseMarks' = FalseMarks
    BY <1>1, <1>4 DEF Marked, FalseMarks
  <2>2. Cut \in {0, 1}
    BY DEF Cut
  <2> QED BY <1>1, <1>2, <1>3, <2>1, <2>2 DEF CutByRestarts
<1>5. CASE peak_ind # i
  <2> DEFINE peak == [from |-> from, mark |-> Item(peak_ind),
                      to |-> Item(i), whole |-> whole]
             last == Len(peaks) + 1
  <2>1. peaks \in Seq(Peak) /\ Len(peaks) \in Nat
    BY DEF TypeOK
  <2>2. peaks' = Append(peaks, peak)
    BY <1>1, <1>5 DEF Marked
  <2>3. Len(peaks') = last /\ \A k \in 1..Len(peaks) : peaks'[k] = peaks[k]
    <3> HIDE DEF peak
    <3> QED BY <2>1, <2>2
  <2>4. peaks'[last].whole = whole
    <3>1. peaks'[last] = peak
      <4> HIDE DEF peak
      <4> QED BY <2>1, <2>2
    <3> QED BY <3>1
  <2>5. CASE whole
    <3>0. peaks'[last].whole
      BY <2>4, <2>5
    <3>1. FalseMarks' = FalseMarks
      <4>1. \A k \in 1..last : k = last \/ k \in 1..Len(peaks)
        BY <2>1
      <4>2. \A k \in 1..Len(peaks') : ~peaks'[k].whole => k \in 1..Len(peaks) /\ ~peaks[k].whole
        BY <2>3, <3>0, <4>1
      <4>3. \A k \in 1..Len(peaks) : k \in 1..Len(peaks') /\ peaks'[k] = peaks[k]
        BY <2>1, <2>3
      <4> QED BY <4>2, <4>3 DEF FalseMarks
    <3>2. Cut = 0
      BY <2>5 DEF Cut
    <3> QED BY <1>1, <1>2, <3>1, <3>2 DEF CutByRestarts
  <2>6. CASE ~whole
    <3>1. FalseMarks' = FalseMarks \cup {last}
      BY <2>1, <2>3, <2>4, <2>6 DEF FalseMarks
    <3>2. last \notin FalseMarks
      BY <2>1 DEF FalseMarks
    <3>3. Cut = 1
      BY <1>1, <2>6 DEF Cut
    <3>4. IsFiniteSet(FalseMarks') /\ Cardinality(FalseMarks') = Cardinality(FalseMarks) + 1
      <4> HIDE DEF last
      <4> QED BY <3>1, <3>2, FS_AddElement DEF CutByRestarts
    <3> QED BY <1>1, <1>2, <1>3, <3>3, <3>4 DEF CutByRestarts
  <2> QED BY <2>5, <2>6
<1> QED BY <1>4, <1>5

LEMMA CutStep == TypeOK /\ CutByRestarts /\ [Next]_vars => CutByRestarts'
<1> SUFFICES ASSUME TypeOK, CutByRestarts, [Next]_vars PROVE CutByRestarts' OBVIOUS
<1>1. CASE Restart
  BY <1>1, CutByRestart
<1>2. CASE Rises
  BY <1>2, CutRises
<1>3. CASE Falls
  BY <1>3, CutFalls
<1>4. CASE Arrive \/ WorkBegin \/ Below \/ NewPeak \/ StaysAbove \/ WorkEnd \/ UNCHANGED vars
  <2>1. UNCHANGED <<peaks, restarts, d_state, whole>>
    BY <1>4 DEF Arrive, WorkBegin, Below, NewPeak, StaysAbove, WorkEnd, vars, local, history
  <2> QED BY <2>1, CutUnchanged
<1> QED BY <1>1, <1>2, <1>3, <1>4 DEF Next, Work

-----------------------------------------------------------------------------
(* peak_detector_fb::work() stays within the items it was given, whatever   *)
(* their number, and keeps its state well formed from call to call.         *)
THEOREM Types == Spec => []TypeOK
<1>1. IInv => TypeOK
  BY DEF IInv
<1> QED BY Initially, Step, <1>1, PTL DEF Spec

(* However the stream is cut into calls of peak_detector_fb::work(), what it *)
(* marks in an excursion that no restart cuts is the first of its maxima.   *)
THEOREM MaximaMarked == Spec => []MarksMaxima
<1>1. IInv => MarksMaxima
  BY DEF IInv
<1> QED BY Initially, Step, <1>1, PTL DEF Spec

(* No item is marked twice by peak_detector_fb::work(), not even one that it *)
(* is shown again: excursions hold their marks and follow one another.      *)
THEOREM Disjoint == Spec => []ExcursionsFollow
<1>1. IInv => ExcursionsFollow
  BY DEF IInv
<1> QED BY Initially, Step, <1>1, PTL DEF Spec

(* A restart makes peak_detector_fb::work() mark what need not be a maximum  *)
(* once at most: there are no more such marks than restarts.                *)
THEOREM FewAreFalse == Spec => []FewFalseMarks
<1>1. CutByRestarts /\ TypeOK => FewFalseMarks
  <2> SUFFICES ASSUME CutByRestarts, TypeOK PROVE FewFalseMarks OBVIOUS
  <2>1. Cut \in {0, 1} /\ Cardinality(FalseMarks) \in Nat /\ restarts \in Nat
    BY FS_CardinalityType DEF Cut, CutByRestarts, TypeOK
  <2> QED BY <2>1 DEF CutByRestarts, FewFalseMarks, FalseMarks
<1> QED BY Types, CutInitially, CutStep, <1>1, PTL DEF Spec
=============================================================================
