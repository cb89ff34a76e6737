------------------------- MODULE XrunMonitorProofs --------------------------
(***************************************************************************)
(* Proofs about XrunMonitor, for every ring length from 4 up, all edge     *)
(* capacities, every set of samples and any number of interruptions.       *)
(***************************************************************************)
EXTENDS XrunMonitor, SequenceTheorems, TLAPS

-----------------------------------------------------------------------------
(* The index arithmetic of the ring *)

\* A ring with its indices on slots holds at most Length - 1 samples.
LEMMA FillRange ==
    ASSUME NEW rd \in Slots, NEW wr \in Slots
    PROVE  Fill(rd, wr) \in 0..(Length - 1)
BY LengthAssumption DEF Fill, Slots

\* Reading in one piece or two takes as much as there is, up to the request,
\* leaves the read index on the slot of the next sample, and the rest stored.
LEMMA ReadFacts ==
    ASSUME d_read_index \in Slots, d_write_index \in Slots, NEW n \in Nat
    PROVE  /\ Taken(n) \in Nat
           /\ Taken(n) = Minimum(CurrentFill, n)
           /\ ReadIndexAfter(n) \in Slots
           /\ ReadIndexAfter(n) = Slot(Taken(n))
           /\ Fill(ReadIndexAfter(n), d_write_index) = CurrentFill - Taken(n)
BY LengthAssumption
   DEF Taken, Minimum, CurrentFill, ReadIndexAfter, Slot, Fill, Slots

\* Storing keeps one slot empty and the write index on a slot, and adds
\* exactly what is stored to the fill.
LEMMA StoreFacts ==
    ASSUME d_write_index \in Slots, NEW rd \in Slots, NEW m \in Nat
    PROVE  LET f == Fill(rd, d_write_index)
               s == ToSave(m, f)
           IN  /\ s \in 0..m
               /\ f + s <= Length - 1
               /\ WriteIndexAfter(s) \in Slots
               /\ Fill(rd, WriteIndexAfter(s)) = f + s
               /\ s < m => f + s = Length - 1
BY LengthAssumption DEF ToSave, Fill, WriteIndexAfter, Slots

-----------------------------------------------------------------------------
(* Sequences *)

LEMMA FunctionIsSeq ==
    ASSUME NEW S, NEW n \in Nat, NEW f \in [1..n -> S]
    PROVE  f \in Seq(S) /\ Len(f) = n
BY SeqDef

LEMMA AfterFacts ==
    ASSUME NEW S, NEW s \in Seq(S), NEW n \in 0..Len(s)
    PROVE  /\ After(s, n) \in Seq(S)
           /\ Len(After(s, n)) = Len(s) - n
           /\ \A i \in 1..(Len(s) - n) : After(s, n)[i] = s[i + n]
<1>1. Len(s) \in Nat /\ \A i \in (n + 1)..Len(s) : s[i] \in S
  BY LenProperties, ElementOfSeq
<1> DEFINE m == n + 1
<1>2. m \in Int /\ Len(s) \in Int
  BY <1>1
<1>3. /\ SubSeq(s, m, Len(s)) \in Seq(S)
      /\ Len(SubSeq(s, m, Len(s))) = IF m <= Len(s) THEN Len(s) - m + 1 ELSE 0
      /\ \A i \in 1..(Len(s) - m + 1) : SubSeq(s, m, Len(s))[i] = s[m + i - 1]
  BY <1>1, <1>2, SubSeqProperties
<1>4. \A i \in 1..(Len(s) - n) : s[m + i - 1] = s[i + n]
  BY <1>1
<1>5. QED
  BY <1>1, <1>3, <1>4 DEF After

-----------------------------------------------------------------------------
(* What one general_work moves *)

\* The round's counts are bounded by what is pending and free: SinkRead and
\* DecoderWrite of the other threads can only add to either.
SnapshotHolds ==
    phase # "idle" => /\ avail <= Len(in)
                      /\ ask \in 1..(OutCap - Len(out))

IInv == TypeOK /\ StoppedIsEmpty /\ SnapshotHolds

\* The counts of a round of general_work: what is taken from the ring, passed
\* and stored fits the output space, the snapshot of the input and the ring.
LEMMA RoundCounts ==
    ASSUME IInv, phase = "work"
    PROVE  /\ Request \in 0..ask /\ ask \in Nat /\ avail \in 0..Len(in)
           /\ Taken(Request) \in 0..Request
           /\ Taken(Request) = Minimum(CurrentFill, Request)
           /\ Passed \in 0..avail
           /\ Passed > 0 => Taken(Request) = CurrentFill
           /\ Taken(Request) + Passed <= Request
           /\ Saved \in 0..(avail - Passed)
           /\ Passed + Saved \in 0..avail
           /\ CurrentFill - Taken(Request) + Saved <= Length - 1
           /\ Passed + Saved < avail =>
                 CurrentFill - Taken(Request) + Saved = Length - 1
           /\ CurrentFill \in 0..(Length - 1)
<1>1. /\ d_read_index \in Slots /\ d_write_index \in Slots
      /\ ask \in Nat /\ avail \in Nat /\ avail <= Len(in) /\ Len(in) \in Nat
  BY CapAssumption, LenProperties DEF IInv, TypeOK, SnapshotHolds
<1>2. Request \in 0..ask
  BY <1>1 DEF Request
<1>3. CurrentFill \in 0..(Length - 1)
  BY <1>1, FillRange DEF CurrentFill
<1>4. /\ Taken(Request) = Minimum(CurrentFill, Request)
      /\ ReadIndexAfter(Request) \in Slots
      /\ Fill(ReadIndexAfter(Request), d_write_index)
            = CurrentFill - Taken(Request)
  BY <1>1, <1>2, ReadFacts
<1>5. Taken(Request) \in 0..Request /\ Taken(Request) <= CurrentFill
  BY <1>2, <1>3, <1>4, LengthAssumption DEF Minimum
<1>6. Passed \in 0..avail /\ Taken(Request) + Passed <= Request
  BY <1>1, <1>2, <1>5 DEF Passed, Minimum
<1>7. Passed > 0 => Taken(Request) = CurrentFill
  BY <1>1, <1>2, <1>3, <1>4, <1>5, LengthAssumption DEF Passed, Minimum
<1> DEFINE m == avail - Passed
           f == Fill(ReadIndexAfter(Request), d_write_index)
<1>8. m \in Nat
  BY <1>1, <1>6
<1>9. /\ ToSave(m, f) \in 0..m /\ f + ToSave(m, f) <= Length - 1
      /\ ToSave(m, f) < m => f + ToSave(m, f) = Length - 1
  BY <1>1, <1>4, <1>8, StoreFacts
<1>10. Saved = ToSave(m, f)
  BY DEF Saved
<1>11. QED
  <2> HIDE DEF m, f
  <2>1. f = CurrentFill - Taken(Request) /\ m = avail - Passed
    BY <1>4 DEF m, f
  <2>2. Saved \in 0..m
    BY <1>9, <1>10
  <2>3. Passed + Saved < avail => Saved < m
    BY <1>1, <1>6, <2>1, <2>2
  <2>4. /\ f + Saved <= Length - 1
        /\ (Saved < m => f + Saved = Length - 1)
    BY <1>9, <1>10
  <2>5. CurrentFill - Taken(Request) + Saved <= Length - 1
    BY <2>1, <2>4
  <2>6. Passed + Saved < avail =>
           CurrentFill - Taken(Request) + Saved = Length - 1
    BY <2>1, <2>3, <2>4
  <2>7. Saved \in 0..(avail - Passed)
    BY <2>1, <2>2
  <2>8. Passed + Saved \in 0..avail
    BY <1>1, <1>6, <2>7
  <2>9. QED
    BY <1>1, <1>2, <1>3, <1>4, <1>5, <1>6, <1>7, <2>5, <2>6, <2>7, <2>8

Sample == Items \cup {Silence}

LEMMA ZerosFacts ==
    ASSUME NEW n \in Nat
    PROVE  Zeros(n) \in Seq(Sample) /\ Len(Zeros(n)) = n
BY FunctionIsSeq DEF Zeros, Sample

\* The input samples behind position p.
LEMMA InputSamples ==
    ASSUME in \in Seq(Edge)
    PROVE  /\ Len(in) \in Nat
           /\ \A i \in 1..Len(in) : in[i].smp \in Items /\ in[i].tag \in BOOLEAN
<1>1. Len(in) \in Nat /\ \A i \in 1..Len(in) : in[i] \in Edge
  BY ElementOfSeq, LenProperties
<1>2. QED
  BY <1>1 DEF Edge

\* What general_work copies out of the ring, and what it passes on.
LEMMA CopiedFacts ==
    ASSUME IInv, phase = "work"
    PROVE  /\ FromRing(Request) \in Seq(Sample)
           /\ Len(FromRing(Request)) = Taken(Request)
           /\ [i \in 1..Passed |-> in[i].smp] \in Seq(Sample)
           /\ Len([i \in 1..Passed |-> in[i].smp]) = Passed
<1>0. /\ Taken(Request) \in Nat /\ Passed \in Nat /\ CurrentFill \in Nat
      /\ Passed <= avail /\ avail <= Len(in) /\ Len(in) \in Nat /\ avail \in Nat
  BY RoundCounts, LenProperties, LengthAssumption DEF IInv, TypeOK
<1>1. Taken(Request) <= CurrentFill /\ Passed <= Len(in)
  BY <1>0, RoundCounts, SMTT(20) DEF Minimum
<1>2. \A j \in 0..(Taken(Request) - 1) : Slot(j) \in Slots
  BY <1>0, <1>1, LengthAssumption
     DEF IInv, TypeOK, Slot, Slots, CurrentFill, Fill
<1>3. FromRing(Request) \in [1..Taken(Request) -> Sample]
  BY <1>0, <1>2 DEF FromRing, IInv, TypeOK, Sample
<1>4. [i \in 1..Passed |-> in[i].smp] \in [1..Passed -> Sample]
  BY <1>0, <1>1, InputSamples DEF IInv, TypeOK, Sample
<1>5. QED
  BY <1>0, <1>3, <1>4, FunctionIsSeq


\* What is stored in the ring are samples.
LEMMA StoredType ==
    ASSUME IInv, phase = "work"
    PROVE  Stored(Passed, Saved) \in [Slots -> Sample]
<1>1. /\ Passed \in Nat /\ Saved \in Nat /\ Passed + Saved <= Len(in)
      /\ d_write_index \in Slots /\ Len(in) \in Nat
  BY RoundCounts, SMTT(20) DEF IInv, TypeOK
<1> SUFFICES ASSUME NEW k \in Slots
             PROVE  Stored(Passed, Saved)[k] \in Sample
  BY DEF Stored
<1>2. CASE d_write_index <= k /\ k < d_write_index + Saved
  <2>1. Passed + 1 + k - d_write_index \in 1..Len(in)
    BY <1>1, <1>2 DEF Slots
  <2>2. QED
    BY <1>2, <2>1, InputSamples DEF Stored, IInv, TypeOK, Sample
<1>3. CASE /\ ~(d_write_index <= k /\ k < d_write_index + Saved)
           /\ k < d_write_index + Saved - Length
  <2>1. Passed + 1 + (Length - d_write_index) + k \in 1..Len(in)
    BY <1>1, <1>3, LengthAssumption DEF Slots
  <2>2. QED
    BY <1>3, <2>1, InputSamples DEF Stored, IInv, TypeOK, Sample
<1>4. CASE /\ ~(d_write_index <= k /\ k < d_write_index + Saved)
           /\ ~(k < d_write_index + Saved - Length)
  BY <1>4 DEF Stored, IInv, TypeOK, Sample
<1>5. QED
  BY <1>2, <1>3, <1>4

\* general_work's output fits: it is the sum of the three pieces.
LEMMA OutputFits ==
    ASSUME IInv, WorkCopy
    PROVE  /\ out' \in Seq(Sample)
           /\ Len(out') \in 0..OutCap
<1>1. phase = "work"
  BY DEF WorkCopy, EndRound
<1> DEFINE a == FromRing(Request)
           b == [i \in 1..Passed |-> in[i].smp]
           z == Zeros(IF Prebuffering THEN ask ELSE 0)
<1>2. /\ a \in Seq(Sample) /\ Len(a) = Taken(Request)
      /\ b \in Seq(Sample) /\ Len(b) = Passed
  BY <1>1, CopiedFacts
<1>3. z \in Seq(Sample) /\ Len(z) = (IF Prebuffering THEN ask ELSE 0)
  BY <1>1, RoundCounts, ZerosFacts
<1>4. out \in Seq(Sample) /\ Len(out) \in Nat
  BY LenProperties DEF IInv, TypeOK, Sample
<1>5. out' = out \o a \o b \o z
  BY DEF WorkCopy
<1> HIDE DEF a, b, z
<1>6. out \o a \in Seq(Sample) /\ Len(out \o a) = Len(out) + Len(a)
  BY <1>2, <1>4, ConcatProperties
<1>7. /\ out \o a \o b \in Seq(Sample)
      /\ Len(out \o a \o b) = Len(out) + Len(a) + Len(b)
  BY <1>2, <1>6, ConcatProperties
<1>8. /\ out' \in Seq(Sample)
      /\ Len(out') = Len(out) + Len(a) + Len(b) + Len(z)
  BY <1>3, <1>5, <1>7, ConcatProperties
<1>9. ask <= OutCap - Len(out)
  BY <1>1 DEF IInv, SnapshotHolds
<1>10. Taken(Request) + Passed + (IF Prebuffering THEN ask ELSE 0) <= ask
  <2>1. CASE Prebuffering
    BY <1>1, <2>1, RoundCounts DEF Request
  <2>2. CASE ~Prebuffering
    BY <1>1, <2>2, RoundCounts DEF Request
  <2>3. QED
    BY <2>1, <2>2
<1>11. /\ Taken(Request) \in Nat /\ Passed \in Nat /\ ask \in Nat
       /\ OutCap \in Nat
  BY <1>1, RoundCounts, CapAssumption
<1>12. Len(out') = Len(out) + Taken(Request) + Passed
                      + (IF Prebuffering THEN ask ELSE 0)
  BY <1>2, <1>3, <1>8
<1>13. QED
  BY <1>4, <1>8, <1>9, <1>10, <1>11, <1>12

-----------------------------------------------------------------------------
(* The inductive invariant *)

LEMMA InitInv == Init => IInv
<1> SUFFICES ASSUME Init PROVE IInv
  OBVIOUS
<1>1. TypeOK
  <2>1. in \in Seq(Edge) /\ Len(in) = 0 /\ out \in Seq(Sample) /\ Len(out) = 0
    BY EmptySeq DEF Init
  <2>2. QED
    BY <2>1, LengthAssumption, CapAssumption DEF Init, TypeOK, Slots, Sample
<1>2. StoppedIsEmpty /\ SnapshotHolds
  BY DEF Init, StoppedIsEmpty, SnapshotHolds
<1>3. QED
  BY <1>1, <1>2 DEF IInv

LEMMA DecoderWriteInv ==
    ASSUME IInv, NEW item \in Items, DecoderWrite(item)
    PROVE  IInv'
<1> DEFINE e == [smp |-> item, tag |-> fresh]
<1>1. e \in Edge
  BY DEF IInv, TypeOK, Edge
<1>2. in' \in Seq(Edge) /\ Len(in') = Len(in) + 1
  BY <1>1 DEF DecoderWrite, IInv, TypeOK
<1>3. Len(in) \in Nat /\ Len(in) < InCap
  BY LenProperties DEF DecoderWrite, IInv, TypeOK
<1>4. /\ UNCHANGED <<d_buffer, d_read_index, d_write_index>>
      /\ UNCHANGED <<d_starting, d_drop_when_full, d_stop_until_tag>>
      /\ UNCHANGED <<out, phase, ask, avail>> /\ fresh' = FALSE
  BY DEF DecoderWrite, ring, flags, executor
<1> HIDE DEF e
<1>5. TypeOK'
  <2>1. Len(in') <= InCap
    BY <1>2, <1>3, CapAssumption
  <2>2. QED
    BY <1>2, <1>4, <2>1 DEF IInv, TypeOK
<1>6. StoppedIsEmpty' /\ SnapshotHolds'
  BY <1>2, <1>3, <1>4 DEF IInv, TypeOK, StoppedIsEmpty, SnapshotHolds
<1>7. QED
  BY <1>5, <1>6 DEF IInv

LEMMA SinkReadInv ==
    ASSUME IInv, SinkRead
    PROVE  IInv'
<1>1. PICK n \in 1..Len(out) : out' = After(out, n)
  BY DEF SinkRead
<1>2. out \in Seq(Sample) /\ Len(out) \in 0..OutCap
  BY LenProperties DEF IInv, TypeOK, Sample
<1>3. out' \in Seq(Sample) /\ Len(out') = Len(out) - n
  BY <1>1, <1>2, AfterFacts
<1>4. UNCHANGED <<ring, flags, in, fresh, executor>>
  BY DEF SinkRead
<1>5. TypeOK'
  BY <1>2, <1>3, <1>4, CapAssumption
     DEF IInv, TypeOK, Sample, ring, flags, executor
<1>6. StoppedIsEmpty' /\ SnapshotHolds'
  BY <1>2, <1>3, <1>4, CapAssumption
     DEF IInv, TypeOK, StoppedIsEmpty, SnapshotHolds, ring, flags, executor
<1>7. QED
  BY <1>5, <1>6 DEF IInv

\* stop_until_tag() keeps the invariant wherever the executor stands.
LEMMA ForgetInv ==
    ASSUME IInv, StopUntilTag \/ SwitchChannel \/ SetDropWhenFull
    PROVE  IInv'
<1>1. CASE StopUntilTag
  BY <1>1, LengthAssumption
     DEF StopUntilTag, ForgetAll, IInv, TypeOK, StoppedIsEmpty, SnapshotHolds,
         executor, Slots
<1>2. CASE SwitchChannel
  <2>1. /\ in' \in Seq(Edge) /\ Len(in') = 0
        /\ out' \in Seq(Sample) /\ Len(out') = 0
    BY <1>2, EmptySeq DEF SwitchChannel
  <2>2. QED
    BY <1>2, <2>1, LengthAssumption, CapAssumption
       DEF SwitchChannel, ForgetAll, IInv, TypeOK, StoppedIsEmpty,
           SnapshotHolds, Slots, Sample
<1>3. CASE SetDropWhenFull
  BY <1>3 DEF SetDropWhenFull, IInv, TypeOK, StoppedIsEmpty, SnapshotHolds,
              ring, executor
<1>4. QED
  BY <1>1, <1>2, <1>3

LEMMA ExecutorInv ==
    ASSUME IInv, Begin \/ Forecast
    PROVE  IInv'
<1>0. Len(in) \in Nat /\ Len(out) \in Nat
  BY LenProperties DEF IInv, TypeOK
<1>1. CASE Begin
  BY <1>0, <1>1, CapAssumption
     DEF Begin, IInv, TypeOK, StoppedIsEmpty, SnapshotHolds, ring, flags
<1>2. CASE Forecast
  <2>1. d_starting' \in BOOLEAN /\ (d_starting => d_starting')
    BY <1>2 DEF Forecast, IInv, TypeOK, StartsOver
  <2>2. UNCHANGED <<ring, d_drop_when_full, d_stop_until_tag, in, out, fresh>>
    BY <1>2 DEF Forecast
  <2>3. phase = "forecast" /\ ask \in 1..(OutCap - Len(out)) /\ avail <= Len(in)
    BY <1>2 DEF Forecast, IInv, SnapshotHolds
  <2>4. /\ phase' \in {"work", "forecast", "idle"}
        /\ ask' \in 0..OutCap /\ avail' \in 0..InCap
        /\ phase' # "idle" => avail' <= Len(in) /\ ask' \in 1..(OutCap - Len(out))
    BY <1>0, <1>2, <2>3, CapAssumption DEF Forecast, IInv, TypeOK
  <2>5. QED
    BY <2>1, <2>2, <2>4
       DEF IInv, TypeOK, StoppedIsEmpty, SnapshotHolds, ring
<1>3. QED
  BY <1>1, <1>2

\* The round is over: the snapshot is not needed any more.
LEMMA RoundOver ==
    ASSUME EndRound
    PROVE  /\ phase = "work" /\ phase' = "idle"
           /\ ask' \in 0..OutCap /\ avail' \in 0..InCap
           /\ SnapshotHolds'
BY CapAssumption DEF EndRound, SnapshotHolds

LEMMA WorkSkipInv ==
    ASSUME IInv, WorkSkip
    PROVE  IInv'
<1>1. EndRound
  BY DEF WorkSkip
<1>2. /\ avail \in 0..Len(in) /\ ask \in Nat /\ ask <= OutCap - Len(out)
      /\ in \in Seq(Edge) /\ Len(in) \in Nat /\ Len(in) <= InCap
      /\ out \in Seq(Sample) /\ Len(out) \in Nat
  BY <1>1, RoundOver, RoundCounts, LenProperties
     DEF IInv, TypeOK, SnapshotHolds, Sample
<1>3. in' \in Seq(Edge) /\ Len(in') = Len(in) - avail
  BY <1>2, AfterFacts DEF WorkSkip
<1>4. out' \in Seq(Sample) /\ Len(out') = Len(out) + ask
  <2>1. Zeros(ask) \in Seq(Sample) /\ Len(Zeros(ask)) = ask
    BY <1>2, ZerosFacts
  <2>2. out' = out \o Zeros(ask)
    BY DEF WorkSkip
  <2>3. QED
    BY <1>2, <2>1, <2>2, ConcatProperties
<1>5. Len(in') <= InCap /\ Len(out') <= OutCap
  BY <1>2, <1>3, <1>4, CapAssumption
<1>6. UNCHANGED <<d_buffer, d_read_index, d_write_index, d_starting,
                  d_drop_when_full, d_stop_until_tag, fresh>>
  BY DEF WorkSkip, ring, flags
<1>7. TypeOK'
  BY <1>1, <1>3, <1>4, <1>5, <1>6, RoundOver DEF IInv, TypeOK, Sample
<1>8. StoppedIsEmpty' /\ SnapshotHolds'
  BY <1>1, <1>6, RoundOver DEF IInv, StoppedIsEmpty
<1>9. QED
  BY <1>7, <1>8 DEF IInv

LEMMA WorkFindTagInv ==
    ASSUME IInv, WorkFindTag
    PROVE  IInv'
<1>1. EndRound
  BY DEF WorkFindTag
<1>2. /\ avail \in 0..Len(in) /\ Len(in) \in Nat /\ Len(in) <= InCap
      /\ in \in Seq(Edge)
  BY <1>1, RoundOver, RoundCounts, LenProperties DEF IInv, TypeOK
<1>3. PICK i \in Tags : in' = After(in, i - 1)
  BY DEF WorkFindTag
<1>4. i - 1 \in 0..Len(in)
  BY <1>2, <1>3 DEF Tags
<1>5. in' \in Seq(Edge) /\ Len(in') = Len(in) - (i - 1)
  BY <1>2, <1>3, <1>4, AfterFacts
<1>6. Len(in') <= InCap
  BY <1>2, <1>4, <1>5, CapAssumption
<1>7. UNCHANGED <<d_buffer, d_read_index, d_write_index, d_starting,
                  d_drop_when_full, out, fresh>> /\ d_stop_until_tag' = FALSE
  BY DEF WorkFindTag, ring
<1>8. TypeOK'
  BY <1>1, <1>5, <1>6, <1>7, RoundOver DEF IInv, TypeOK
<1>9. StoppedIsEmpty' /\ SnapshotHolds'
  BY <1>1, <1>7, RoundOver DEF StoppedIsEmpty
<1>10. QED
  BY <1>8, <1>9 DEF IInv

LEMMA WorkCopyInv ==
    ASSUME IInv, WorkCopy
    PROVE  IInv'
<1>1. EndRound
  BY DEF WorkCopy
<1> DEFINE c == IF d_drop_when_full THEN avail ELSE Passed + Saved
<1>2. /\ c \in 0..Len(in) /\ Len(in) \in Nat /\ Len(in) <= InCap
      /\ in \in Seq(Edge)
  BY <1>1, RoundOver, RoundCounts, LenProperties DEF IInv, TypeOK
<1>3. in' \in Seq(Edge) /\ Len(in') = Len(in) - c
  BY <1>2, AfterFacts DEF WorkCopy
<1>4. Len(in') <= InCap
  BY <1>2, <1>3, CapAssumption
<1>5. out' \in Seq(Sample) /\ Len(out') <= OutCap
  BY OutputFits, CapAssumption
<1>6. /\ d_read_index' \in Slots /\ d_write_index' \in Slots
      /\ d_buffer' \in [Slots -> Sample]
  <2>1. Request \in Nat /\ avail - Passed \in Nat
    BY <1>1, RoundOver, RoundCounts, SMTT(20)
  <2>2. d_read_index \in Slots /\ d_write_index \in Slots
    BY DEF IInv, TypeOK
  <2>3. ReadIndexAfter(Request) \in Slots
    BY <2>1, <2>2, ReadFacts
  <2>4. WriteIndexAfter(Saved) \in Slots
    BY <2>1, <2>2, <2>3, StoreFacts DEF Saved
  <2>5. QED
    BY <1>1, <2>3, <2>4, RoundOver, StoredType DEF WorkCopy
<1>7. /\ d_stop_until_tag' = FALSE /\ d_starting' \in BOOLEAN
      /\ UNCHANGED <<d_drop_when_full, fresh>>
  BY DEF WorkCopy, Prebuffering
<1>8. TypeOK'
  BY <1>1, <1>3, <1>4, <1>5, <1>6, <1>7, RoundOver DEF IInv, TypeOK, Sample
<1>9. StoppedIsEmpty' /\ SnapshotHolds'
  BY <1>1, <1>7, RoundOver DEF StoppedIsEmpty
<1>10. QED
  BY <1>8, <1>9 DEF IInv

LEMMA NextInv == IInv /\ [Next]_vars => IInv'
<1> SUFFICES ASSUME IInv, [Next]_vars PROVE IInv'
  OBVIOUS
<1>1. CASE UNCHANGED vars
  BY <1>1 DEF vars, ring, flags, executor, IInv, TypeOK, StoppedIsEmpty,
              SnapshotHolds
<1>2. CASE Next
  BY <1>2, DecoderWriteInv, SinkReadInv, ForgetInv, ExecutorInv, WorkSkipInv,
     WorkFindTagInv, WorkCopyInv DEF Next, Work
<1>3. QED
  BY <1>1, <1>2

\* The block never leaves its types: both indices stay on slots of the ring
\* and neither edge's buffer is overrun by what general_work writes.
THEOREM TypeCorrect == Spec => []TypeOK
<1>1. IInv => TypeOK
  BY DEF IInv
<1>2. QED
  BY <1>1, InitInv, NextInv, PTL DEF Spec

\* While the block waits for a tag its ring is empty and it prebuffers.
THEOREM StoppedMeansEmpty == Spec => []StoppedIsEmpty
<1>1. IInv => StoppedIsEmpty
  BY DEF IInv
<1>2. QED
  BY <1>1, InitInv, NextInv, PTL DEF Spec

-----------------------------------------------------------------------------
(* The refinement: the ring buffer of xrun_monitor_cc, with its indices,   *)
(* its copies in one or two pieces and its thresholds, implements the      *)
(* abstract queue of AudioQueue.                                           *)

-----------------------------------------------------------------------------
(* The stored samples as a sequence *)

LEMMA QueueFacts ==
    ASSUME IInv
    PROVE  /\ Queue \in Seq(Sample)
           /\ CurrentFill \in 0..(Length - 1)
           /\ Len(Queue) = CurrentFill
           /\ \A i \in 1..CurrentFill : Queue[i] = d_buffer[Slot(i - 1)]
<1>1. /\ d_read_index \in Slots /\ d_write_index \in Slots
      /\ d_buffer \in [Slots -> Sample]
  BY DEF IInv, TypeOK, Sample
<1>2. CurrentFill \in 0..(Length - 1)
  BY <1>1, FillRange DEF CurrentFill
<1>3. \A i \in 1..CurrentFill : Slot(i - 1) \in Slots
  BY <1>1, <1>2, LengthAssumption DEF Slot, Slots
<1>4. Queue \in [1..CurrentFill -> Sample]
  BY <1>1, <1>3 DEF Queue
<1>5. QED
  BY <1>2, <1>4, FunctionIsSeq, LengthAssumption DEF Queue

\* The slots that storing m samples writes are none of those that keep the f
\* stored ones, and they come in order behind them.  (k is the slot of the
\* sample number j, counted from the read index rd.)
LEMMA SlotArithmetic ==
    ASSUME NEW rd \in Slots, NEW wr \in Slots, NEW m \in Nat, NEW f \in Nat,
           f = Fill(rd, wr), f + m <= Length - 1,
           NEW j \in 0..(f + m - 1),
           NEW k \in Int, k = IF rd + j < Length THEN rd + j ELSE rd + j - Length
    PROVE  /\ k \in Slots
           /\ j < f => /\ ~(wr <= k /\ k < wr + m)
                       /\ ~(k < wr + m - Length)
           /\ j >= f => \/ /\ wr <= k /\ k < wr + m
                           /\ k - wr = j - f
                        \/ /\ k < wr /\ k < wr + m - Length
                           /\ (Length - wr) + k = j - f
<1>1. CASE rd < wr
  BY <1>1, LengthAssumption DEF Fill, Slots
<1>2. CASE rd = wr
  BY <1>2, LengthAssumption DEF Fill, Slots
<1>3. CASE rd > wr
  BY <1>3, LengthAssumption DEF Fill, Slots
<1>4. QED
  BY <1>1, <1>2, <1>3 DEF Slots

\* What general_work leaves in the ring: the samples it did not take, and
\* behind them those of the input that it did not pass on.
LEMMA QueueAfterWork ==
    ASSUME IInv, IInv', WorkCopy
    PROVE  /\ CurrentFill' = CurrentFill - Taken(Request) + Saved
           /\ \A i \in 1..CurrentFill' :
                 Queue'[i] = IF i <= CurrentFill - Taken(Request)
                             THEN Queue[i + Taken(Request)]
                             ELSE in[Passed + (i - (CurrentFill - Taken(Request)))].smp
<1> DEFINE t == Taken(Request)
           f == CurrentFill - t
<1>1. /\ phase = "work"
      /\ d_read_index' = ReadIndexAfter(Request)
      /\ d_write_index' = WriteIndexAfter(Saved)
      /\ d_buffer' = Stored(Passed, Saved)
  BY DEF WorkCopy, EndRound
<1>2. /\ d_read_index \in Slots /\ d_write_index \in Slots
      /\ d_read_index' \in Slots /\ d_write_index' \in Slots
  BY DEF IInv, TypeOK
<1>3. /\ Request \in Nat /\ avail - Passed \in Nat /\ Passed \in Nat
      /\ Saved \in Nat /\ t \in Nat /\ CurrentFill \in Nat
      /\ f + Saved <= Length - 1 /\ t = Minimum(CurrentFill, Request)
  BY <1>1, RoundCounts, LengthAssumption, SMTT(20)
<1>4. t <= CurrentFill /\ f \in Nat
  BY <1>3 DEF Minimum
<1>5. /\ d_read_index' = Slot(t)
      /\ Fill(d_read_index', d_write_index) = f
  BY <1>1, <1>2, <1>3, ReadFacts
<1>6. CurrentFill' = f + Saved
  BY <1>1, <1>2, <1>3, <1>5, StoreFacts DEF CurrentFill, Saved
<1>7. f = CurrentFill - t
  OBVIOUS
<1> HIDE DEF t, f
<1>8. ASSUME NEW i \in 1..CurrentFill'
      PROVE  Queue'[i] = IF i <= f THEN Queue[i + t]
                         ELSE in[Passed + (i - f)].smp
  <2> DEFINE j == i - 1
             k == IF d_read_index' + j < Length THEN d_read_index' + j
                  ELSE d_read_index' + j - Length
  <2>1. j \in 0..(f + Saved - 1) /\ k \in Int
    <3>1. d_read_index' \in Nat /\ Length \in Nat
      BY <1>2, LengthAssumption DEF Slots
    <3>2. j \in 0..(f + Saved - 1) /\ j \in Int
      <4>1. i \in 1..(f + Saved)
        BY <1>6
      <4>2. QED
        BY <1>3, <1>4, <4>1
    <3> HIDE DEF j
    <3>3. /\ d_read_index' + j \in Int
          /\ d_read_index' + j - Length \in Int
      BY <3>1, <3>2
    <3>4. k \in Int
      BY <3>3
    <3>5. QED
      BY <3>2, <3>4
  <2>2. Queue'[i] = d_buffer'[k]
    <3>1. Queue'[i] = d_buffer'[Slot(i - 1)']
      BY DEF Queue
    <3>2. QED
      BY <3>1 DEF Slot
  <2> HIDE DEF j
  <2>3. /\ k \in Slots
        /\ j < f => /\ ~(d_write_index <= k /\ k < d_write_index + Saved)
                    /\ ~(k < d_write_index + Saved - Length)
        /\ j >= f => \/ /\ d_write_index <= k /\ k < d_write_index + Saved
                        /\ k - d_write_index = j - f
                     \/ /\ k < d_write_index
                        /\ k < d_write_index + Saved - Length
                        /\ (Length - d_write_index) + k = j - f
    <3>1. k = IF d_read_index' + j < Length THEN d_read_index' + j
              ELSE d_read_index' + j - Length
      OBVIOUS
    <3>2. f = Fill(d_read_index', d_write_index)
      BY <1>5
    <3> HIDE DEF k
    <3>3. QED
      BY <1>2, <1>3, <1>4, <2>1, <3>1, <3>2, SlotArithmetic
  <2>4. CASE i <= f
    <3>1. d_buffer'[k] = d_buffer[k]
      <4>1. j < f
        BY <1>4, <2>4 DEF j
      <4>2. QED
        BY <1>1, <2>3, <4>1 DEF Stored
    <3>2. k = Slot(t + j)
      <4>1. t + j < CurrentFill /\ t \in Nat /\ j \in Nat
        BY <1>3, <1>4, <1>7, <2>1, <2>4 DEF j
      <4>2. CurrentFill <= Length - 1
        BY <1>1, RoundCounts, LengthAssumption
      <4>3. /\ d_read_index \in Nat /\ d_read_index < Length /\ Length \in Nat
            /\ CurrentFill \in Nat
        BY <1>2, <1>3, LengthAssumption DEF Slots
      <4>4. d_read_index' = IF d_read_index + t < Length THEN d_read_index + t
                            ELSE d_read_index + t - Length
        BY <1>5 DEF Slot
      <4>5. QED
        BY <4>1, <4>2, <4>3, <4>4 DEF Slot
    <3>3. Queue[i + t] = d_buffer[Slot(t + j)]
      <4>1. i + t \in 1..CurrentFill /\ (i + t) - 1 = t + j
        BY <1>3, <1>4, <1>6, <1>7, <2>4 DEF j
      <4>2. QED
        BY <4>1, QueueFacts
    <3>4. QED
      BY <2>2, <2>4, <3>1, <3>2, <3>3
  <2>5. CASE ~(i <= f)
    <3> HIDE DEF k
    <3>1. j >= f /\ j - f = (i - f) - 1 /\ i - f \in Int /\ j - f \in Int
      BY <1>4, <1>6, <1>3, <2>5 DEF j
    <3>2. /\ d_write_index \in Int /\ k \in Int /\ Passed \in Int
          /\ Length \in Int
      BY <1>2, <1>3, <2>1, LengthAssumption DEF Slots
    <3>3. CASE /\ d_write_index <= k /\ k < d_write_index + Saved
               /\ k - d_write_index = j - f
      <4>1. d_buffer'[k] = in[Passed + 1 + k - d_write_index].smp
        BY <1>1, <2>3, <3>3 DEF Stored
      <4>2. Passed + 1 + k - d_write_index = Passed + (i - f)
        BY <3>1, <3>2, <3>3
      <4>3. QED
        BY <2>2, <2>5, <4>1, <4>2
    <3>4. CASE /\ k < d_write_index /\ k < d_write_index + Saved - Length
               /\ (Length - d_write_index) + k = j - f
      <4>1. d_buffer'[k] = in[Passed + 1 + (Length - d_write_index) + k].smp
        BY <1>1, <2>3, <3>2, <3>4 DEF Stored
      <4>2. Passed + 1 + (Length - d_write_index) + k = Passed + (i - f)
        BY <3>1, <3>2, <3>4
      <4>3. QED
        BY <2>2, <2>5, <4>1, <4>2
    <3>5. QED
      BY <2>3, <3>1, <3>3, <3>4
  <2>6. QED
    BY <2>4, <2>5
<1>9. QED
  BY <1>6, <1>8 DEF t, f

-----------------------------------------------------------------------------
(* A round that copies is a step of the abstract queue *)

\* The samples of the first a records of the input edge.
InputPart(a) == Abstract!Samples(SubSeq(in, 1, a))

LEMMA InputPartFacts ==
    ASSUME IInv, NEW a \in 0..Len(in)
    PROVE  /\ InputPart(a) \in Seq(Sample) /\ Len(InputPart(a)) = a
           /\ \A i \in 1..a : InputPart(a)[i] = in[i].smp
<1>1. in \in Seq(Edge) /\ Len(in) \in Nat /\ a \in Nat
  BY LenProperties DEF IInv, TypeOK
<1>2. \A i \in 1..Len(in) : in[i] \in Edge /\ in[i].smp \in Sample
  BY <1>1, ElementOfSeq, InputSamples DEF Sample
<1> DEFINE part == SubSeq(in, 1, a)
<1>3. /\ Len(part) = a
      /\ \A i \in 1..a : part[i] = in[i]
  <2>1. \A i \in 1..a : in[i] \in Edge
    BY <1>1, <1>2
  <2>2. /\ Len(SubSeq(in, 1, a)) = IF 1 <= a THEN a - 1 + 1 ELSE 0
        /\ \A i \in 1..(a - 1 + 1) : SubSeq(in, 1, a)[i] = in[1 + i - 1]
    BY <1>1, <2>1, SubSeqProperties
  <2>3. \A i \in 1..a : in[1 + i - 1] = in[i]
    BY <1>1
  <2>4. QED
    BY <1>1, <2>2, <2>3
<1>4. InputPart(a) = [i \in 1..a |-> in[i].smp]
  BY <1>3 DEF InputPart, Abstract!Samples
<1>5. InputPart(a) \in [1..a -> Sample]
  BY <1>1, <1>2, <1>4
<1>6. QED
  BY <1>1, <1>4, <1>5, FunctionIsSeq

\* All that was stored and all that is accepted this round, oldest first.
Stream == Queue \o InputPart(Passed + Saved)

LEMMA StreamFacts ==
    ASSUME IInv, phase = "work"
    PROVE  /\ Stream \in Seq(Sample)
           /\ Len(Stream) = CurrentFill + Passed + Saved
           /\ \A i \in 1..(CurrentFill + Passed + Saved) :
                 Stream[i] = IF i <= CurrentFill THEN Queue[i]
                             ELSE in[i - CurrentFill].smp
<1> DEFINE a == Passed + Saved
<1>1. a \in 0..Len(in) /\ a \in Nat /\ CurrentFill \in Nat
      /\ Passed \in Nat /\ Saved \in Nat
  BY RoundCounts, LenProperties, LengthAssumption DEF IInv, TypeOK
<1> HIDE DEF a
<1>2. /\ InputPart(a) \in Seq(Sample) /\ Len(InputPart(a)) = a
      /\ \A i \in 1..a : InputPart(a)[i] = in[i].smp
  BY <1>1, InputPartFacts
<1>3. Queue \in Seq(Sample) /\ Len(Queue) = CurrentFill
  BY QueueFacts
<1>4. Stream = Queue \o InputPart(a)
  BY DEF Stream, a
<1>5. /\ Stream \in Seq(Sample) /\ Len(Stream) = CurrentFill + a
      /\ \A i \in 1..(CurrentFill + a) :
            Stream[i] = IF i <= CurrentFill THEN Queue[i]
                        ELSE InputPart(a)[i - CurrentFill]
  <2> DEFINE q == Queue
             b == InputPart(a)
  <2>1. q \in Seq(Sample) /\ b \in Seq(Sample)
    BY <1>2, <1>3
  <2>2. /\ Len(q) = CurrentFill /\ Len(b) = a /\ Stream = q \o b
    BY <1>2, <1>3, <1>4
  <2> HIDE DEF q, b
  <2>3. /\ q \o b \in Seq(Sample) /\ Len(q \o b) = Len(q) + Len(b)
        /\ \A i \in 1..(Len(q) + Len(b)) :
              (q \o b)[i] = IF i <= Len(q) THEN q[i] ELSE b[i - Len(q)]
    BY <2>1, ConcatProperties
  <2>4. QED
    BY <2>2, <2>3 DEF q, b
<1>6. CurrentFill + Passed + Saved = CurrentFill + a
  BY <1>1 DEF a
<1>7. \A i \in 1..(CurrentFill + a) : ~(i <= CurrentFill)
         => InputPart(a)[i - CurrentFill] = in[i - CurrentFill].smp
  BY <1>1, <1>2
<1>8. QED
  BY <1>5, <1>6, <1>7

\* What is kept is the stream without what was taken and passed on.
LEMMA QueueIsRest ==
    ASSUME IInv, IInv', WorkCopy
    PROVE  /\ Queue' = After(Stream, Taken(Request) + Passed)
           /\ Len(Queue') = CurrentFill - Taken(Request) + Saved
           /\ Taken(Request) + Passed \in 0..Len(Stream)
<1> DEFINE t == Taken(Request)
           n == t + Passed
<1>1. phase = "work"
  BY DEF WorkCopy, EndRound
<1>2. /\ t \in Nat /\ Passed \in Nat /\ Saved \in Nat /\ CurrentFill \in Nat
      /\ t = Minimum(CurrentFill, Request) /\ Request \in Nat
      /\ Passed > 0 => t = CurrentFill
  BY <1>1, RoundCounts, LengthAssumption
<1>3. t <= CurrentFill
  BY <1>2 DEF Minimum
<1> HIDE DEF t
<1>4. /\ Stream \in Seq(Sample)
      /\ Len(Stream) = CurrentFill + Passed + Saved
      /\ \A i \in 1..(CurrentFill + Passed + Saved) :
            Stream[i] = IF i <= CurrentFill THEN Queue[i]
                        ELSE in[i - CurrentFill].smp
  BY <1>1, StreamFacts
<1>5. n \in 0..Len(Stream)
  BY <1>2, <1>3, <1>4
<1> DEFINE m == CurrentFill - t + Saved
<1>6. Len(Stream) - n = m /\ m \in Nat
  BY <1>2, <1>3, <1>4
<1>7. /\ After(Stream, n) \in Seq(Sample) /\ Len(After(Stream, n)) = m
      /\ \A i \in 1..m : After(Stream, n)[i] = Stream[i + n]
  BY <1>4, <1>5, <1>6, AfterFacts
<1>8. /\ CurrentFill' = m
      /\ \A i \in 1..m : Queue'[i] = IF i <= CurrentFill - t THEN Queue[i + t]
                                     ELSE in[Passed + (i - (CurrentFill - t))].smp
  BY QueueAfterWork DEF t
<1>9. Queue' = [i \in 1..m |-> Queue'[i]]
  BY <1>8 DEF Queue
<1>10. \A i \in 1..m : Queue'[i] = After(Stream, n)[i]
  <2> SUFFICES ASSUME NEW i \in 1..m
               PROVE  Queue'[i] = Stream[i + n]
    BY <1>7
  <2>1. i \in Int /\ i + n \in 1..(CurrentFill + Passed + Saved)
    <3>1. i \in 1..(CurrentFill - t + Saved)
      OBVIOUS
    <3>2. i + (t + Passed) \in 1..(CurrentFill + Passed + Saved)
      BY <1>2, <1>3, <3>1
    <3>3. QED
      BY <3>1, <3>2
  <2>2. CASE i <= CurrentFill - t
    <3>1. i + n = i + t /\ i + n <= CurrentFill
      BY <1>2, <1>3, <2>1, <2>2
    <3>2. QED
      BY <1>4, <1>8, <2>1, <2>2, <3>1
  <2>3. CASE ~(i <= CurrentFill - t)
    <3>1. /\ ~(i + n <= CurrentFill)
          /\ (i + n) - CurrentFill = Passed + (i - (CurrentFill - t))
      BY <1>2, <1>3, <2>1, <2>3
    <3>2. Stream[i + n] = in[(i + n) - CurrentFill].smp
      <4> HIDE DEF n
      <4> DEFINE x == i + n
      <4>1. x \in 1..(CurrentFill + Passed + Saved) /\ ~(x <= CurrentFill)
        BY <2>1, <3>1
      <4> HIDE DEF x
      <4>2. Stream[x] = in[x - CurrentFill].smp
        BY <1>4, <4>1
      <4>3. QED
        BY <4>2 DEF x
    <3>3. Queue'[i] = in[Passed + (i - (CurrentFill - t))].smp
      BY <1>8, <2>3
    <3>4. QED
      BY <3>1, <3>2, <3>3
  <2>4. QED
    BY <2>2, <2>3
<1>11. After(Stream, n) = [i \in 1..m |-> After(Stream, n)[i]]
  BY <1>7, LenProperties
<1>12. Queue' = After(Stream, n)
  BY <1>9, <1>10, <1>11
<1>13. QED
  BY <1>5, <1>7, <1>12 DEF t

\* What goes out of the ring and straight from the input is the head of the
\* stream.
LEMMA OutputIsHead ==
    ASSUME IInv, phase = "work"
    PROVE  FromRing(Request) \o [i \in 1..Passed |-> in[i].smp]
              = SubSeq(Stream, 1, Taken(Request) + Passed)
<1> DEFINE t == Taken(Request)
           a == FromRing(Request)
           b == [i \in 1..Passed |-> in[i].smp]
           n == t + Passed
<1>1. /\ t \in Nat /\ Passed \in Nat /\ Saved \in Nat /\ CurrentFill \in Nat
      /\ t = Minimum(CurrentFill, Request) /\ Request \in Nat
      /\ Passed > 0 => t = CurrentFill
  BY RoundCounts, LengthAssumption
<1>2. t <= CurrentFill
  BY <1>1 DEF Minimum
<1>3. /\ a \in Seq(Sample) /\ Len(a) = t /\ b \in Seq(Sample) /\ Len(b) = Passed
      /\ \A i \in 1..t : a[i] = Queue[i]
      /\ \A i \in 1..Passed : b[i] = in[i].smp
  BY <1>1, <1>2, CopiedFacts, QueueFacts DEF FromRing
<1>4. /\ Stream \in Seq(Sample)
      /\ Len(Stream) = CurrentFill + Passed + Saved
      /\ \A i \in 1..(CurrentFill + Passed + Saved) :
            Stream[i] = IF i <= CurrentFill THEN Queue[i]
                        ELSE in[i - CurrentFill].smp
  BY StreamFacts
<1> HIDE DEF t, a, b
<1>5. /\ a \o b \in Seq(Sample) /\ Len(a \o b) = n
      /\ \A i \in 1..n : (a \o b)[i] = IF i <= t THEN a[i] ELSE b[i - t]
  BY <1>3, ConcatProperties
<1>6. n \in Nat /\ n <= Len(Stream) /\ Len(Stream) \in Nat
  BY <1>1, <1>2, <1>4
<1>7. /\ SubSeq(Stream, 1, n) \in Seq(Sample) /\ Len(SubSeq(Stream, 1, n)) = n
      /\ \A i \in 1..n : SubSeq(Stream, 1, n)[i] = Stream[i]
  <2> HIDE DEF n
  <2>1. \A i \in 1..n : Stream[i] \in Sample
    BY <1>4, <1>6, ElementOfSeq
  <2>2. /\ SubSeq(Stream, 1, n) \in Seq(Sample)
        /\ Len(SubSeq(Stream, 1, n)) = IF 1 <= n THEN n - 1 + 1 ELSE 0
        /\ \A i \in 1..(n - 1 + 1) : SubSeq(Stream, 1, n)[i] = Stream[1 + i - 1]
    BY <1>6, <2>1, SubSeqProperties
  <2>3. \A i \in 1..n : Stream[1 + i - 1] = Stream[i]
    BY <1>6
  <2>4. QED
    BY <1>6, <2>2, <2>3
<1>8. ASSUME NEW i \in 1..n
      PROVE  (a \o b)[i] = Stream[i]
  <2>1. i \in 1..(CurrentFill + Passed + Saved) /\ i \in Int
    BY <1>1, <1>2
  <2>2. CASE i <= t
    <3>1. i \in 1..t /\ i <= CurrentFill
      BY <1>1, <1>2, <2>1, <2>2
    <3>2. (a \o b)[i] = a[i]
      BY <1>5, <2>2
    <3>3. QED
      BY <1>3, <1>4, <2>1, <3>1, <3>2
  <2>3. CASE ~(i <= t)
    <3>1. /\ Passed > 0 /\ t = CurrentFill /\ i - t \in 1..Passed
          /\ ~(i <= CurrentFill)
      BY <1>1, <1>2, <2>1, <2>3
    <3>2. (a \o b)[i] = b[i - t]
      BY <1>5, <2>3
    <3>3. b[i - t] = in[i - t].smp
      BY <1>3, <3>1
    <3>4. Stream[i] = in[i - t].smp
      BY <1>4, <2>1, <3>1
    <3>5. QED
      BY <3>2, <3>3, <3>4
  <2>4. QED
    BY <2>2, <2>3
<1> HIDE DEF n
<1>9. a \o b = SubSeq(Stream, 1, n)
  BY <1>5, <1>7, <1>8, SeqEqual
<1>10. QED
  BY <1>9 DEF a, b, n, t

\* The new output, in the abstract queue's terms.
LEMMA OutputAfterWork ==
    ASSUME IInv, WorkCopy
    PROVE  /\ Prebuffering => out' = out \o Zeros(ask)
           /\ ~Prebuffering =>
                 out' = out \o SubSeq(Stream, 1, Taken(Request) + Passed)
<1> DEFINE a == FromRing(Request)
           b == [i \in 1..Passed |-> in[i].smp]
<1>1. /\ phase = "work"
      /\ out' = out \o a \o b \o Zeros(IF Prebuffering THEN ask ELSE 0)
  BY DEF WorkCopy, EndRound
<1>2. /\ a \in Seq(Sample) /\ Len(a) = Taken(Request)
      /\ b \in Seq(Sample) /\ Len(b) = Passed
  BY <1>1, CopiedFacts
<1>3. out \in Seq(Sample)
  BY DEF IInv, TypeOK, Sample
<1>4. a \o b = SubSeq(Stream, 1, Taken(Request) + Passed)
  BY <1>1, OutputIsHead
<1> HIDE DEF a, b
<1>5. out \o a \o b = out \o (a \o b) /\ a \o b \in Seq(Sample)
  BY <1>2, <1>3, ConcatAssociative, ConcatProperties, SMTT(20)
<1>6. CASE Prebuffering
  <2>1. Request = 0
    BY <1>6 DEF Request
  <2>2. Taken(Request) = 0 /\ Passed = 0
    BY <1>1, <2>1, RoundCounts
  <2>3. a = <<>> /\ b = <<>>
    BY <1>2, <2>2, EmptySeq
  <2>4. out \o a \o b = out
    BY <1>3, <2>3, ConcatEmptySeq
  <2>5. QED
    BY <1>1, <1>6, <2>4
<1>7. CASE ~Prebuffering
  <2>1. Zeros(0) \in Seq(Sample) /\ Len(Zeros(0)) = 0
    BY ZerosFacts
  <2>2. Zeros(0) = <<>>
    BY <2>1, EmptySeq
  <2>3. out \o (a \o b) \in Seq(Sample)
    BY <1>3, <1>5, ConcatProperties
  <2>4. out \o (a \o b) \o <<>> = out \o (a \o b)
    BY <2>3, ConcatEmptySeq
  <2>5. QED
    BY <1>1, <1>4, <1>5, <1>7, <2>2, <2>4
<1>8. QED
  BY <1>6, <1>7

\* The input a round consumes: all that was accepted, and when dropping is on
\* the rest too, but only if the ring is full.
LEMMA ConsumeStep ==
    ASSUME IInv, IInv', WorkCopy
    PROVE  \E c \in (Passed + Saved)..Len(in) :
              Abstract!Consume(Passed + Saved, c,
                               After(Stream, Taken(Request) + Passed))
<1> DEFINE c == IF d_drop_when_full THEN avail ELSE Passed + Saved
           rest == After(Stream, Taken(Request) + Passed)
<1>1. phase = "work" /\ in' = After(in, c)
  BY DEF WorkCopy, EndRound
<1>2. /\ avail \in 0..Len(in) /\ Passed + Saved \in 0..avail
      /\ Len(in) \in Nat
      /\ Passed + Saved < avail =>
            CurrentFill - Taken(Request) + Saved = Length - 1
      /\ CurrentFill - Taken(Request) + Saved <= Length - 1
  BY <1>1, RoundCounts, LenProperties DEF IInv, TypeOK
<1>3. Queue' = rest /\ Len(rest) = CurrentFill - Taken(Request) + Saved
  BY QueueIsRest
<1> HIDE DEF rest
<1>4. c \in (Passed + Saved)..Len(in)
  BY <1>2
<1>5. in' = Abstract!After(in, c)
  BY <1>1 DEF After, Abstract!After
<1>6. c = Passed + Saved
      \/ (d_drop_when_full /\ c > Passed + Saved /\ Len(rest) = Length - 1)
  BY <1>2, <1>3
<1> HIDE DEF c
<1>7. Len(rest) <= Length - 1
  BY <1>2, <1>3
<1>8. Abstract!Consume(Passed + Saved, c, rest)
  BY <1>3, <1>5, <1>6, <1>7 DEF Abstract!Consume
<1>9. QED
  BY <1>4, <1>8 DEF rest

LEMMA PrebufferStep ==
    ASSUME IInv, IInv', WorkCopy, Prebuffering
    PROVE  Abstract!Prebuffer
<1>1. phase = "work" /\ d_starting /\ d_starting' /\ ~d_stop_until_tag'
  BY DEF WorkCopy, EndRound, Prebuffering
<1>2. \/ Mode = "fill" /\ ~Abstract!Filled
      \/ Mode = "skip" /\ in # <<>> /\ in[1].tag
  <2>1. CASE d_stop_until_tag
    <3>1. 1 \in Tags
      BY <2>1 DEF WorkCopy
    <3>2. 1 <= Len(in) /\ in[1].tag
      BY <1>1, <3>1, RoundCounts DEF Tags
    <3>3. in # <<>>
      BY <3>2, EmptySeq
    <3>4. QED
      BY <2>1, <3>2, <3>3 DEF Mode
  <2>2. CASE ~d_stop_until_tag
    <3>1. Len(Queue) = CurrentFill /\ CurrentFill \in Nat
      BY QueueFacts, LengthAssumption
    <3>2. ~Abstract!Filled
      BY <3>1, LengthAssumption DEF Abstract!Filled, Prebuffering
    <3>3. QED
      BY <1>1, <2>2, <3>2 DEF Mode
  <2>3. QED
    BY <2>1, <2>2
<1>3. Mode' = "fill"
  BY <1>1 DEF Mode
<1>4. Taken(Request) = 0 /\ Passed = 0 /\ Passed + Saved = Saved
      /\ Passed + Saved \in 0..Len(in)
  <2>1. Request = 0
    BY DEF Request
  <2>2. /\ Taken(Request) \in 0..Request /\ Passed \in Nat /\ Saved \in Nat
        /\ Taken(Request) + Passed <= Request
        /\ Passed + Saved \in 0..avail /\ avail \in 0..Len(in)
        /\ Len(in) \in Nat
    BY <1>1, RoundCounts, LenProperties DEF IInv, TypeOK
  <2>3. Taken(Request) = 0 /\ Passed = 0
    BY <2>1, <2>2
  <2>4. QED
    BY <2>2, <2>3
<1>5. After(Stream, 0) = Stream
  <2>1. Stream \in Seq(Sample)
    BY <1>1, StreamFacts
  <2>2. SubSeq(Stream, 1, Len(Stream)) = Stream
    BY <2>1, SubSeqFull
  <2>3. QED
    BY <2>2 DEF After
<1>6. \E c \in (Passed + Saved)..Len(in) :
         Abstract!Consume(Passed + Saved, c,
            Queue \o Abstract!Samples(SubSeq(in, 1, Passed + Saved)))
  <2>1. Taken(Request) + Passed = 0
    BY <1>4
  <2>2. QED
    BY <1>5, <2>1, ConsumeStep DEF Stream, InputPart
<1>7. ask \in 1..(OutCap - Len(out))
  BY <1>1 DEF IInv, SnapshotHolds
<1>8. out' = out \o Abstract!Silent(ask)
  BY OutputAfterWork DEF Zeros, Abstract!Silent
<1>9. d_drop_when_full' = d_drop_when_full
  BY DEF WorkCopy
<1>10. QED
  BY <1>2, <1>3, <1>4, <1>6, <1>7, <1>8, <1>9 DEF Abstract!Prebuffer

LEMMA PlayStep ==
    ASSUME IInv, IInv', WorkCopy, ~Prebuffering
    PROVE  Abstract!Play
<1>1. /\ phase = "work" /\ ~d_starting' /\ ~d_stop_until_tag'
      /\ d_drop_when_full' = d_drop_when_full
  BY DEF WorkCopy, EndRound
<1>2. CurrentFill \in Nat /\ Len(Queue) = CurrentFill
  BY QueueFacts, LengthAssumption
<1>3. ~d_stop_until_tag
  <2> SUFFICES ASSUME d_stop_until_tag PROVE FALSE
    OBVIOUS
  <2>1. d_starting /\ d_read_index = d_write_index
    BY DEF IInv, StoppedIsEmpty
  <2>2. d_read_index \in Int
    BY DEF IInv, TypeOK, Slots
  <2>3. CurrentFill = 0
    BY <2>1, <2>2 DEF CurrentFill, Fill
  <2>4. QED
    BY <2>1, <2>3, LengthAssumption DEF Prebuffering
<1>4. Mode = "play" \/ (Mode = "fill" /\ Abstract!Filled)
  <2>1. ~d_starting \/ 4 * CurrentFill >= 3 * Length
    BY <1>2, LengthAssumption DEF Prebuffering
  <2>2. (Length - 1) + 1 = Length
    BY LengthAssumption
  <2>3. QED
    BY <1>2, <1>3, <2>1, <2>2 DEF Mode, Abstract!Filled
<1>5. Mode' = "play"
  BY <1>1 DEF Mode
<1> DEFINE a == Passed + Saved
           n == Taken(Request) + Passed
<1>6. a \in 0..Len(in) /\ n \in 0..(OutCap - Len(out)) /\ n \in Nat
  <2>1. Len(in) \in Nat /\ Len(out) \in Nat /\ OutCap \in Nat
    BY LenProperties, CapAssumption DEF IInv, TypeOK
  <2>2. ask <= OutCap - Len(out)
    BY <1>1 DEF IInv, SnapshotHolds
  <2>3. /\ Taken(Request) \in Nat /\ Passed \in Nat /\ Saved \in Nat
        /\ ask \in Nat /\ Taken(Request) + Passed <= Request
        /\ Passed + Saved \in 0..avail /\ avail \in 0..Len(in)
    BY <1>1, RoundCounts
  <2>4. Request = ask
    BY DEF Request
  <2>5. QED
    BY <2>1, <2>2, <2>3, <2>4
<1>7. Stream = Queue \o Abstract!Samples(SubSeq(in, 1, a))
  BY DEF Stream, InputPart
<1>8. n <= Len(Stream)
  BY QueueIsRest, <1>1, StreamFacts, LenProperties
<1>9. out' = out \o SubSeq(Stream, 1, n)
  BY OutputAfterWork
<1>10. \E c \in a..Len(in) : Abstract!Consume(a, c, Abstract!After(Stream, n))
  BY ConsumeStep DEF After, Abstract!After
<1> HIDE DEF a, n
<1>11. QED
  BY <1>1, <1>4, <1>5, <1>6, <1>7, <1>8, <1>9, <1>10 DEF Abstract!Play

-----------------------------------------------------------------------------
(* The other steps *)

LEMMA RingUnchanged ==
    ASSUME UNCHANGED ring
    PROVE  Queue' = Queue
BY DEF ring, Queue, CurrentFill, Slot

LEMMA ArriveStep ==
    ASSUME IInv, NEW item \in Items, DecoderWrite(item)
    PROVE  Abstract!Arrive
<1> DEFINE e == [smp |-> item, tag |-> fresh]
<1>1. e \in Abstract!Edge
  BY DEF IInv, TypeOK, Abstract!Edge
<1>2. /\ Len(in) < InCap /\ in' = Append(in, e)
      /\ UNCHANGED <<ring, flags, out, executor>>
  BY DEF DecoderWrite
<1>3. Queue' = Queue /\ Mode' = Mode
  BY <1>2, RingUnchanged DEF flags, Mode
<1>4. QED
  BY <1>1, <1>2, <1>3 DEF Abstract!Arrive, flags

LEMMA DrawStep ==
    ASSUME SinkRead
    PROVE  Abstract!Draw
<1>1. UNCHANGED <<ring, flags, in, fresh, executor>>
  BY DEF SinkRead
<1>2. Queue' = Queue /\ Mode' = Mode
  BY <1>1, RingUnchanged DEF flags, Mode
<1>3. QED
  BY <1>1, <1>2 DEF SinkRead, Abstract!Draw, After, Abstract!After, flags

LEMMA SetLossyStep ==
    ASSUME SetDropWhenFull
    PROVE  Abstract!SetLossy
<1>1. /\ d_drop_when_full' \in BOOLEAN
      /\ UNCHANGED <<ring, d_starting, d_stop_until_tag, in, out>>
  BY DEF SetDropWhenFull
<1>2. Queue' = Queue /\ Mode' = Mode
  BY <1>1, RingUnchanged DEF Mode
<1>3. QED
  BY <1>1, <1>2 DEF Abstract!SetLossy

\* stop_until_tag() empties the queue.
LEMMA ForgetStep ==
    ASSUME ForgetAll
    PROVE  Queue' = <<>> /\ Mode' = "skip"
<1>1. d_read_index' = 0 /\ d_write_index' = 0 /\ d_stop_until_tag'
  BY DEF ForgetAll
<1>2. CurrentFill' = 0
  BY <1>1 DEF CurrentFill, Fill
<1>3. Queue' = [i \in 1..0 |-> d_buffer'[Slot(i - 1)']]
  BY <1>2 DEF Queue
<1>4. QED
  BY <1>1, <1>3 DEF Mode

LEMMA StopStep ==
    ASSUME StopUntilTag \/ SwitchChannel
    PROVE  Abstract!Stop \/ Abstract!Switch
<1>1. CASE StopUntilTag
  BY <1>1, ForgetStep DEF StopUntilTag, ForgetAll, Abstract!Stop
<1>2. CASE SwitchChannel
  BY <1>2, ForgetStep DEF SwitchChannel, ForgetAll, Abstract!Switch
<1>3. QED
  BY <1>1, <1>2

\* forecast() is invisible, or it lets the queue start over.
LEMMA ForecastStep ==
    ASSUME IInv, Forecast
    PROVE  Abstract!StartOver \/ UNCHANGED Abstract!qvars
<1>1. /\ UNCHANGED <<ring, d_drop_when_full, d_stop_until_tag, in, out>>
      /\ d_starting' = (d_starting \/ StartsOver(ask))
      /\ d_starting \in BOOLEAN
  BY DEF Forecast, IInv, TypeOK
<1>2. Queue' = Queue
  BY <1>1, RingUnchanged
<1>3. CASE StartsOver(ask)
  <2>1. ~d_starting /\ ~(100 * CurrentFill > 10 * Length)
    BY <1>3 DEF StartsOver
  <2>2. ~d_stop_until_tag /\ Mode = "play"
    BY <2>1 DEF IInv, StoppedIsEmpty, Mode
  <2>3. d_starting'
    BY <1>1, <1>3
  <2>4. Mode' = "fill"
    BY <1>1, <2>2, <2>3 DEF Mode
  <2>5. Len(Queue) = CurrentFill /\ CurrentFill \in Nat
    BY QueueFacts, LengthAssumption
  <2>6. (Length - 1) + 1 = Length /\ Length \in Nat
    BY LengthAssumption
  <2>7. Abstract!RunDown
    BY <2>1, <2>5, <2>6 DEF Abstract!RunDown
  <2>8. QED
    BY <1>1, <1>2, <2>2, <2>4, <2>7 DEF Abstract!StartOver
<1>4. CASE ~StartsOver(ask)
  <2>1. d_starting' = d_starting
    BY <1>1, <1>4
  <2>2. QED
    BY <1>1, <1>2, <2>1 DEF Mode, Abstract!qvars
<1>5. QED
  BY <1>3, <1>4

LEMMA SkipStep ==
    ASSUME IInv, WorkSkip
    PROVE  Abstract!Skip
<1>1. /\ phase = "work" /\ d_stop_until_tag /\ Tags = {}
      /\ in' = After(in, avail) /\ out' = out \o Zeros(ask)
      /\ UNCHANGED <<ring, flags>>
  BY DEF WorkSkip, EndRound
<1>2. Queue' = Queue /\ Mode = "skip" /\ Mode' = Mode
  BY <1>1, RingUnchanged DEF flags, Mode
<1>3. avail \in 0..Len(in) /\ ask \in 1..(OutCap - Len(out))
  BY <1>1, RoundCounts DEF IInv, SnapshotHolds
<1>4. Abstract!Untagged(avail)
  BY <1>1 DEF Tags, Abstract!Untagged
<1>5. QED
  BY <1>1, <1>2, <1>3, <1>4
     DEF Abstract!Skip, After, Abstract!After, Zeros, Abstract!Silent, flags

LEMMA FindTagStep ==
    ASSUME IInv, WorkFindTag
    PROVE  Abstract!FindTag
<1>1. /\ phase = "work" /\ d_stop_until_tag /\ ~d_stop_until_tag'
      /\ ~in[1].tag
      /\ UNCHANGED <<ring, d_starting, d_drop_when_full, out>>
  BY DEF WorkFindTag, EndRound
<1>2. PICK i \in Tags : (\A j \in Tags : i <= j) /\ in' = After(in, i - 1)
  BY DEF WorkFindTag
<1>3. Queue' = Queue /\ Mode = "skip" /\ Mode' = "fill"
  BY <1>1, RingUnchanged DEF IInv, StoppedIsEmpty, Mode
<1>4. avail \in 0..Len(in) /\ Len(in) \in Nat
  BY <1>1, RoundCounts, LenProperties DEF IInv, TypeOK
<1>5. i \in 1..avail /\ in[i].tag /\ i # 1
  BY <1>1, <1>2 DEF Tags
<1> DEFINE c == i - 1
<1>6. c \in 1..(Len(in) - 1) /\ c + 1 = i /\ c < i /\ c <= avail
  BY <1>4, <1>5
<1>7. Abstract!Untagged(c)
  <2> SUFFICES ASSUME NEW j \in 1..c PROVE ~in[j].tag
    BY DEF Abstract!Untagged
  <2>1. j \in 1..avail /\ ~(i <= j)
    BY <1>4, <1>5, <1>6
  <2>2. QED
    BY <1>2, <2>1 DEF Tags
<1> HIDE DEF c
<1>8. in' = Abstract!After(in, c)
  BY <1>2 DEF c, After, Abstract!After
<1>9. QED
  BY <1>1, <1>3, <1>5, <1>6, <1>7, <1>8 DEF Abstract!FindTag

-----------------------------------------------------------------------------
(* The refinement *)

LEMMA InitRefines == Init => Abstract!Init
<1> SUFFICES ASSUME Init PROVE Abstract!Init
  OBVIOUS
<1>1. CurrentFill = 0
  BY DEF Init, CurrentFill, Fill
<1>2. Queue = <<>>
  BY <1>1 DEF Queue
<1>3. QED
  BY <1>2 DEF Init, Abstract!Init, Mode

LEMMA NextRefines ==
    IInv /\ IInv' /\ [Next]_vars => [Abstract!Next]_(Abstract!qvars)
<1> SUFFICES ASSUME IInv, IInv', [Next]_vars
             PROVE  Abstract!Next \/ UNCHANGED Abstract!qvars
  OBVIOUS
<1>1. CASE UNCHANGED vars
  <2>1. UNCHANGED <<ring, flags, in, out>>
    BY <1>1 DEF vars
  <2>2. Queue' = Queue /\ Mode' = Mode
    BY <2>1, RingUnchanged DEF flags, Mode
  <2>3. QED
    BY <2>1, <2>2 DEF Abstract!qvars, flags
<1>2. CASE \E item \in Items : DecoderWrite(item)
  BY <1>2, ArriveStep DEF Abstract!Next
<1>3. CASE SinkRead
  BY <1>3, DrawStep DEF Abstract!Next
<1>4. CASE SetDropWhenFull
  BY <1>4, SetLossyStep DEF Abstract!Next
<1>5. CASE StopUntilTag \/ SwitchChannel
  BY <1>5, StopStep DEF Abstract!Next
<1>6. CASE Begin
  <2>1. UNCHANGED <<ring, flags, in, out>>
    BY <1>6 DEF Begin
  <2>2. Queue' = Queue /\ Mode' = Mode
    BY <2>1, RingUnchanged DEF flags, Mode
  <2>3. QED
    BY <2>1, <2>2 DEF Abstract!qvars, flags
<1>7. CASE Forecast
  BY <1>7, ForecastStep DEF Abstract!Next
<1>8. CASE WorkSkip
  BY <1>8, SkipStep DEF Abstract!Next
<1>9. CASE WorkFindTag
  BY <1>9, FindTagStep DEF Abstract!Next
<1>10. CASE WorkCopy
  BY <1>10, PrebufferStep, PlayStep DEF Abstract!Next
<1>11. QED
  BY <1>1, <1>2, <1>3, <1>4, <1>5, <1>6, <1>7, <1>8, <1>9, <1>10 DEF Next, Work

\* The ring buffer implements the bounded queue: for every size of the ring
\* and of the edges, and whatever the decoder, the sound card and the user
\* interface do, samples are played in the order they came, none twice, none
\* left out unless dropping is on and the ring is full, and none from before
\* the tag after stop_until_tag().
THEOREM Refinement == Spec => ImplementsQueue
<1>1. QED
  BY InitInv, NextInv, InitRefines, NextRefines, PTL
     DEF Spec, ImplementsQueue, Abstract!Spec
=============================================================================
