-------------------------- MODULE CursesAppProofs ---------------------------
(***************************************************************************)
(* Proofs about CursesApp, for all lists of channels, heights of the       *)
(* terminal, lengths of a page, and capacities.                            *)
(***************************************************************************)
EXTENDS CursesApp, FiniteSetTheorems, SequenceTheorems, TLAPS

-----------------------------------------------------------------------------
(* Coding: the lengths of the stages *)

\* Where a bit comes in KeptOrder.
Place == << 1,  2, 17, 25,  3, 13, 21, 29,
            4, 11, 19, 27,  5, 15, 23, 31,
            6, 10, 18, 26,  7, 14, 22, 30,
            8, 12, 20, 28,  9, 16, 24, 32 >>

LEMMA PlaceOfKept ==
    \A k \in 1..32 : Place[KeptOrder[k] + 1] = k
BY DEF Place, KeptOrder

\* A puncturing vector lets 8 + pi bits of a block through.
LEMMA VectorSize ==
    ASSUME NEW pi \in 0..24
    PROVE  Cardinality(PuncturingVector(pi)) = 8 + pi
<1> DEFINE I == 1..(8 + pi)
           f == [k \in I |-> KeptOrder[k]]
<1>1. \A i, j \in I : f[i] = f[j] => i = j
  BY PlaceOfKept
<1>2. f \in Bijection(I, PuncturingVector(pi))
  <2>1. f \in [I -> PuncturingVector(pi)]
    BY DEF PuncturingVector
  <2>2. \A t \in PuncturingVector(pi) : \E s \in I : f[s] = t
    BY DEF PuncturingVector
  <2> QED
    BY <1>1, <2>1, <2>2 DEF Bijection, Injection, Surjection, IsInjective
<1>3. ExistsBijection(I, PuncturingVector(pi))
  BY <1>2 DEF ExistsBijection
<1>4. IsFiniteSet(I) /\ Cardinality(I) = 8 + pi
  BY FS_Interval
<1> QED
  BY <1>3, <1>4, FS_Bijection

\* The vector of the tail lets 12 bits through.
LEMMA TailSize == Cardinality(TailVector) = 12
<1> DEFINE I == 1..12
           T == <<0, 1, 4, 5, 8, 9, 12, 13, 16, 17, 20, 21>>
           f == [k \in I |-> T[k]]
<1>1. \A k \in I : T[k] \in TailVector /\ T[k] = 4 * ((k - 1) \div 2) + ((k - 1) % 2)
  BY DEF TailVector
<1>2. \A i, j \in I : f[i] = f[j] => i = j
  BY <1>1
<1>3. \A t \in TailVector : \E s \in I : f[s] = t
  BY DEF TailVector
<1>4. f \in Bijection(I, TailVector)
  BY <1>1, <1>2, <1>3 DEF Bijection, Injection, Surjection, IsInjective
<1>5. IsFiniteSet(I) /\ Cardinality(I) = 12
  <2>1. \A n \in Nat : IsFiniteSet(1..n) /\ Cardinality(1..n) = n
    BY FS_Interval
  <2> QED
    BY <2>1
<1> QED
  BY <1>4, <1>5, FS_Bijection DEF ExistsBijection

LEMMA RegularFits ==
    ASSUME NEW ch \in Settings, Regular(ch)
    PROVE  Fits(ch)
<1> DEFINE n == Multiples(ch)
           p == ch.protect_level
<1>1. p \in 0..3 /\ ch.subch_size \in Nat /\ ch.bit_rate \in Nat
  BY DEF Settings
<1>2. SizeMultiple(p) \in {12, 8, 6, 4}
  BY <1>1 DEF SizeMultiple
<1>3. n \in Nat
  BY <1>1, <1>2 DEF Multiples
<1>4. SizeMultiple(p) * n = ch.subch_size /\ ch.bit_rate = 8 * n
  BY DEF Regular, WholeMultiples
<1> HIDE DEF n
<1>5. SequenceLength(n, p) = 4 * ViterbiSteps(n)
  <2>1. CASE p = 0
    BY <1>3, <2>1 DEF SequenceLength, Puncturing, ViterbiSteps, InfoBits, AddBits
  <2>2. CASE p = 1
    BY <1>3, <2>2 DEF SequenceLength, Puncturing, ViterbiSteps, InfoBits, AddBits
  <2>3. CASE p = 2
    BY <1>3, <2>3 DEF SequenceLength, Puncturing, ViterbiSteps, InfoBits, AddBits
  <2>4. CASE p = 3
    BY <1>3, <2>4 DEF SequenceLength, Puncturing, ViterbiSteps, InfoBits, AddBits
  <2> QED
    BY <1>1, <2>1, <2>2, <2>3, <2>4
<1>6. InfoBits(n) = 8 * FrameBytes(ch.bit_rate)
  <2>1. (8 * n) \div 8 = n
    BY <1>3
  <2> QED
    BY <1>3, <1>4, <2>1 DEF InfoBits, FrameBytes
<1>7. SequenceOnes(n, p) = CuSize * ch.subch_size
  <2> DEFINE c(pi) == Cardinality(PuncturingVector(pi))
  <2>1. CASE p = 0
    <3>1. c(24) = 32 /\ c(23) = 31
      BY VectorSize
    <3>2. SequenceOnes(n, p) = 4 * ((6 * n - 3) * c(24) + 3 * c(23)) + 12
      BY <2>1, TailSize DEF SequenceOnes, Puncturing
    <3>3. ch.subch_size = 12 * n
      BY <1>4, <2>1 DEF SizeMultiple
    <3> QED
      BY <1>3, <3>1, <3>2, <3>3 DEF CuSize
  <2>2. CASE p = 1
    <3>1. c(14) = 22 /\ c(13) = 21
      BY VectorSize
    <3>2. SequenceOnes(n, p) = 4 * ((2 * n - 3) * c(14) + (4 * n + 3) * c(13)) + 12
      BY <2>2, TailSize DEF SequenceOnes, Puncturing
    <3>3. ch.subch_size = 8 * n
      BY <1>4, <2>2 DEF SizeMultiple
    <3> QED
      BY <1>3, <3>1, <3>2, <3>3 DEF CuSize
  <2>3. CASE p = 2
    <3>1. c(8) = 16 /\ c(7) = 15
      BY VectorSize
    <3>2. SequenceOnes(n, p) = 4 * ((6 * n - 3) * c(8) + 3 * c(7)) + 12
      BY <2>3, TailSize DEF SequenceOnes, Puncturing
    <3>3. ch.subch_size = 6 * n
      BY <1>4, <2>3 DEF SizeMultiple
    <3> QED
      BY <1>3, <3>1, <3>2, <3>3 DEF CuSize
  <2>4. CASE p = 3
    <3>1. c(3) = 11 /\ c(2) = 10
      BY VectorSize
    <3>2. SequenceOnes(n, p) = 4 * ((4 * n - 3) * c(3) + (2 * n + 3) * c(2)) + 12
      BY <2>4, TailSize DEF SequenceOnes, Puncturing
    <3>3. ch.subch_size = 4 * n
      BY <1>4, <2>4 DEF SizeMultiple
    <3> QED
      BY <1>3, <3>1, <3>2, <3>3 DEF CuSize
  <2> QED
    BY <1>1, <2>1, <2>2, <2>3, <2>4
<1> QED
  BY <1>5, <1>6, <1>7 DEF Fits, n

-----------------------------------------------------------------------------
(* The menu *)

MenuKey == KeyUp \/ KeyDown \/ PageUp \/ PageDown \/ End \/ Home \/ Resize

\* Each key keeps the selected row in the list.
LEMMA MenuTypes ==
    ASSUME MenuTypeOK, nelem \in Nat, MenuKey
    PROVE  MenuTypeOK' /\ channel_list' = channel_list
<1>1. /\ Page \in Nat \ {0} /\ height \in Nat \ {0} /\ selected \in Int
      /\ scroll \in Nat /\ nelem \in Nat /\ -1 <= selected
  BY MenuAssumption DEF MenuTypeOK
<1>2. selected <= nelem /\ (nelem > 0 => selected >= 0 /\ selected < nelem)
  BY <1>1 DEF MenuTypeOK
<1>3. channel_list' = channel_list /\ nelem' = nelem
  BY DEF MenuKey, KeyUp, KeyDown, PageUp, PageDown, End, Home, Resize, nelem
<1> DEFINE Typed(s, c) ==
             s \in -1..nelem /\ (nelem > 0 => s \in 0..(nelem - 1)) /\ c \in Nat
<1>4. Typed(selected', scroll')
  <2> HIDE DEF nelem
  <2>1. CASE KeyUp
    BY <1>1, <1>2, <2>1 DEF KeyUp
  <2>2. CASE KeyDown
    BY <1>1, <1>2, <2>2 DEF KeyDown
  <2>3. CASE PageUp
    BY <1>1, <1>2, <2>3 DEF PageUp
  <2>4. CASE PageDown
    BY <1>1, <1>2, <2>4 DEF PageDown
  <2>5. CASE End
    BY <1>1, <1>2, <2>5 DEF End, Below
  <2>6. CASE Home
    BY <1>1, <1>2, <2>6 DEF Home
  <2>7. CASE Resize
    BY <1>1, <1>2, <2>7 DEF Resize
  <2> QED
    BY <2>1, <2>2, <2>3, <2>4, <2>5, <2>6, <2>7 DEF MenuKey
<1>5. height' \in Heights /\ resized' \in BOOLEAN
  BY DEF MenuTypeOK, MenuKey, KeyUp, KeyDown, PageUp, PageDown, End, Home, Resize
<1> QED
  BY <1>3, <1>4, <1>5 DEF MenuTypeOK

\* Each key keeps the selected row on the screen, by a rule of its own.
LEMMA MenuVisible ==
    ASSUME MenuTypeOK, nelem \in Nat, SelectedVisible, MenuKey
    PROVE  SelectedVisible'
<1>1. /\ Page \in Nat \ {0} /\ height \in Nat \ {0} /\ selected \in Int
      /\ scroll \in Nat /\ nelem \in Nat
  BY MenuAssumption DEF MenuTypeOK
<1>2. nelem > 0 => selected >= 0 /\ selected < nelem
  BY <1>1 DEF MenuTypeOK
<1>3. nelem' = nelem
  BY DEF MenuKey, KeyUp, KeyDown, PageUp, PageDown, End, Home, Resize, nelem
<1> DEFINE Seen(s, c, h) == c <= s /\ s < nelem /\ s < c + h - 1
<1>4. CASE Resize
  BY <1>4 DEF Resize, SelectedVisible
<1>5. CASE ~Resize /\ nelem > 0 /\ ~resized' /\ height > Page /\ height > 2
  <2>1. height' = height
    BY <1>5 DEF MenuKey, KeyUp, KeyDown, PageUp, PageDown, End, Home
  <2>2. ~resized => Seen(selected, scroll, height)
    BY <1>1, <1>5 DEF SelectedVisible, Rows
  <2>3. Seen(selected', scroll', height)
    <3> HIDE DEF nelem
    <3>1. CASE KeyUp
      BY <1>1, <1>2, <1>5, <2>2, <3>1 DEF KeyUp
    <3>2. CASE KeyDown
      BY <1>1, <1>2, <1>5, <2>2, <3>2 DEF KeyDown
    <3>3. CASE PageUp
      BY <1>1, <1>2, <1>5, <2>2, <3>3 DEF PageUp
    <3>4. CASE PageDown
      BY <1>1, <1>2, <1>5, <2>2, <3>4 DEF PageDown, Below
    <3>5. CASE End
      BY <1>1, <1>2, <1>5, <2>2, <3>5 DEF End, Below
    <3>6. CASE Home
      BY <1>1, <1>2, <1>5, <3>6 DEF Home
    <3> QED
      BY <1>5, <3>1, <3>2, <3>3, <3>4, <3>5, <3>6 DEF MenuKey
  <2>4. scroll' \in Nat /\ selected' \in Int
    BY MenuTypes DEF MenuTypeOK
  <2>5. Rows' = {r \in scroll'..(nelem - 1) : r < scroll' + height - 1}
    BY <1>3, <2>1 DEF Rows
  <2>6. selected' \in Rows'
    <3> HIDE DEF nelem
    <3>1. selected' \in scroll'..(nelem - 1)
      BY <1>1, <2>3, <2>4
    <3>2. selected' < scroll' + height - 1
      BY <2>3
    <3> QED
      BY <2>5, <3>1, <3>2
  <2> QED
    BY <2>6 DEF SelectedVisible
<1>6. CASE ~Resize /\ ~(nelem > 0 /\ ~resized' /\ height > Page /\ height > 2)
  <2>1. height' = height
    BY <1>6 DEF MenuKey, KeyUp, KeyDown, PageUp, PageDown, End, Home
  <2> QED
    BY <1>3, <1>6, <2>1 DEF SelectedVisible
<1> QED
  BY <1>4, <1>5, <1>6

-----------------------------------------------------------------------------
(* The queue: what it holds and gives is what came *)

Clean(S) ==
    /\ in \in Seq([smp : S, tag : BOOLEAN])
    /\ queue \in Seq(S)
    /\ out \in Seq(S \cup {Silence})

LEMMA PiecesOfSeq ==
    ASSUME NEW S, NEW s \in Seq(S), NEW n \in 0..Len(s)
    PROVE  Monitor!After(s, n) \in Seq(S) /\ SubSeq(s, 1, n) \in Seq(S)
<1>1. Len(s) \in Nat /\ \A i \in 1..Len(s) : s[i] \in S
  BY LenProperties, ElementOfSeq
<1>2. \A m, k \in Int : (\A i \in m..k : s[i] \in S) => SubSeq(s, m, k) \in Seq(S)
  BY SubSeqProperties
<1>3. (\A i \in 1..n : s[i] \in S) /\ (\A i \in (n + 1)..Len(s) : s[i] \in S)
  BY <1>1
<1>4. SubSeq(s, 1, n) \in Seq(S)
  BY <1>1, <1>2, <1>3
<1>5. SubSeq(s, n + 1, Len(s)) \in Seq(S)
  BY <1>1, <1>2, <1>3
<1> QED
  BY <1>4, <1>5 DEF Monitor!After

LEMMA SamplesOfSeq ==
    ASSUME NEW S, NEW s \in Seq([smp : S, tag : BOOLEAN])
    PROVE  Monitor!Samples(s) \in Seq(S)
<1> DEFINE E == [smp : S, tag : BOOLEAN]
<1>1. Len(s) \in Nat /\ \A i \in 1..Len(s) : s[i].smp \in S
  <2>1. s \in Seq(E) /\ \A e \in E : e.smp \in S
    OBVIOUS
  <2> HIDE DEF E
  <2>2. Len(s) \in Nat /\ \A i \in 1..Len(s) : s[i] \in E
    BY <2>1, LenProperties, ElementOfSeq
  <2> QED
    BY <2>1, <2>2
<1>2. Monitor!Samples(s) \in [1..Len(s) -> S]
  BY <1>1 DEF Monitor!Samples
<1> QED
  BY <1>1, <1>2, SeqDef

LEMMA SilentSeq ==
    ASSUME NEW n \in Nat
    PROVE  Monitor!Silent(n) \in Seq({Silence})
<1>1. Monitor!Silent(n) \in [1..n -> {Silence}]
  BY DEF Monitor!Silent
<1> QED
  BY <1>1, SeqDef

LEMMA WiderSeq ==
    ASSUME NEW S, NEW T, S \subseteq T, NEW s \in Seq(S)
    PROVE  s \in Seq(T)
<1>1. Len(s) \in Nat /\ s \in [1..Len(s) -> S]
  BY LenProperties
<1>2. s \in [1..Len(s) -> T]
  BY <1>1
<1> QED
  BY <1>1, <1>2, SeqDef

\* No step of the monitor or the sink brings in anything new.
LEMMA FlowClean ==
    ASSUME NEW S, Clean(S), MonitorWorks \/ SinkReads
    PROVE  Clean(S)'
<1> DEFINE E == [smp : S, tag : BOOLEAN]
           O == S \cup {Silence}
<1> USE DEF Clean
<1>1. Len(in) \in Nat /\ Len(out) \in Nat /\ OutCap \in Nat
  BY AppAssumption, LenProperties
<1>2. \A n \in 1..(OutCap - Len(out)) : out \o Monitor!Silent(n) \in Seq(O)
  <2> TAKE n \in 1..(OutCap - Len(out))
  <2>1. n \in Nat
    BY <1>1
  <2>2. Monitor!Silent(n) \in Seq(O)
    BY <2>1, SilentSeq, WiderSeq
  <2> QED
    BY <2>2, ConcatProperties
<1>3. \A a \in 0..Len(in) : queue \o Monitor!Samples(SubSeq(in, 1, a)) \in Seq(S)
  <2> TAKE a \in 0..Len(in)
  <2>1. SubSeq(in, 1, a) \in Seq(E)
    BY PiecesOfSeq
  <2>2. Monitor!Samples(SubSeq(in, 1, a)) \in Seq(S)
    BY <2>1, SamplesOfSeq
  <2> QED
    BY <2>2, ConcatProperties
<1>4. \A c \in 0..Len(in) : Monitor!After(in, c) \in Seq(E)
  BY PiecesOfSeq
<1>5. CASE Monitor!Prebuffer
  <2>1. PICK a \in 0..Len(in), n \in 1..(OutCap - Len(out)) :
           /\ \E c \in a..Len(in) :
                 Monitor!Consume(a, c, queue \o Monitor!Samples(SubSeq(in, 1, a)))
           /\ out' = out \o Monitor!Silent(n)
    BY <1>5 DEF Monitor!Prebuffer
  <2>2. PICK c \in a..Len(in) :
           Monitor!Consume(a, c, queue \o Monitor!Samples(SubSeq(in, 1, a)))
    BY <2>1
  <2>3. c \in 0..Len(in)
    BY <1>1
  <2>4. in' = Monitor!After(in, c) /\ queue' = queue \o Monitor!Samples(SubSeq(in, 1, a))
    BY <2>2 DEF Monitor!Consume
  <2> QED
    BY <1>2, <1>3, <1>4, <2>1, <2>3, <2>4
<1>6. CASE Monitor!Play
  <2>1. PICK a \in 0..Len(in), n \in 0..(OutCap - Len(out)) :
           LET stream == queue \o Monitor!Samples(SubSeq(in, 1, a))
           IN  /\ n <= Len(stream)
               /\ out' = out \o SubSeq(stream, 1, n)
               /\ \E c \in a..Len(in) : Monitor!Consume(a, c, Monitor!After(stream, n))
    BY <1>6 DEF Monitor!Play
  <2> DEFINE stream == queue \o Monitor!Samples(SubSeq(in, 1, a))
  <2>2. stream \in Seq(S)
    BY <1>3
  <2> HIDE DEF stream
  <2>3. /\ n <= Len(stream) /\ out' = out \o SubSeq(stream, 1, n)
        /\ \E c \in a..Len(in) : Monitor!Consume(a, c, Monitor!After(stream, n))
    BY <2>1 DEF stream
  <2>4. n \in 0..Len(stream)
    BY <1>1, <2>2, <2>3, LenProperties
  <2>5. PICK c \in a..Len(in) : Monitor!Consume(a, c, Monitor!After(stream, n))
    BY <2>3
  <2>6. in' = Monitor!After(in, c) /\ queue' = Monitor!After(stream, n)
    BY <2>5 DEF Monitor!Consume
  <2>7. c \in 0..Len(in)
    BY <1>1
  <2>8. queue' \in Seq(S) /\ SubSeq(stream, 1, n) \in Seq(O)
    BY <2>2, <2>4, <2>6, PiecesOfSeq, WiderSeq
  <2>9. out' \in Seq(O)
    BY <2>3, <2>8, ConcatProperties
  <2> QED
    BY <1>4, <2>6, <2>7, <2>8, <2>9
<1>7. CASE Monitor!StartOver
  BY <1>7 DEF Monitor!StartOver
<1>8. CASE Monitor!Skip
  BY <1>2, <1>4, <1>8 DEF Monitor!Skip
<1>9. CASE Monitor!FindTag
  <2>1. PICK c \in 1..(Len(in) - 1) : in' = Monitor!After(in, c)
    BY <1>9 DEF Monitor!FindTag
  <2>2. c \in 0..Len(in)
    BY <1>1
  <2>3. queue' = queue /\ out' = out
    BY <1>9 DEF Monitor!FindTag
  <2> QED
    BY <1>4, <2>1, <2>2, <2>3
<1>10. CASE Monitor!Draw
  <2>1. PICK n \in 1..Len(out) : out' = Monitor!After(out, n)
    BY <1>10 DEF Monitor!Draw
  <2>2. n \in 0..Len(out)
    BY <1>1
  <2>3. out' \in Seq(O)
    BY <2>1, <2>2, PiecesOfSeq
  <2>4. in' = in /\ queue' = queue
    BY <1>10 DEF Monitor!Draw
  <2> QED
    BY <2>3, <2>4
<1> QED
  BY <1>5, <1>6, <1>7, <1>8, <1>9, <1>10 DEF MonitorWorks, SinkReads

LEMMA ArriveClean ==
    ASSUME NEW S, Clean(S), Decoded \in S, fresh \in BOOLEAN, DecoderWrites
    PROVE  Clean(S)'
<1>1. [smp |-> Decoded, tag |-> fresh] \in [smp : S, tag : BOOLEAN]
  OBVIOUS
<1>2. in' = Append(in, [smp |-> Decoded, tag |-> fresh]) /\ queue' = queue /\ out' = out
  BY DEF DecoderWrites, Monitor!Arrive
<1>3. in' \in Seq([smp : S, tag : BOOLEAN])
  BY <1>1, <1>2, AppendProperties DEF Clean
<1> QED
  BY <1>2, <1>3 DEF Clean

-----------------------------------------------------------------------------
(* Types *)

LEMMA ListFacts ==
    ASSUME channel_list \in Lists
    PROVE  /\ nelem \in Nat
           /\ Channels \subseteq Settings
           /\ \A k \in 0..(nelem - 1) : Row(k) \in Channels
           /\ nelem = 0 => \A k \in Int : Row(k) \in Channels
<1>1. \A l \in Lists : Len(l) \in Nat /\ \A k \in 1..Len(l) : l[k] \in Settings
  BY AppAssumption, LenProperties, ElementOfSeq
<1>2. nelem \in Nat
  BY <1>1 DEF nelem
<1>3. DefaultChannel \in Settings /\ DefaultChannel \in Channels
  BY DEF DefaultChannel, Settings, Channels
<1>4. Channels \subseteq Settings
  BY <1>1, <1>3 DEF Channels
<1>5. \A k \in 1..nelem : channel_list[k] \in Channels
  BY DEF Channels, nelem
<1> QED
  BY <1>2, <1>3, <1>4, <1>5 DEF Row

LEMMA ProgrammeTypes ==
    ASSUME TypeOK, NEW ch \in Channels
    PROVE  /\ Ensemble(ch) \in {File} \cup {c.frequency : c \in Channels}
           /\ Programme(ch) \in Programmes /\ Decoded \in Programmes
<1>1. Ensemble(ch) \in {File} \cup {c.frequency : c \in Channels}
  BY DEF Ensemble
<1>2. tuned \in {File} \cup {c.frequency : c \in Channels} /\ decoder \in Channels
  BY DEF TypeOK
<1>3. \A c \in Channels : c.address \in {d.address : d \in Channels}
  OBVIOUS
<1>4. Programme(ch) \in Programmes
  BY <1>1, <1>3 DEF Programme, Programmes
<1>5. Decoded \in Programmes
  BY <1>2, <1>3 DEF Decoded, Programmes
<1> QED
  BY <1>1, <1>4, <1>5

LEMMA EmptyIsClean ==
    ASSUME NEW S
    PROVE  <<>> \in Seq(S)
BY EmptySeq

\* The queue's types are what Clean says of all programmes.
LEMMA AudioTypes ==
    /\ TypeOK => Clean(Programmes)
    /\ TypeOK <=> /\ MenuTypeOK /\ channel_list \in Lists
                  /\ active \in -1..nelem /\ (nelem > 0 => active \in 0..(nelem - 1))
                  /\ from_file \in BOOLEAN
                  /\ decoder \in Channels /\ new \in Channels
                  /\ tuned \in {File} \cup {ch.frequency : ch \in Channels}
                  /\ step \in Steps /\ fresh \in BOOLEAN
                  /\ Clean(Programmes)
                  /\ mode \in {"skip", "fill", "play"} /\ lossy = FALSE
BY Zenon DEF TypeOK, Clean, Monitor!Edge, Sound

LEMMA TypesInit == Init => TypeOK
<1> SUFFICES ASSUME Init PROVE TypeOK
  OBVIOUS
<1>1. channel_list \in Lists /\ from_file \in BOOLEAN /\ height \in Heights
  BY DEF Init, MenuInit
<1>2. selected = 0 /\ scroll = 0 /\ resized = FALSE /\ active = 0
  BY DEF Init, MenuInit
<1>3. nelem \in Nat /\ Row(0) \in Channels
  BY <1>1, ListFacts
<1>4. MenuTypeOK
  <2>1. selected \in -1..nelem /\ (nelem > 0 => selected \in 0..(nelem - 1))
    BY <1>2, <1>3
  <2>2. scroll \in Nat
    BY <1>2
  <2>3. resized \in BOOLEAN
    BY <1>2
  <2> QED
    BY <1>1, <2>1, <2>2, <2>3 DEF MenuTypeOK
<1>5. active \in -1..nelem /\ (nelem > 0 => active \in 0..(nelem - 1))
  BY <1>2, <1>3
<1>6. decoder \in Channels /\ new \in Channels /\ step \in Steps /\ fresh \in BOOLEAN
  BY <1>3 DEF Init, Steps
<1>7. tuned \in {File} \cup {ch.frequency : ch \in Channels}
  BY <1>6 DEF Init, Ensemble
<1>8. Clean(Programmes) /\ mode \in {"skip", "fill", "play"} /\ lossy = FALSE
  BY EmptyIsClean DEF Init, Monitor!Init, Clean
<1> QED
  BY <1>1, <1>4, <1>5, <1>6, <1>7, <1>8, AudioTypes

\* Only the keys of the menu change what the menu shows, and nothing changes
\* the list or where the samples come from.
LEMMA StaticFacts ==
    ASSUME TypeOK, Next
    PROVE  /\ channel_list' = channel_list /\ from_file' = from_file
           /\ nelem' = nelem
           /\ \A k : Row(k)' = Row(k)
           /\ \A ch : Ensemble(ch)' = Ensemble(ch) /\ Programme(ch)' = Programme(ch)
<1>1. channel_list' = channel_list /\ from_file' = from_file
  <2>1. CASE Navigate
    BY <2>1 DEF Navigate, switch, KeyUp, KeyDown, PageUp, PageDown, End, Home, Resize
  <2>2. CASE ~Navigate
    BY <2>2 DEF Next, Tune, TuneNothing, Build, StopFlowgraph, StopUntilTag, Rewire,
                StartFlowgraph, Quit, DecoderWrites, MonitorWorks, SinkReads,
                menu, switch
  <2> QED
    BY <2>1, <2>2
<1> QED
  BY <1>1 DEF nelem, Row, Ensemble, Programme

LEMMA TypesNext ==
    ASSUME TypeOK, Next
    PROVE  TypeOK'
<1>1. /\ channel_list \in Lists /\ channel_list' \in Lists /\ nelem' = nelem
      /\ from_file' \in BOOLEAN /\ nelem \in Nat
  BY StaticFacts, ListFacts DEF TypeOK
<1> DEFINE Played ==
             active \in -1..nelem /\ (nelem > 0 => active \in 0..(nelem - 1))
           Picked ==
             /\ decoder \in Channels /\ new \in Channels
             /\ tuned \in {File} \cup {ch.frequency : ch \in Channels}
             /\ step \in Steps /\ fresh \in BOOLEAN
           Queued ==
             Clean(Programmes) /\ mode \in {"skip", "fill", "play"} /\ lossy = FALSE
<1>2. MenuTypeOK /\ Played /\ Picked /\ Queued
  BY AudioTypes
<1>3. SUFFICES MenuTypeOK' /\ Played' /\ Picked' /\ Queued'
  BY <1>1, <1>3, Zenon DEF TypeOK, Clean, Monitor!Edge, Sound
<1>4. MenuTypeOK'
  <2>1. CASE Navigate
    BY <1>1, <1>2, <2>1, MenuTypes DEF Navigate, MenuKey
  <2>2. CASE ~Navigate
    <3>1. UNCHANGED menu
      BY <2>2 DEF Next, Tune, TuneNothing, Build, StopFlowgraph, StopUntilTag, Rewire,
                  StartFlowgraph, Quit, DecoderWrites, MonitorWorks, SinkReads
    <3> QED
      BY <1>2, <3>1 DEF menu, MenuTypeOK, nelem
  <2> QED
    BY <2>1, <2>2
<1>5. Played'
  <2>1. selected \in -1..nelem /\ (nelem > 0 => selected \in 0..(nelem - 1))
    BY <1>2 DEF MenuTypeOK
  <2>2. active' = active \/ active' = selected
    BY DEF Next, Navigate, Tune, TuneNothing, Build, StopFlowgraph, StopUntilTag, Rewire,
           StartFlowgraph, Quit, DecoderWrites, MonitorWorks, SinkReads, switch
  <2> QED
    BY <1>1, <1>2, <2>1, <2>2
<1>6. Picked'
  <2>1. CASE Tune
    <3>1. Row(selected) \in Channels
      BY <1>1, <1>2, <2>1, ListFacts DEF Tune, MenuTypeOK
    <3>2. tuned' \in {File} \cup {ch.frequency : ch \in Channels}
      BY <2>1, <3>1, ProgrammeTypes DEF Tune
    <3> QED
      BY <1>2, <2>1, <3>2 DEF Tune, Steps
  <2>2. CASE Build
    <3>1. Row(active) \in Channels
      <4>1. nelem > 0 \/ nelem = 0
        BY <1>1
      <4>2. active \in Int
        BY <1>1, <1>2
      <4> QED
        BY <1>1, <1>2, <4>1, <4>2, ListFacts
    <3> QED
      BY <1>2, <2>2, <3>1 DEF Build, Steps
  <2>3. CASE TuneNothing \/ StopFlowgraph \/ StopUntilTag \/ Rewire \/ StartFlowgraph \/ Quit
    BY <1>2, <2>3 DEF TuneNothing, StopFlowgraph, StopUntilTag, Rewire, StartFlowgraph,
                      Quit, Steps
  <2>4. CASE DecoderWrites
    BY <1>2, <2>4 DEF DecoderWrites
  <2>5. CASE Navigate \/ MonitorWorks \/ SinkReads
    BY <1>2, <2>5 DEF Navigate, MonitorWorks, SinkReads, switch
  <2> QED
    BY <2>1, <2>2, <2>3, <2>4, <2>5 DEF Next
<1>7. Queued'
  <2>1. CASE MonitorWorks \/ SinkReads
    <3>1. Clean(Programmes)'
      BY <1>2, <2>1, FlowClean
    <3>2. mode' \in {"skip", "fill", "play"} /\ lossy' = lossy
      BY <1>2, <2>1 DEF MonitorWorks, SinkReads, Monitor!Prebuffer, Monitor!Play,
                        Monitor!StartOver, Monitor!Skip, Monitor!FindTag, Monitor!Draw
    <3> QED
      BY <1>2, <3>1, <3>2
  <2>2. CASE DecoderWrites
    <3>1. Clean(Programmes)'
      BY <1>2, <2>2, ArriveClean, ProgrammeTypes
    <3> QED
      BY <1>2, <2>2, <3>1 DEF DecoderWrites, Monitor!Arrive
  <2>3. CASE StopUntilTag
    BY <1>2, <2>3, EmptyIsClean DEF StopUntilTag, Monitor!Stop, Clean
  <2>4. CASE StartFlowgraph
    BY <1>2, <2>4, EmptyIsClean DEF StartFlowgraph, Clean
  <2>5. CASE Navigate \/ Tune \/ TuneNothing \/ Build \/ StopFlowgraph \/ Rewire \/ Quit
    <3>1. UNCHANGED audio
      BY <2>5 DEF Navigate, Tune, TuneNothing, Build, StopFlowgraph, Rewire, Quit
    <3> QED
      BY <1>2, <3>1 DEF audio, Clean
  <2> QED
    BY <2>1, <2>2, <2>3, <2>4, <2>5 DEF Next
<1> QED
  BY <1>4, <1>5, <1>6, <1>7

\* Types: the selected and the played channel are rows of the list, -1 only if
\* it is empty, and the queue holds samples of known programmes.
THEOREM Types == Spec => []TypeOK
<1>1. TypeOK /\ UNCHANGED vars => TypeOK'
  BY Zenon DEF vars, menu, switch, audio, TypeOK, MenuTypeOK, nelem
<1>2. TypeOK /\ [Next]_vars => TypeOK'
  BY <1>1, TypesNext
<1> QED
  BY <1>2, TypesInit, PTL DEF Spec

\* SelectedVisible, whatever the list, the height and the length of a page:
\* the selected channel is on the screen after any keys (draw_menu()).
THEOREM VisibleSelection == Spec => []SelectedVisible
<1>1. Init => SelectedVisible
  <2> SUFFICES ASSUME Init, nelem > 0, height > 2 PROVE selected \in Rows
    BY DEF SelectedVisible
  <2>1. selected = 0 /\ scroll = 0 /\ nelem \in Nat /\ height \in Nat
    BY ListFacts, MenuAssumption DEF Init, MenuInit
  <2> HIDE DEF nelem
  <2> QED
    BY <2>1 DEF Rows
<1>2. TypeOK /\ SelectedVisible /\ [Next]_vars => SelectedVisible'
  <2> SUFFICES ASSUME TypeOK, SelectedVisible, [Next]_vars PROVE SelectedVisible'
    OBVIOUS
  <2>1. CASE Navigate
    BY <2>1, MenuVisible, ListFacts DEF Navigate, MenuKey, TypeOK
  <2>2. CASE ~Navigate
    <3>1. UNCHANGED menu
      BY <2>2 DEF vars, Next, Tune, TuneNothing, Build, StopFlowgraph, StopUntilTag,
                  Rewire, StartFlowgraph, Quit, DecoderWrites, MonitorWorks, SinkReads
    <3> QED
      BY <3>1 DEF menu, SelectedVisible, Rows, nelem
  <2> QED
    BY <2>1, <2>2
<1> QED
  BY <1>1, <1>2, Types, PTL DEF Spec

\* DecoderFits: of every sub-channel of n times 8 kbit/s, for all n and all four
\* levels of protection, the stages of the decoder fit (msc_decode.py).
THEOREM FitsAll == Spec => []DecoderFits
<1>1. TypeOK => DecoderFits
  BY ListFacts, RegularFits DEF TypeOK, DecoderFits
<1> QED
  BY <1>1, Types, PTL

-----------------------------------------------------------------------------
(* The switch to another channel *)

Current == Programme(Row(active))

\* How far the switch has come: the receiver is tuned before the decoder is
\* built, the store is empty before the flowgraph starts, and from there on only
\* the current programme comes in.
IInv ==
    /\ TypeOK
    /\ step \notin {"failed", "quit"} => tuned = Ensemble(Row(active))
    /\ step \in {"built", "stopped", "silenced", "rewired"} => new = Row(active)
    /\ step \in {"rewired", "keys"} => decoder = Row(active)
    /\ step \in {"silenced", "rewired"} => queue = <<>>
    /\ step = "keys" => Clean({Current})

LEMMA InvariantInit == Init => IInv
<1> SUFFICES ASSUME Init PROVE IInv
  OBVIOUS
<1>1. active = 0 /\ decoder = Row(active) /\ tuned = Ensemble(Row(active)) /\ step = "keys"
  BY DEF Init
<1>2. Clean({Current})
  BY EmptyIsClean DEF Init, Monitor!Init, Clean
<1> QED
  BY <1>1, <1>2, TypesInit DEF IInv

LEMMA InvariantNext ==
    ASSUME IInv, Next
    PROVE  IInv'
<1>1. TypeOK /\ TypeOK'
  BY TypesNext DEF IInv
<1>2. /\ \A k : Row(k)' = Row(k)
      /\ \A ch : Ensemble(ch)' = Ensemble(ch) /\ Programme(ch)' = Programme(ch)
  BY <1>1, StaticFacts
<1>3. CASE Tune
  <2>1. active' = selected /\ tuned' = Ensemble(Row(selected)) /\ step' = "tuned"
    BY <1>3 DEF Tune
  <2>2. Ensemble(Row(active))' = Ensemble(Row(selected))
    <3>1. channel_list' = channel_list /\ from_file' = from_file
      BY <1>1, StaticFacts
    <3>2. Row(active)' = Row(selected)
      BY <2>1, <3>1 DEF Row, nelem
    <3> QED
      BY <3>1, <3>2, Zenon DEF Ensemble
  <2> QED
    BY <1>1, <2>1, <2>2 DEF IInv
<1>4. CASE TuneNothing \/ Quit
  <2>1. step' \in {"failed", "quit"}
    BY <1>4 DEF TuneNothing, Quit
  <2> QED
    BY <1>1, <2>1 DEF IInv
<1>5. CASE ~Tune /\ ~TuneNothing /\ ~Quit
  <2>1. active' = active /\ tuned' = tuned
    BY <1>5 DEF Next, Navigate, Build, StopFlowgraph, StopUntilTag, Rewire, StartFlowgraph,
                DecoderWrites, MonitorWorks, SinkReads, switch
  <2>2. /\ Row(active)' = Row(active) /\ Ensemble(Row(active))' = Ensemble(Row(active))
        /\ Current' = Current
    <3>1. channel_list' = channel_list /\ from_file' = from_file
      BY <1>1, StaticFacts
    <3> QED
      BY <2>1, <3>1 DEF Row, Ensemble, Current, Programme, nelem
  <2>3. CASE Build
    <3>1. new' = Row(active) /\ step = "tuned" /\ step' \in {"built", "failed"}
      BY <2>3 DEF Build
    <3> QED
      BY <1>1, <2>1, <2>2, <3>1 DEF IInv
  <2>4. CASE StopFlowgraph \/ StopUntilTag
    <3>1. /\ new' = new /\ step \in {"built", "stopped"} /\ step' \in {"stopped", "silenced"}
          /\ step' = "silenced" => queue' = <<>>
      BY <2>4 DEF StopFlowgraph, StopUntilTag, Monitor!Stop
    <3> QED
      BY <1>1, <2>1, <2>2, <3>1 DEF IInv
  <2>5. CASE Rewire
    <3>1. /\ new' = new /\ decoder' = new /\ queue' = queue
          /\ step = "silenced" /\ step' = "rewired"
      BY <2>5 DEF Rewire, audio
    <3> QED
      BY <1>1, <2>1, <2>2, <3>1 DEF IInv
  <2>6. CASE StartFlowgraph
    <3>1. /\ decoder' = decoder /\ queue' = queue /\ in' = <<>> /\ out' = <<>>
          /\ step = "rewired" /\ step' = "keys"
      BY <2>6 DEF StartFlowgraph
    <3>2. queue = <<>>
      BY <3>1 DEF IInv
    <3>3. Clean({Current})'
      BY <3>1, <3>2, EmptyIsClean DEF Clean
    <3> QED
      BY <1>1, <2>1, <2>2, <3>1, <3>3 DEF IInv
  <2>7. CASE Navigate \/ DecoderWrites \/ MonitorWorks \/ SinkReads
    <3>1. /\ decoder' = decoder /\ new' = new /\ step' = step
          /\ step \in {"keys", "tuned", "built"}
      BY <2>7 DEF Navigate, DecoderWrites, MonitorWorks, SinkReads, switch, Running
    <3>2. ASSUME step = "keys" PROVE Clean({Current})'
      <4>1. Clean({Current})
        BY <3>2 DEF IInv
      <4>2. CASE Navigate
        BY <2>2, <4>1, <4>2 DEF Navigate, audio, Clean
      <4>3. CASE MonitorWorks \/ SinkReads
        <5> DEFINE S == {Current}
        <5>1. Clean(S)
          BY <4>1
        <5>2. ASSUME NEW T, Clean(T) PROVE Clean(T)'
          BY <4>3, <5>2, FlowClean
        <5>3. /\ in' \in Seq([smp : S, tag : BOOLEAN]) /\ queue' \in Seq(S)
              /\ out' \in Seq(S \cup {Silence})
          BY <5>1, <5>2 DEF Clean
        <5> QED
          BY <2>2, <5>3 DEF Clean
      <4>4. CASE DecoderWrites
        <5> DEFINE S == {Current}
        <5>1. Decoded \in S
          BY <3>2 DEF IInv, Decoded, Current, Programme
        <5>2. fresh \in BOOLEAN
          BY <1>1 DEF TypeOK
        <5>3. in' = Append(in, [smp |-> Decoded, tag |-> fresh]) /\ queue' = queue /\ out' = out
          BY <4>4 DEF DecoderWrites, Monitor!Arrive
        <5>4. in' \in Seq([smp : S, tag : BOOLEAN])
          <6> DEFINE e == [smp |-> Decoded, tag |-> fresh]
                     E == [smp : S, tag : BOOLEAN]
          <6>1. e \in E
            BY <5>1, <5>2
          <6>2. in \in Seq(E)
            BY <4>1 DEF Clean
          <6> HIDE DEF e, E
          <6>3. Append(in, e) \in Seq(E)
            BY <6>1, <6>2, AppendProperties
          <6> QED
            BY <5>3, <6>3 DEF e, E
        <5> QED
          BY <2>2, <4>1, <5>3, <5>4 DEF Clean
      <4> QED
        BY <2>7, <4>2, <4>3, <4>4
    <3>3. step' = "keys" => Clean({Current})'
      BY <3>1, <3>2
    <3> QED
      BY <1>1, <2>1, <2>2, <3>1, <3>3 DEF IInv
  <2> QED
    BY <1>5, <2>3, <2>4, <2>5, <2>6, <2>7 DEF Next
<1> QED
  BY <1>3, <1>4, <1>5

\* PlaysActive: after a switch, whatever the threads did while it was under way,
\* nothing is stored or heard but the channel that was chosen (draw_menu()).
THEOREM ActivePlays == Spec => []PlaysActive
<1>1. IInv /\ UNCHANGED vars => IInv'
  <2>1. TypeOK /\ UNCHANGED vars => TypeOK'
    BY Zenon DEF vars, menu, switch, audio, TypeOK, MenuTypeOK, nelem
  <2> SUFFICES ASSUME IInv, UNCHANGED vars PROVE IInv'
    OBVIOUS
  <2>2. /\ channel_list' = channel_list /\ from_file' = from_file /\ active' = active
        /\ tuned' = tuned /\ new' = new /\ decoder' = decoder /\ step' = step
        /\ in' = in /\ queue' = queue /\ out' = out
    BY DEF vars, menu, switch, audio
  <2>3. Row(active)' = Row(active)
    BY <2>2 DEF Row, nelem
  <2>4. Ensemble(Row(active))' = Ensemble(Row(active))
    BY <2>2, <2>3, Zenon DEF Ensemble
  <2>5. Current' = Current
    BY <2>3, <2>4 DEF Current, Programme
  <2>6. Clean({Current})' <=> Clean({Current})
    BY <2>2, <2>5 DEF Clean
  <2> QED
    BY <2>1, <2>2, <2>3, <2>4, <2>6 DEF IInv
<1>2. IInv /\ [Next]_vars => IInv'
  BY <1>1, InvariantNext
<1>3. IInv => PlaysActive
  <2> SUFFICES ASSUME IInv, step = "keys"
               PROVE  /\ \A k \in 1..Len(queue) : queue[k] = Current
                      /\ \A k \in 1..Len(out) : out[k] \in {Silence, Current}
    BY DEF PlaysActive, Current
  <2>1. queue \in Seq({Current}) /\ out \in Seq({Current} \cup {Silence})
    BY DEF IInv, Clean
  <2>2. \A k \in 1..Len(queue) : queue[k] \in {Current}
    BY <2>1, ElementOfSeq
  <2>3. \A k \in 1..Len(out) : out[k] \in {Current} \cup {Silence}
    BY <2>1, ElementOfSeq
  <2> QED
    BY <2>2, <2>3
<1> QED
  BY <1>2, <1>3, InvariantInit, PTL DEF Spec
=============================================================================
