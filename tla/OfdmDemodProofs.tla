--------------------------- MODULE OfdmDemodProofs --------------------------
(***************************************************************************)
(* Proofs about the OFDM demodulator: the sampler, which cuts the stream   *)
(* into symbols, and the chain of blocks behind it, which leads each       *)
(* symbol to the FIC or the MSC decoder.                                   *)
(*                                                                         *)
(* Sampler: for all lengths, and however the samples are cut into calls,   *)
(* its symbols lie where the tags put them, no frame is passed over and    *)
(* every frame is whole.                                                   *)
(*                                                                         *)
(* Chain: for all sizes of the frame, of the edges' buffers and of the     *)
(* equalizer's delay, whatever pieces the symbols come in, every frame is  *)
(* delivered whole and in order while the flowgraph runs; and however      *)
(* often it is restarted, nothing is delivered twice or out of order and   *)
(* no symbol of a frame that lost nothing goes to the wrong decoder.       *)
(***************************************************************************)
EXTENDS OfdmSampler, FrameChain, FiniteSetTheorems, SequenceTheorems,
        WellFoundedInduction, TLAPS

-----------------------------------------------------------------------------
(* The inductive invariant *)

\* None of the tags T before offset x was passed over, except within the last frame.
Searched(x, T) ==
    \A t \in T : t < x => /\ Len(symbols) > 0
                             /\ t < End(symbols[Len(symbols)])

\* While a frame is looked for, the last frame is complete.
LastWhole ==
    LET n == Len(symbols) IN
    \/ n = 0
    \/ /\ n >= SymbolsPerFrame
       /\ symbols[n - SymbolsPerFrame + 1].first
       /\ \A i \in 1..n : i > n - SymbolsPerFrame + 1 => ~symbols[i].first

\* The next symbol, with nr symbols of its frame cut before, lies at x ...
TagDue(x, nr) ==
    /\ x \in Nat /\ nr \in 0..(SymbolsPerFrame - 1)
    /\ nr = 0 => x - Prefix \in tags /\ Searched(x - Prefix, tags)
    /\ nr > 0 => /\ Len(symbols) > 0
                 /\ x = symbols[Len(symbols)].start + FftLength + CpLength

\* ... and the frame's first symbol is number p, a frame behind the one before.
Begins(p, nr) ==
    /\ p \in Nat /\ p >= 1 /\ p = Len(symbols) - nr + 1
    /\ nr > 0 => symbols[p].first
    /\ p = 1 \/ (p > SymbolsPerFrame /\ symbols[p - SymbolsPerFrame].first)
    /\ \A i \in 1..Len(symbols) :
          i > p - SymbolsPerFrame /\ i # p => ~symbols[i].first

\* Between two calls: what lies ahead while the null symbol is sought, and how
\* far the frame is while its symbols are cut.
Progress ==
    /\ d_state = "NS" => Searched(read, tags) /\ LastWhole
    /\ d_state # "NS" => /\ TagDue(read + d_gap_left + (Prefix - d_pos), d_sym_nr)
                         /\ Begins(Len(symbols) - d_sym_nr + 1, d_sym_nr)
    /\ d_state = "SYM" => d_pos = Prefix /\ d_gap_left = 0

\* What the sampler promises of the symbols it made.
History == SymbolsInPlace /\ NoFrameMissed /\ FramesWhole

\* The inductive invariant of the sampler: the history alone does not say where
\* the next symbol lies.
SamplerInv == SamplerTypeOK /\ History /\ Progress

LEMMA Lengths ==
    /\ FftLength \in Nat /\ FftLength > 0 /\ CpLength \in Nat /\ Gap \in Nat
    /\ Prefix \in Nat /\ Prefix = CpLength - Gap /\ SymbolsPerFrame \in Nat
    /\ SymbolsPerFrame >= 1 /\ Gap < FftLength
BY SamplerAssumption DEF Prefix

LEMMA SymbolTypes ==
    ASSUME SamplerTypeOK
    PROVE  /\ Len(symbols) \in Nat
           /\ \A j \in 1..Len(symbols) :
                 symbols[j].start \in Nat /\ symbols[j].first \in BOOLEAN
<1>1. symbols \in Seq([start : Nat, first : BOOLEAN])
  BY DEF SamplerTypeOK
<1>2. /\ Len(symbols) \in Nat
      /\ \A j \in 1..Len(symbols) : symbols[j] \in [start : Nat, first : BOOLEAN]
  BY <1>1, LenProperties, ElementOfSeq
<1>3. QED
  BY <1>2

LEMMA SamplerInitInv == SamplerInit => SamplerInv
<1> SUFFICES ASSUME SamplerInit PROVE SamplerInv
  OBVIOUS
<1>1. symbols = <<>> /\ Len(symbols) = 0 /\ d_state = "NS" /\ tags = {}
      /\ read = 0 /\ written = 0 /\ d_pos = 0 /\ d_sym_nr = 0 /\ d_gap_left = 0
  BY DEF SamplerInit
<1>2. symbols \in Seq([start : Nat, first : BOOLEAN])
  BY <1>1
<1>3. SamplerTypeOK
  BY <1>1, <1>2, Lengths DEF SamplerTypeOK
<1>4. History
  BY <1>1 DEF History, SymbolsInPlace, NoFrameMissed, FramesWhole
<1>5. Progress
  BY <1>1 DEF Progress, Searched, LastWhole
<1>6. QED
  BY <1>3, <1>4, <1>5 DEF SamplerInv

-----------------------------------------------------------------------------
(* A sample arrives *)

LEMMA ArriveInv ==
    ASSUME SamplerInv, Arrive
    PROVE  SamplerInv'
<1>1. /\ written' = written + 1 /\ written \in Nat
      /\ read' = read /\ symbols' = symbols
      /\ d_state' = d_state /\ d_pos' = d_pos
      /\ d_sym_nr' = d_sym_nr /\ d_gap_left' = d_gap_left
      /\ read \in 0..written
  BY DEF Arrive, block, SamplerInv, SamplerTypeOK
<1>2. /\ tags \in SUBSET (0..(written - 1))
      /\ tags \subseteq tags'
      /\ \A t \in tags' : t \in tags \/ t = written
  BY DEF Arrive, SamplerInv, SamplerTypeOK
<1>3. \A t \in tags : t \in Int /\ t < written
  BY <1>1, <1>2
<1>4. SamplerTypeOK'
  <2>1. tags' \in SUBSET (0..(written' - 1)) /\ read' \in 0..written'
    BY <1>1, <1>2
  <2>2. QED
    BY <1>1, <2>1 DEF SamplerInv, SamplerTypeOK
<1>5. ASSUME NEW t \in tags', NEW x \in Int, t < x, x <= written
      PROVE  t \in tags
  BY <1>1, <1>2, <1>5
<1>6. \A j \in 1..Len(symbols) :
         symbols[j].start \in Nat /\ symbols[j].first \in BOOLEAN
  BY SymbolTypes DEF SamplerInv
<1>7. History'
  <2>1. SymbolsInPlace'
    BY <1>1, <1>2 DEF SamplerInv, History, SymbolsInPlace
  <2>2. NoFrameMissed'
    <3> SUFFICES ASSUME NEW j \in 1..Len(symbols), symbols[j].first,
                        NEW t \in tags', t < symbols[j].start - Prefix
                 PROVE  j > 1 /\ t < End(symbols[j - 1])
      BY <1>1 DEF NoFrameMissed, End
    <3>1. symbols[j].start - Prefix \in tags
      BY DEF SamplerInv, History, SymbolsInPlace
    <3>2. t \in tags
      <4>1. /\ symbols[j].start - Prefix \in Int
            /\ symbols[j].start - Prefix <= written
        BY <1>1, <1>3, <3>1
      <4>2. QED
        BY <1>5, <4>1
    <3>3. QED
      BY <3>2 DEF SamplerInv, History, NoFrameMissed
  <2>3. FramesWhole'
    BY <1>1 DEF SamplerInv, History, FramesWhole
  <2>4. QED
    BY <2>1, <2>2, <2>3 DEF History
<1>8. ASSUME NEW x \in Int, x <= written, Searched(x, tags)
      PROVE  Searched(x, tags')
  BY <1>5, <1>8 DEF Searched
<1>9. Progress'
  <2> DEFINE x == read + d_gap_left + (Prefix - d_pos)
  <2>1. CASE d_state = "NS"
    BY <1>1, <1>8, <2>1 DEF SamplerInv, Progress, LastWhole, Searched, End
  <2>2. CASE d_state # "NS"
    <3>1. TagDue(x, d_sym_nr)
      BY <2>2 DEF SamplerInv, Progress
    <3>2. d_sym_nr = 0 => Searched(x - Prefix, tags')
      <4> SUFFICES ASSUME d_sym_nr = 0 PROVE Searched(x - Prefix, tags')
        OBVIOUS
      <4> DEFINE y == x - Prefix
      <4>1. y \in tags /\ Searched(y, tags)
        BY <3>1 DEF TagDue
      <4> HIDE DEF y
      <4>2. y \in Int /\ y <= written
        BY <1>1, <1>3, <4>1
      <4>3. Searched(y, tags')
        BY <1>8, <4>1, <4>2
      <4>4. QED
        BY <4>3 DEF y
    <3>3. TagDue(x, d_sym_nr)'
      BY <1>1, <1>2, <3>1, <3>2 DEF TagDue, Prefix, Searched, End
    <3>4. QED
      BY <1>1, <2>2, <3>3 DEF SamplerInv, Progress, Begins, Prefix
  <2>3. QED
    BY <2>1, <2>2
<1>10. QED
  BY <1>4, <1>7, <1>9 DEF SamplerInv

-----------------------------------------------------------------------------
(* A call of general_work() *)

LEMMA SkipFacts ==
    ASSUME NEW at \in Nat, NEW pos \in 0..Prefix, NEW gap_left \in 0..Gap,
           written \in Nat, at <= written
    PROVE  LET s == SkipPrefix(at, pos, gap_left) IN
           /\ s.at \in at..written /\ s.pos \in 0..Prefix
           /\ s.gap_left \in 0..Gap
           /\ s.at + s.gap_left + (Prefix - s.pos)
                 = at + gap_left + (Prefix - pos)
           /\ gap_left <= written - at => s.gap_left = 0
<1> DEFINE g == LeastOf(gap_left, written - at)
           c == LeastOf(Prefix - pos, written - (at + g))
<1>1. /\ g \in Nat /\ g <= gap_left /\ at + g <= written
      /\ gap_left <= written - at => g = gap_left
  BY Lengths DEF LeastOf
<1> HIDE DEF g
<1>2. /\ c \in Nat /\ c <= Prefix - pos /\ at + g + c <= written
  BY <1>1, Lengths DEF LeastOf
<1>3. SkipPrefix(at, pos, gap_left)
         = [at |-> at + g + c, pos |-> pos + c, gap_left |-> gap_left - g]
  BY DEF SkipPrefix, g
<1> HIDE DEF c
<1>4. QED
  BY <1>1, <1>2, <1>3, Lengths

\* The symbol that is due is cut.
LEMMA CutInv ==
    ASSUME SamplerInv, NEW at \in Nat, NEW nr \in Nat,
           TagDue(at, nr), Begins(Len(symbols) - nr + 1, nr), Whole(at),
           Cut(at, nr, 0), UNCHANGED <<written, tags>>
    PROVE  SamplerInv'
<1> DEFINE n == Len(symbols)
           s == [start |-> at, first |-> nr = 0]
<1>1. /\ n \in Nat /\ symbols \in Seq([start : Nat, first : BOOLEAN])
      /\ \A j \in 1..n : symbols[j].start \in Nat /\ symbols[j].first \in BOOLEAN
  BY SymbolTypes DEF SamplerInv, SamplerTypeOK
<1>2. /\ symbols' = Append(symbols, s) /\ s \in [start : Nat, first : BOOLEAN]
      /\ s.start = at /\ s.first = (nr = 0)
  BY DEF Cut
<1> HIDE DEF s
<1>3. /\ symbols' \in Seq([start : Nat, first : BOOLEAN])
      /\ Len(symbols') = n + 1 /\ symbols'[n + 1] = s
      /\ \A j \in 1..n : symbols'[j] = symbols[j]
  BY <1>1, <1>2, AppendProperties
<1> HIDE DEF n
<1>4. /\ read' = at + FftLength /\ d_pos' = 0 /\ d_sym_nr' = nr + 1
      /\ written' = written /\ tags' = tags /\ read' \in 0..written'
      /\ nr \in 0..(SymbolsPerFrame - 1)
      /\ written \in Nat /\ \A t \in tags : t \in Int
  BY Lengths DEF Cut, Whole, TagDue, SamplerInv, SamplerTypeOK
<1>5. SamplerTypeOK'
  <2>1. d_state' \in {"NS", "CP"} /\ d_gap_left' \in 0..Gap
    BY Lengths DEF Cut
  <2>2. d_sym_nr' \in 0..SymbolsPerFrame
    BY <1>4, Lengths
  <2>3. QED
    BY <1>3, <1>4, <2>1, <2>2, Lengths, SMTT(30) DEF SamplerInv, SamplerTypeOK, Prefix
<1> DEFINE p == n - nr + 1
<1>6. Begins(p, nr)
  BY DEF n
<1>7. /\ p \in Nat /\ p >= 1 /\ p <= n + 1
      /\ p = 1 \/ (p > SymbolsPerFrame /\ symbols'[p - SymbolsPerFrame].first)
      /\ symbols'[p].first
      /\ \A i \in 1..(n + 1) :
            i > p - SymbolsPerFrame /\ i # p => ~symbols'[i].first
  <2>1. /\ p \in Nat /\ p >= 1 /\ p <= n + 1 /\ (nr = 0 <=> p = n + 1)
        /\ p < n + 1 <=> nr > 0
    BY <1>1, <1>4, <1>6 DEF Begins
  <2>2. p > SymbolsPerFrame => p - SymbolsPerFrame \in 1..n
    BY <1>1, <2>1, Lengths
  <2>3. p = 1 \/ (p > SymbolsPerFrame /\ symbols'[p - SymbolsPerFrame].first)
    BY <1>3, <1>6, <2>2 DEF Begins
  <2>4. symbols'[p].first
    BY <1>1, <1>2, <1>3, <1>6, <2>1 DEF Begins
  <2>5. \A i \in 1..(n + 1) :
           i > p - SymbolsPerFrame /\ i # p => ~symbols'[i].first
    <3> SUFFICES ASSUME NEW i \in 1..(n + 1), i > p - SymbolsPerFrame, i # p
                 PROVE  ~symbols'[i].first
      OBVIOUS
    <3>1. CASE i = n + 1
      BY <1>2, <1>3, <2>1, <3>1
    <3>2. CASE i # n + 1
      <4>1. i \in 1..n
        BY <1>1, <3>2
      <4>2. QED
        BY <1>3, <1>6, <4>1 DEF Begins, n
    <3>3. QED
      BY <3>1, <3>2
  <2>6. QED
    BY <2>1, <2>3, <2>4, <2>5
<1>8. SymbolsInPlace'
  <2> SUFFICES ASSUME NEW j \in 1..(n + 1)
               PROVE  IF symbols'[j].first
                      THEN symbols'[j].start - Prefix \in tags
                      ELSE /\ j > 1
                           /\ symbols'[j].start = symbols'[j - 1].start
                                                  + FftLength + CpLength
    BY <1>3, <1>4 DEF SymbolsInPlace, Prefix
  <2>1. CASE j = n + 1
    <3>1. CASE nr = 0
      BY <1>2, <1>3, <2>1, <3>1 DEF TagDue
    <3>2. CASE nr > 0
      <4>1. n > 0 /\ at = symbols[n].start + FftLength + CpLength
        BY <3>2 DEF TagDue, n
      <4>2. j - 1 = n /\ n \in 1..n /\ j > 1
        BY <1>1, <2>1, <4>1
      <4>3. QED
        BY <1>2, <1>3, <2>1, <3>2, <4>1, <4>2
    <3>3. QED
      BY <1>4, <3>1, <3>2
  <2>2. CASE j # n + 1
    <3>1. j \in 1..n /\ (j > 1 => j - 1 \in 1..n)
      BY <1>1, <2>2
    <3>2. /\ symbols'[j] = symbols[j]
          /\ j > 1 => symbols'[j - 1] = symbols[j - 1]
      BY <1>3, <3>1
    <3>3. QED
      BY <3>1, <3>2 DEF SamplerInv, History, SymbolsInPlace, n
  <2>3. QED
    BY <2>1, <2>2
<1>9. NoFrameMissed'
  <2> SUFFICES ASSUME NEW j \in 1..(n + 1), symbols'[j].first,
                      NEW t \in tags, t < symbols'[j].start - Prefix
               PROVE  j > 1 /\ t < symbols'[j - 1].start + FftLength
    BY <1>3, <1>4 DEF NoFrameMissed, End, Prefix
  <2>1. CASE j = n + 1
    <3>1. Searched(at - Prefix, tags) /\ t < at - Prefix
      BY <1>2, <1>3, <2>1 DEF TagDue
    <3>2. n > 0 /\ t < symbols[n].start + FftLength
      BY <3>1 DEF Searched, End, n
    <3>3. j - 1 = n /\ n \in 1..n /\ j > 1
      BY <1>1, <2>1, <3>2
    <3>4. QED
      BY <1>3, <3>2, <3>3
  <2>2. CASE j # n + 1
    <3>1. j \in 1..n /\ (j > 1 => j - 1 \in 1..n)
      BY <1>1, <2>2
    <3>2. /\ symbols'[j] = symbols[j]
          /\ j > 1 => symbols'[j - 1] = symbols[j - 1]
      BY <1>3, <3>1
    <3>3. QED
      BY <3>1, <3>2 DEF SamplerInv, History, NoFrameMissed, End, n
  <2>3. QED
    BY <2>1, <2>2
<1>10. FramesWhole'
  <2> SUFFICES ASSUME NEW j \in 1..(n + 1)
               PROVE  symbols'[j].first <=>
                         \/ j = 1
                         \/ /\ j > SymbolsPerFrame
                            /\ symbols'[j - SymbolsPerFrame].first
    BY <1>3 DEF FramesWhole
  <2>1. CASE j = n + 1
    <3>1. CASE nr = 0
      <4>1. p = n + 1
        BY <1>1, <3>1
      <4>2. QED
        BY <1>7, <2>1, <4>1
    <3>2. CASE nr > 0
      <4>1. p < n + 1 /\ p - SymbolsPerFrame < j - SymbolsPerFrame
            /\ j - SymbolsPerFrame < p
        BY <1>1, <1>4, <2>1, <3>2, Lengths
      <4>2. ~symbols'[j].first
        BY <1>2, <1>3, <2>1, <3>2
      <4>3. j # 1
        BY <1>1, <1>7, <2>1, <4>1
      <4>4. j > SymbolsPerFrame => ~symbols'[j - SymbolsPerFrame].first
        <5> DEFINE i == j - SymbolsPerFrame
        <5>1. j > SymbolsPerFrame => i \in 1..(n + 1)
          BY <1>1, Lengths
        <5>2. i > p - SymbolsPerFrame /\ i # p
          BY <4>1, <1>7, Lengths
        <5>3. QED
          BY <1>7, <5>1, <5>2
      <4>5. QED
        BY <4>2, <4>3, <4>4
    <3>3. QED
      BY <1>4, <3>1, <3>2
  <2>2. CASE j # n + 1
    <3>1. j \in 1..n /\ (j > SymbolsPerFrame => j - SymbolsPerFrame \in 1..n)
      BY <1>1, <2>2, Lengths
    <3>2. /\ symbols'[j] = symbols[j]
          /\ j > SymbolsPerFrame =>
                symbols'[j - SymbolsPerFrame] = symbols[j - SymbolsPerFrame]
      BY <1>3, <3>1
    <3>3. QED
      BY <3>1, <3>2 DEF SamplerInv, History, FramesWhole, n
  <2>3. QED
    BY <2>1, <2>2
<1>11. Progress'
  <2>1. CASE nr + 1 = SymbolsPerFrame
    <3>1. d_state' = "NS"
      BY <2>1 DEF Cut
    <3>2. Searched(read, tags)'
      <4> SUFFICES ASSUME NEW t \in tags, t < at + FftLength
                   PROVE  n + 1 > 0 /\ t < symbols'[n + 1].start + FftLength
        BY <1>3, <1>4 DEF Searched, End
      <4>1. QED
        BY <1>1, <1>2, <1>3
    <3>3. LastWhole'
      <4>1. p = n + 1 - SymbolsPerFrame + 1
        BY <1>1, <1>4, <2>1, Lengths
      <4>2. n + 1 >= SymbolsPerFrame
        BY <1>1, <1>7, <4>1, Lengths
      <4>3. \A i \in 1..(n + 1) : i > p => ~symbols'[i].first
        BY <1>7, Lengths
      <4> HIDE DEF p
      <4>4. /\ Len(symbols') >= SymbolsPerFrame
            /\ Len(symbols') - SymbolsPerFrame + 1 = p
        BY <1>1, <1>3, <4>1, <4>2, Lengths
      <4>5. /\ symbols'[p].first
            /\ \A i \in 1..Len(symbols') : i > p => ~symbols'[i].first
        BY <1>3, <1>7, <4>3
      <4>6. QED
        BY <4>4, <4>5 DEF LastWhole
    <3>4. QED
      BY <3>1, <3>2, <3>3 DEF Progress
  <2>2. CASE nr + 1 # SymbolsPerFrame
    <3>1. d_state' = "CP" /\ d_gap_left' = Gap
      BY <2>2 DEF Cut
    <3> DEFINE x == at + FftLength + Gap + Prefix
    <3>2. read' + d_gap_left' + (Prefix - d_pos') = x /\ x \in Nat
          /\ x = s.start + FftLength + CpLength
      BY <1>2, <1>4, <3>1, Lengths
    <3> HIDE DEF x
    <3>3. nr + 1 \in 0..(SymbolsPerFrame - 1) /\ nr + 1 > 0
      BY <1>4, <2>2, Lengths
    <3>4. TagDue(read + d_gap_left + (Prefix - d_pos), d_sym_nr)'
      <4>1. /\ x \in Nat /\ d_sym_nr' \in 0..(SymbolsPerFrame - 1)
            /\ d_sym_nr' # 0 /\ Len(symbols') > 0
            /\ x = symbols'[Len(symbols')].start + FftLength + CpLength
        BY <1>1, <1>3, <1>4, <3>2, <3>3
      <4>2. QED
        BY <3>2, <4>1 DEF TagDue, Prefix
    <3>5. p = Len(symbols') - d_sym_nr' + 1
      BY <1>1, <1>3, <1>4
    <3>6. Begins(Len(symbols) - d_sym_nr + 1, d_sym_nr)'
      <4> HIDE DEF p
      <4>1. \A i \in 1..Len(symbols') :
               i > p - SymbolsPerFrame /\ i # p => ~symbols'[i].first
        BY <1>3, <1>7
      <4>2. QED
        BY <1>7, <3>5, <4>1 DEF Begins
    <3>7. QED
      BY <3>1, <3>4, <3>6 DEF Progress
  <2>3. QED
    BY <2>1, <2>2
<1>12. QED
  BY <1>5, <1>8, <1>9, <1>10, <1>11 DEF SamplerInv, History

\* States CP and SYM from the sample `at', where the next symbol is due.
LEMMA FromPrefixInv ==
    ASSUME SamplerInv, NEW at \in Nat, NEW pos \in 0..Prefix,
           NEW gap_left \in 0..Gap, NEW nr \in Nat,
           at <= written, gap_left <= written - at,
           TagDue(at + gap_left + (Prefix - pos), nr),
           Begins(Len(symbols) - nr + 1, nr),
           FromPrefix(at, pos, gap_left, nr), UNCHANGED <<written, tags>>
    PROVE  SamplerInv'
<1> DEFINE s == SkipPrefix(at, pos, gap_left)
           x == at + gap_left + (Prefix - pos)
<1>1. written \in Nat
  BY DEF SamplerInv, SamplerTypeOK
<1>2. /\ s.at \in at..written /\ s.pos \in 0..Prefix /\ s.gap_left = 0
      /\ s.at + s.gap_left + (Prefix - s.pos) = x
  BY <1>1, SkipFacts
<1>3. TagDue(x, nr)
  OBVIOUS
<1> HIDE DEF x
<1>4. CASE s.pos = Prefix /\ Whole(s.at)
  <2>1. Cut(s.at, nr, s.gap_left)
    BY <1>4 DEF FromPrefix
  <2> HIDE DEF s
  <2>2. s.at = x /\ s.at \in Nat
    BY <1>1, <1>2, <1>4, Lengths
  <2>3. TagDue(s.at, nr) /\ Whole(s.at) /\ Cut(s.at, nr, 0)
    BY <1>2, <1>3, <1>4, <2>1, <2>2
  <2>4. QED
    BY <2>2, <2>3, CutInv
<1>5. CASE ~(s.pos = Prefix /\ Whole(s.at))
  <2>1. /\ d_state' = (IF s.pos = Prefix THEN "SYM" ELSE "CP")
        /\ d_pos' = s.pos /\ d_gap_left' = s.gap_left /\ d_sym_nr' = nr
        /\ read' = s.at /\ symbols' = symbols
        /\ written' = written /\ tags' = tags
    BY <1>5 DEF FromPrefix
  <2> HIDE DEF s
  <2>2. nr \in 0..SymbolsPerFrame
    BY <1>3, Lengths DEF TagDue
  <2>3. SamplerTypeOK'
    BY <1>1, <1>2, <2>1, <2>2, Lengths DEF SamplerInv, SamplerTypeOK, Prefix
  <2>4. History'
    BY <2>1 DEF SamplerInv, History, SymbolsInPlace, NoFrameMissed, FramesWhole, End,
                Prefix
  <2>5. read' + d_gap_left' + (Prefix - d_pos') = x
    BY <1>2, <2>1
  <2>6. TagDue(read + d_gap_left + (Prefix - d_pos), d_sym_nr)'
    BY <1>3, <2>1, <2>5 DEF TagDue, Prefix, Searched, End
  <2>7. Begins(Len(symbols) - d_sym_nr + 1, d_sym_nr)'
    BY <2>1 DEF Begins
  <2>8. Progress'
    BY <1>2, <2>1, <2>6, <2>7 DEF Progress, Prefix
  <2>9. QED
    BY <2>3, <2>4, <2>8 DEF SamplerInv
<1>6. QED
  BY <1>4, <1>5

\* Nothing is due before a tag is found; then a frame begins there.
LEMMA SearchInv ==
    ASSUME SamplerInv, WorkSearch, UNCHANGED <<written, tags>>
    PROVE  SamplerInv'
<1>1. /\ d_state = "NS" /\ Searched(read, tags) /\ LastWhole
      /\ written \in Nat /\ read \in 0..written
      /\ \A t \in tags : t \in Nat /\ t < written
  BY DEF WorkSearch, SamplerInv, Progress, SamplerTypeOK
<1>2. CASE Pending = {}
  <2>1. /\ read' = written /\ d_pos' = 0 /\ d_sym_nr' = 0 /\ d_gap_left' = 0
        /\ d_state' = d_state /\ symbols' = symbols
        /\ written' = written /\ tags' = tags
    BY <1>2 DEF WorkSearch
  <2>2. SamplerTypeOK'
    BY <1>1, <2>1, Lengths DEF SamplerInv, SamplerTypeOK, Prefix
  <2>3. History'
    BY <2>1 DEF SamplerInv, History, SymbolsInPlace, NoFrameMissed, FramesWhole, End,
                Prefix
  <2>4. \A t \in tags : t < read
    BY <1>1, <1>2 DEF Pending
  <2>5. Searched(read, tags)' /\ LastWhole'
    BY <1>1, <2>1, <2>4 DEF Searched, End, LastWhole
  <2>6. Progress'
    BY <1>1, <2>1, <2>5 DEF Progress
  <2>7. QED
    BY <2>2, <2>3, <2>6 DEF SamplerInv
<1>3. CASE Pending # {}
  <2>1. PICK t \in tags : Earliest(t) /\ FromPrefix(t, 0, 0, 0)
    BY <1>3 DEF WorkSearch
  <2>2. \A u \in tags : u < t => u < read
    BY <1>1, <2>1 DEF Earliest, Pending
  <2>3. Searched(t, tags)
    BY <1>1, <2>2 DEF Searched
  <2> DEFINE x == t + 0 + (Prefix - 0)
  <2>4. x \in Nat /\ x - Prefix = t
    BY <1>1, <2>1, Lengths
  <2>5. TagDue(x, 0)
    <3> HIDE DEF x
    <3>1. 0 \in 0..(SymbolsPerFrame - 1)
      BY Lengths
    <3>2. QED
      BY <2>1, <2>3, <2>4, <3>1 DEF TagDue
  <2>6. Begins(Len(symbols) - 0 + 1, 0)
    <3> DEFINE n == Len(symbols)
    <3>1. n \in Nat
      BY SymbolTypes DEF SamplerInv
    <3>2. \/ n = 0
          \/ /\ n >= SymbolsPerFrame
             /\ symbols[n - SymbolsPerFrame + 1].first
             /\ \A i \in 1..n : i > n - SymbolsPerFrame + 1 => ~symbols[i].first
      BY <1>1 DEF LastWhole
    <3> HIDE DEF n
    <3>3. n - 0 + 1 = n + 1 /\ (n + 1) - SymbolsPerFrame = n - SymbolsPerFrame + 1
      BY <3>1, Lengths
    <3>4. n + 1 = 1 \/ (n + 1 > SymbolsPerFrame
                        /\ symbols[(n + 1) - SymbolsPerFrame].first)
      BY <3>1, <3>2, <3>3, Lengths
    <3>5. \A i \in 1..n : i > (n + 1) - SymbolsPerFrame => ~symbols[i].first
      BY <3>1, <3>2, <3>3
    <3>6. QED
      BY <3>1, <3>3, <3>4, <3>5 DEF Begins, n
  <2>7. /\ t \in Nat /\ t <= written /\ 0 \in 0..Prefix /\ 0 \in 0..Gap
        /\ 0 <= written - t
    BY <1>1, <2>1, Lengths
  <2>8. QED
    BY <2>1, <2>5, <2>6, <2>7, FromPrefixInv
<1>4. QED
  BY <1>2, <1>3

LEMMA GeneralWorkInv ==
    ASSUME SamplerInv, GeneralWork
    PROVE  SamplerInv'
<1>1. /\ written - read >= Required /\ UNCHANGED <<written, tags>>
      /\ written \in Nat /\ read \in 0..written
      /\ d_pos \in 0..Prefix /\ d_gap_left \in 0..Gap /\ d_sym_nr \in Nat
  BY DEF GeneralWork, SamplerInv, SamplerTypeOK
<1>2. d_gap_left <= written - read
  BY <1>1, Lengths DEF Required
<1>3. CASE WorkSearch
  BY <1>1, <1>3, SearchInv
<1>4. CASE WorkPrefix
  <2>1. /\ TagDue(read + d_gap_left + (Prefix - d_pos), d_sym_nr)
        /\ Begins(Len(symbols) - d_sym_nr + 1, d_sym_nr)
        /\ FromPrefix(read, d_pos, d_gap_left, d_sym_nr)
    BY <1>4 DEF WorkPrefix, SamplerInv, Progress
  <2>2. QED
    BY <1>1, <1>2, <2>1, FromPrefixInv
<1>5. CASE WorkSymbol
  <2>1. /\ TagDue(read + d_gap_left + (Prefix - d_pos), d_sym_nr)
        /\ Begins(Len(symbols) - d_sym_nr + 1, d_sym_nr)
        /\ d_pos = Prefix /\ d_gap_left = 0
    BY <1>5 DEF WorkSymbol, SamplerInv, Progress
  <2>2. read + d_gap_left + (Prefix - d_pos) = read /\ read \in Nat
    BY <1>1, <2>1, Lengths
  <2>3. Whole(read)
    BY <1>1, Lengths DEF Required, Whole
  <2>4. Cut(read, d_sym_nr, 0)
    BY <1>5, <2>1, <2>3 DEF WorkSymbol
  <2>5. QED
    BY <1>1, <2>1, <2>2, <2>3, <2>4, CutInv
<1>6. QED
  BY <1>3, <1>4, <1>5 DEF GeneralWork

LEMMA SamplerNextInv == SamplerInv /\ [SamplerNext]_samplerVars => SamplerInv'
<1> SUFFICES ASSUME SamplerInv, [SamplerNext]_samplerVars PROVE SamplerInv'
  OBVIOUS
<1>1. CASE UNCHANGED samplerVars
  BY <1>1 DEF samplerVars, block, SamplerInv, SamplerTypeOK, Prefix, History, SymbolsInPlace,
              NoFrameMissed, FramesWhole, End, Progress, Searched, LastWhole,
              TagDue, Begins
<1>2. CASE SamplerNext
  BY <1>2, ArriveInv, GeneralWorkInv DEF SamplerNext
<1>3. QED
  BY <1>1, <1>2

-----------------------------------------------------------------------------
\* The block never reads behind the samples that have arrived.
THEOREM SamplerTypes == SamplerSpec => []SamplerTypeOK
<1>1. SamplerInv => SamplerTypeOK
  BY DEF SamplerInv
<1>2. QED
  BY <1>1, SamplerInitInv, SamplerNextInv, PTL DEF SamplerSpec

\* However the stream is cut into calls, each symbol lies where the frame's tag
\* and the lengths of gap, prefix and symbol put it.
THEOREM SymbolsStayInPlace == SamplerSpec => []SymbolsInPlace
<1>1. SamplerInv => SymbolsInPlace
  BY DEF SamplerInv, History
<1>2. QED
  BY <1>1, SamplerInitInv, SamplerNextInv, PTL DEF SamplerSpec

\* The frame that follows is the next one tagged.
THEOREM NoFrameIsMissed == SamplerSpec => []NoFrameMissed
<1>1. SamplerInv => NoFrameMissed
  BY DEF SamplerInv, History
<1>2. QED
  BY <1>1, SamplerInitInv, SamplerNextInv, PTL DEF SamplerSpec

\* Every frame has its number of symbols.
THEOREM FramesStayWhole == SamplerSpec => []FramesWhole
<1>1. SamplerInv => FramesWhole
  BY DEF SamplerInv, History
<1>2. QED
  BY <1>1, SamplerInitInv, SamplerNextInv, PTL DEF SamplerSpec

-----------------------------------------------------------------------------
(* The chain: its inductive invariant *)

\* The identities <<frame, number of the symbol>>; those a frame can have; and
\* the one that follows.
Pairs == Nat \X Nat

Symbol(id) == id[1] >= 1 /\ id[2] \in 0..(PerFrame - 1)

Succ(id) ==
    IF id[2] + 1 = PerFrame THEN <<id[1] + 1, 0>> ELSE <<id[1], id[2] + 1>>

\* The identities of a line of vectors, and b behind them.
Trail(line, b) ==
    [i \in 1..(Len(line) + 1) |-> IF i <= Len(line) THEN line[i].id ELSE b]

\* Before the first symbol is removed: consecutive symbols, tagged at number 0,
\* with b the next one the sampler makes.
Source(rem, b) ==
    /\ Symbol(b)
    /\ \A i \in 1..Len(rem) :
          /\ Symbol(rem[i].id) /\ (rem[i].first <=> rem[i].id[2] = 0)
          /\ Before(rem[i].id, b)
          /\ Trail(rem, b)[i + 1] = Succ(rem[i].id)

\* d_start tells that the symbol dropped last began the frame.  Nothing is said of
\* the frames that lost symbols.
StartRight(lost, start, p) ==
    p[1] \notin lost /\ p[2] >= 1 => (start <=> p[2] = 1)

\* Behind remove_first_symbol, symbol 1 carries the tag and no other.  Blanks may
\* carry one after a restart.
TagRight(lost, fresh, id, tag) ==
    id[1] \notin lost /\ (id[1] = 0 => fresh) => (tag <=> id[2] = 1)

\* The same of a whole edge.
Tags(lost, fresh, q) ==
    \A i \in 1..Len(q) : TagRight(lost, fresh, q[i].id, q[i].first)

\* The same of the equalizer's history, whose only tag is at d_add_at.
HistTags(lost, fresh, h, add_at) ==
    \A i \in 1..Len(h) : TagRight(lost, fresh, h[i].id, add_at = i - 1)

\* What the equalizer's input will begin with, behind the line.
First(p) == IF p[2] = 0 THEN <<p[1], 1>> ELSE p

\* The line a selection reads: blanks, and symbols other than the removed one.
LineIds(line) ==
    \A i \in 1..Len(line) :
        line[i].id = Blank.id \/ (Symbol(line[i].id) /\ line[i].id[2] # 0)

\* From a place j of a frame that lost nothing, the symbols lie one by one.
InPlace(lost, trail, i, j) ==
    LET k == trail[j][2] + (i - j)
    IN  trail[j][1] \notin lost /\ trail[j][1] # 0 /\ k >= 1 /\ k < PerFrame
           => trail[i][1] = trail[j][1] /\ trail[i][2] = k

\* All the frames that lost nothing lie so.
Run(lost, trail) == \A i, j \in DOMAIN trail : InPlace(lost, trail, i, j)

\* The index of a selection is the place in the frame of the symbol it reads next,
\* as far as it counts.
IndexRight(lost, fresh, index, id, end) ==
    /\ id[1] \notin lost /\ id[2] >= 2
          => index = IF id[2] - 1 <= end THEN id[2] - 1 ELSE end
    /\ fresh /\ id = Blank.id => index = end

\* The symbols that may have been selected: number skip + 1 to skip + num.
Selected(lost, id, num, skip) ==
    id[1] \notin lost /\ id[1] # 0 => skip < id[2] /\ id[2] <= skip + num

\* All that is selected, and all that is delivered.
InWindow(lost, q, num, skip) == \A i \in 1..Len(q) : Selected(lost, q[i].id, num, skip)

UnitsInWindow(lost, units, num, skip) ==
    \A j \in 1..Len(units) : \A i \in DOMAIN units[j].ids :
        Selected(lost, units[j].ids[i], num, skip)

\* The order of the symbols; blanks have none.
Precedes(a, b) == a = Blank.id \/ b = Blank.id \/ Before(a, b)

Ascending(q) ==
    \A i, j \in 1..Len(q) : i < j => Precedes(q[i].id, q[j].id)

\* All of a line, or of what was delivered, comes before id.
AllBefore(q, id) == \A i \in 1..Len(q) : Precedes(q[i].id, id)

UnitsBefore(units, id) ==
    \A j \in 1..Len(units) : \A i \in DOMAIN units[j].ids :
        Precedes(units[j].ids[i], id)

\* What was delivered, what is selected, the line and what is to come: each in
\* order, and each before the next.
Ordered(units, pend, line, p) ==
    /\ UnitsInOrder(units) /\ Ascending(pend) /\ Ascending(line)
    /\ UnitsBefore(units, p) /\ AllBefore(pend, p) /\ AllBefore(line, p)
    /\ \A i \in 1..Len(pend) : UnitsBefore(units, pend[i].id)
    /\ \A i \in 1..Len(line) : UnitsBefore(units, line[i].id) /\ AllBefore(pend, line[i].id)

\* Without a restart: blanks first, then each frame's last symbol and the next
\* frame's symbol 1 behind it.
Linked(trail) ==
    \A i \in DOMAIN trail : i + 1 \in DOMAIN trail =>
        /\ trail[i] = Blank.id => trail[i + 1] \in {Blank.id, <<1, 1>>}
        /\ trail[i] # Blank.id /\ trail[i][2] + 1 = PerFrame
              => trail[i + 1] = <<trail[i][1] + 1, 1>>

\* The next symbol to be selected, when id is the next to be read.
Upcoming(id, num, skip) ==
    IF id = Blank.id THEN <<1, skip + 1>>
    ELSE IF id[2] <= skip THEN <<id[1], skip + 1>>
    ELSE IF id[2] <= skip + num THEN id
    ELSE <<id[1] + 1, skip + 1>>

\* Place number n = u * num + i of what is pending, the next to be selected
\* included, is symbol i of the unit u behind those delivered.
Due(units, trail, num, skip, u, i) ==
    u * num + i \in DOMAIN trail =>
        trail[u * num + i] = <<Len(units) + 1 + u, skip + i>>

\* Without a restart: the units are whole frames from the first on, and the
\* selected symbols continue them.
Framed(units, pend, id, num, skip) ==
    /\ WholeFrames(units, skip + 1)
    /\ \A i \in 1..Len(pend) : pend[i].first <=> pend[i].id[2] = skip + 1
    /\ \A u \in Nat, i \in 1..num :
          Due(units, Trail(pend, Upcoming(id, num, skip)), num, skip, u, i)

\* Half of the chain, that of the FIC or that of the MSC: a selection with its
\* window and the line it reads, and the repartitioning behind it.
Half(lost, fresh, units, pend, index, line, p, num, skip) ==
    LET trail == Trail(line, First(p))
    IN  /\ LineIds(line) /\ Run(lost, trail)
        /\ IndexRight(lost, fresh, index, trail[1], skip + num)
        /\ InWindow(lost, pend, num, skip) /\ UnitsInWindow(lost, units, num, skip)
        /\ Ordered(units, pend, line, p)
        /\ fresh => Linked(trail) /\ Framed(units, pend, trail[1], num, skip)

\* The next symbol the sampler makes, and the next one remove_first_symbol reads.
b0 == <<frame, sym_nr>>
Coming == Trail(toRemove, b0)[1]

\* No restart so far.
Fresh == restarts = 0

\* What the halves share: the sampler, remove_first_symbol and the equalizer.
SharedInv ==
    /\ frame = MaxFrames + 1 => sym_nr = 0
    /\ Fresh => touched = {}
    /\ Source(toRemove, b0)
    /\ StartRight(touched, d_start, Coming)
    /\ Tags(touched, Fresh, toEqualize)
    /\ HistTags(touched, Fresh, hist, d_add_at)

\* The first NumFic symbols of a frame go to the FIC, the next NumMsc to the MSC.
\* Each half reads its edge, the equalizer's history and the equalizer's input.
FicInv ==
    /\ Tags(touched, Fresh, toFic)
    /\ Half(touched, Fresh, fic, toFicUnits, fic_index, toFic \o hist \o toEqualize,
            Coming, NumFic, 0)

MscInv ==
    /\ Tags(touched, Fresh, toMsc)
    /\ Half(touched, Fresh, msc, toMscUnits, msc_index, toMsc \o hist \o toEqualize,
            Coming, NumMsc, NumFic)
\* The inductive invariant of the chain.
ChainInv == TypeOK /\ SharedInv /\ FicInv /\ MscInv

-----------------------------------------------------------------------------
(* Induction.  The library's induction theorems have a predicate as a      *)
(* parameter; here it is a set, and the least number outside of it is a    *)
(* minimal element of the initial segments, ordered by inclusion.          *)

LEMMA LeastNumber ==
    ASSUME NEW T, T \subseteq Nat, T # {}
    PROVE  \E m \in T : \A k \in T : m <= k
<1>1. PICK n \in T : TRUE
  OBVIOUS
<1> DEFINE S == 0..n
           Segments == {0..m : m \in {k \in T : k <= n}}
<1>2. IsWellFoundedOn(StrictSubsetOrdering(S), FiniteSubsetsOf(S))
  BY FS_StrictSubsetOrderingWellFounded
<1>3. Segments \subseteq FiniteSubsetsOf(S)
  <2>1. \A m \in Nat : m <= n => 0..m \subseteq S /\ IsFiniteSet(0..m)
    BY FS_Interval, <1>1
  <2> QED
    BY <2>1 DEF FiniteSubsetsOf
<1>4. Segments # {}
  BY <1>1
<1>5. PICK x \in Segments :
         \A y \in Segments : ~ (<<y, x>> \in StrictSubsetOrdering(S))
  <2> HIDE DEF Segments, S
  <2> QED
    BY <1>2, <1>3, <1>4, WFMin
<1>6. PICK m \in T : m <= n /\ x = 0..m
  OBVIOUS
<1>7. \A k \in T : m <= k
  <2> SUFFICES ASSUME NEW k \in T, k < m
               PROVE  FALSE
    BY <1>6
  <2>1. 0..k \in Segments
    BY <1>6
  <2>2. 0..k \subseteq 0..m /\ 0..k # 0..m /\ 0..m \subseteq S
    <3>1. m \in 0..m /\ m \notin 0..k
      OBVIOUS
    <3> QED
      BY <1>6, <3>1
  <2>3. <<0..k, x>> \in StrictSubsetOrdering(S)
    BY <1>6, <2>2 DEF StrictSubsetOrdering
  <2> QED
    BY <1>5, <2>1, <2>3
<1> QED
  BY <1>7

LEMMA Induction ==
    ASSUME NEW S, 0 \in S, \A n \in Nat : n \in S => n + 1 \in S
    PROVE  Nat \subseteq S
<1> DEFINE T == {n \in Nat : n \notin S}
<1> SUFFICES ASSUME T # {}
             PROVE  FALSE
  OBVIOUS
<1>1. PICK m \in T : \A k \in T : m <= k
  <2> HIDE DEF T
  <2>1. T \subseteq Nat
    BY DEF T
  <2> QED
    BY <2>1, LeastNumber
<1>2. m # 0 /\ m \in Nat
  OBVIOUS
<1>3. m - 1 \in Nat /\ m - 1 \notin T
  BY <1>1, <1>2
<1>4. m \in S
  BY <1>2, <1>3
<1> QED
  BY <1>4

\* g is the function on 0..N that base and step define.
Recursive(g, base, N, step) ==
    g[0] = base /\ \A n \in 1..N : g[n] = step[<<n, g[n - 1]>>]

\* A recursive function over 0..N exists.
LEMMA Recursion ==
    ASSUME NEW S, NEW base \in S, NEW N \in Nat, NEW step \in [(1..N) \X S -> S]
    PROVE  \E g \in [0..N -> S] : Recursive(g, base, N, step)
<1> DEFINE Good(g, m) == Recursive(g, base, m, step)
           M == {m \in Nat : m <= N => \E g \in [0..m -> S] : Good(g, m)}
<1> USE DEF Recursive
<1>1. 0 \in M
  <2>1. Good([n \in 0..0 |-> base], 0) /\ [n \in 0..0 |-> base] \in [0..0 -> S]
    OBVIOUS
  <2> QED
    BY <2>1
<1>2. ASSUME NEW m \in Nat, m \in M
      PROVE  m + 1 \in M
  <2> SUFFICES ASSUME m + 1 <= N
               PROVE  \E g \in [0..(m + 1) -> S] : Good(g, m + 1)
    OBVIOUS
  <2>1. PICK g \in [0..m -> S] : Good(g, m)
    BY <1>2
  <2> DEFINE h == [n \in 0..(m + 1) |->
                     IF n <= m THEN g[n] ELSE step[<<m + 1, g[m]>>]]
  <2>2. step[<<m + 1, g[m]>>] \in S
    OBVIOUS
  <2>3. h \in [0..(m + 1) -> S]
    BY <2>2
  <2>4. Good(h, m + 1)
    <3>1. h[0] = base
      BY <2>1
    <3>2. ASSUME NEW n \in 1..(m + 1)
          PROVE  h[n] = step[<<n, h[n - 1]>>]
      <4>1. h[n - 1] = g[n - 1]
        OBVIOUS
      <4>2. CASE n <= m
        BY <2>1, <4>1, <4>2
      <4>3. CASE n = m + 1
        <5>1. h[m + 1] = step[<<m + 1, g[m]>>] /\ n - 1 = m
          BY <4>3
        <5> QED
          BY <4>1, <4>3, <5>1
      <4> QED
        BY <4>2, <4>3
    <3> QED
      BY <3>1, <3>2
  <2> QED
    BY <2>3, <2>4
<1>3. Nat \subseteq M
  <2> HIDE DEF M
  <2> QED
    BY <1>1, <1>2, Induction
<1> HIDE DEF Recursive
<1> QED
  BY <1>3

-----------------------------------------------------------------------------
(* Identities, vectors and lines of vectors *)

LEMMA Sizes ==
    /\ NumFic \in Nat /\ NumFic >= 1 /\ NumMsc \in Nat /\ NumMsc >= 1
    /\ PerFrame \in Nat /\ PerFrame = 1 + NumFic + NumMsc /\ PerFrame >= 3
    /\ NumEq \in Nat /\ NumEq >= 1 /\ NumEq <= PerFrame
    /\ EdgeCap \in Nat /\ MaxFrames \in Nat /\ MaxFrames >= 1 /\ MaxRestarts \in Nat
BY ChainAssumption DEF PerFrame

LEMMA IdFacts ==
    ASSUME NEW id \in Ids
    PROVE  /\ id \in Pairs /\ id[1] \in Nat /\ id[2] \in Nat /\ id = <<id[1], id[2]>>
           /\ id[1] <= MaxFrames
           /\ id # Blank.id => Symbol(id)
           /\ id = Blank.id <=> id[1] = 0
           /\ Blank.id = <<0, 0>>
BY Sizes DEF Ids, Pairs, Symbol, Blank

LEMMA SymbolFacts ==
    ASSUME NEW id \in Pairs
    PROVE  /\ id[1] \in Nat /\ id[2] \in Nat /\ id = <<id[1], id[2]>>
           /\ Symbol(id) => id # Blank.id
BY DEF Pairs, Symbol, Blank

LEMMA LineFacts ==
    ASSUME NEW line \in Seq(Vectors)
    PROVE  /\ Len(line) \in Nat
           /\ \A i \in 1..Len(line) :
                 line[i] \in Vectors /\ line[i].id \in Ids /\ line[i].first \in BOOLEAN
<1>1. Len(line) \in Nat /\ \A i \in 1..Len(line) : line[i] \in Vectors
  BY LenProperties, ElementOfSeq
<1> QED
  BY <1>1 DEF Vectors

LEMMA TrailFacts ==
    ASSUME NEW line \in Seq(Vectors), NEW b \in Pairs
    PROVE  /\ Trail(line, b) \in [1..(Len(line) + 1) -> Pairs]
           /\ \A i \in 1..Len(line) : Trail(line, b)[i] = line[i].id
           /\ Trail(line, b)[Len(line) + 1] = b
           /\ Len(line) \in Nat
<1>1. /\ Len(line) \in Nat
      /\ \A i \in 1..Len(line) : line[i].id \in Ids
  BY LineFacts
<1>2. \A i \in 1..Len(line) : line[i].id \in Pairs
  BY <1>1, IdFacts
<1> QED
  BY <1>1, <1>2 DEF Trail

\* A line without its first vector.
LEMMA Popped ==
    ASSUME NEW line \in Seq(Vectors), NEW b \in Pairs, line # <<>>
    PROVE  /\ Tail(line) \in Seq(Vectors) /\ Len(Tail(line)) = Len(line) - 1
           /\ Len(line) \in Nat /\ Len(line) >= 1
           /\ \A i \in 1..(Len(line) - 1) : Tail(line)[i] = line[i + 1]
           /\ Trail(Tail(line), b) \in [1..Len(line) -> Pairs]
           /\ \A i \in 1..Len(line) : Trail(Tail(line), b)[i] = Trail(line, b)[i + 1]
<1>1. Len(line) \in Nat /\ Len(line) >= 1
  BY EmptySeq
<1>2. /\ Tail(line) \in Seq(Vectors) /\ Len(Tail(line)) = Len(line) - 1
      /\ \A i \in 1..(Len(line) - 1) : Tail(line)[i] = line[i + 1]
  BY HeadTailProperties
<1>3. Trail(Tail(line), b) \in [1..Len(line) -> Pairs]
  <2>1. Len(Tail(line)) + 1 = Len(line)
    BY <1>1, <1>2
  <2>2. Trail(Tail(line), b) \in [1..(Len(Tail(line)) + 1) -> Pairs]
    BY <1>2, TrailFacts
  <2> QED
    BY <2>1, <2>2
<1> QED
  BY <1>1, <1>2, <1>3 DEF Trail

\* A line with a vector more.
LEMMA Pushed ==
    ASSUME NEW line \in Seq(Vectors), NEW v \in Vectors, NEW b \in Pairs
    PROVE  /\ Append(line, v) \in Seq(Vectors) /\ Len(Append(line, v)) = Len(line) + 1
           /\ Len(line) \in Nat
           /\ \A i \in 1..Len(line) : Append(line, v)[i] = line[i]
           /\ Append(line, v)[Len(line) + 1] = v
           /\ Trail(Append(line, v), b) \in [1..(Len(line) + 2) -> Pairs]
           /\ \A i \in 1..(Len(line) + 1) :
                 Trail(Append(line, v), b)[i] = Trail(line, v.id)[i]
           /\ Trail(Append(line, v), b)[Len(line) + 2] = b
<1>1. Len(line) \in Nat
  BY LenProperties
<1>2. /\ Append(line, v) \in Seq(Vectors) /\ Len(Append(line, v)) = Len(line) + 1
      /\ \A i \in 1..Len(line) : Append(line, v)[i] = line[i]
      /\ Append(line, v)[Len(line) + 1] = v
  BY AppendProperties
<1>3. Trail(Append(line, v), b) \in [1..(Len(line) + 2) -> Pairs]
  <2>1. Len(Append(line, v)) + 1 = Len(line) + 2
    BY <1>1, <1>2
  <2>2. Trail(Append(line, v), b) \in [1..(Len(Append(line, v)) + 1) -> Pairs]
    BY <1>2, TrailFacts
  <2> QED
    BY <2>1, <2>2
<1> QED
  BY <1>1, <1>2, <1>3 DEF Trail

LEMMA SuccFacts ==
    ASSUME NEW id \in Pairs, Symbol(id)
    PROVE  /\ Succ(id) \in Pairs /\ Symbol(Succ(id)) /\ Before(id, Succ(id))
           /\ First(id) \in Pairs /\ First(Succ(id)) \in Pairs
           /\ id[2] = 0 => First(Succ(id)) = First(id)
           /\ id[2] + 1 = PerFrame => First(Succ(id)) = <<id[1] + 1, 1>>
           /\ id[2] + 1 # PerFrame => First(Succ(id)) = <<id[1], id[2] + 1>>
BY Sizes DEF Pairs, Symbol, Succ, First, Before

-----------------------------------------------------------------------------
(* The runs of a trail *)

LEMMA RunPopped ==
    ASSUME NEW lost, NEW n \in Nat, NEW E \in [1..(n + 1) -> Pairs],
           NEW F \in [1..n -> Pairs], Run(lost, E), \A i \in 1..n : F[i] = E[i + 1]
    PROVE  Run(lost, F)
<1> SUFFICES ASSUME NEW i \in 1..n, NEW j \in 1..n
             PROVE  InPlace(lost, F, i, j)
  BY DEF Run
<1>1. InPlace(lost, E, i + 1, j + 1)
  <2>1. i + 1 \in DOMAIN E /\ j + 1 \in DOMAIN E
    OBVIOUS
  <2> QED
    BY <2>1 DEF Run
<1>2. F[i] = E[i + 1] /\ F[j] = E[j + 1] /\ (i + 1) - (j + 1) = i - j
  OBVIOUS
<1> QED
  BY <1>1, <1>2 DEF InPlace

\* A trail that goes on behind p, which is an identity of a frame.
LEMMA RunPushed ==
    ASSUME NEW lost, NEW n \in Nat, NEW E \in [1..n -> Pairs],
           NEW F \in [1..(n + 1) -> Pairs], n >= 1,
           \A i \in 1..n : F[i] = E[i], F[n + 1] = First(Succ(E[n])),
           \A i \in 1..n : E[i] = Blank.id \/ (Symbol(E[i]) /\ E[i][2] # 0),
           E[n] # Blank.id, Run(lost, E)
    PROVE  Run(lost, F)
<1> DEFINE b == F[n + 1]
<1>1. \A i \in 1..n : /\ E[i][1] \in Nat /\ E[i][2] \in Nat
                      /\ E[i][1] # 0 => E[i][2] >= 1 /\ E[i][2] < PerFrame
  BY Sizes, SMTT(30) DEF Pairs, Symbol, Blank
<1>2. n \in 1..n /\ E[n] \in Pairs /\ Symbol(E[n]) /\ E[n][2] # 0
  OBVIOUS
<1>3. IF E[n][2] + 1 = PerFrame
      THEN b[1] = E[n][1] + 1 /\ b[2] = 1
      ELSE b[1] = E[n][1] /\ b[2] = E[n][2] + 1
  BY <1>2, SuccFacts
<1>4. \A i, j \in 1..n : InPlace(lost, E, i, j)
  BY DEF Run
<1> HIDE DEF b
<1> SUFFICES ASSUME NEW i \in 1..(n + 1), NEW j \in 1..(n + 1)
             PROVE  InPlace(lost, F, i, j)
  BY DEF Run
<1> SUFFICES ASSUME F[j][1] \notin lost, F[j][1] # 0,
                    F[j][2] + (i - j) >= 1, F[j][2] + (i - j) < PerFrame
             PROVE  F[i][1] = F[j][1] /\ F[i][2] = F[j][2] + (i - j)
  BY DEF InPlace
<1>5. CASE i <= n /\ j <= n
  BY <1>4, <1>5 DEF InPlace
<1>6. CASE i = n + 1 /\ j = n + 1
  BY <1>3, <1>6 DEF b, Pairs
<1>7. CASE i = n + 1 /\ j <= n
  <2>1. j \in 1..n /\ F[j] = E[j] /\ F[i] = b
    BY <1>7 DEF b
  <2>2. E[j][2] + (n - j) >= 1 /\ E[j][2] + (n - j) < PerFrame
    <3>1. PICK k \in Nat : k = E[j][2]
      BY <1>1, <2>1
    <3>2. k >= 1 /\ k + (n + 1 - j) < PerFrame
      BY <1>1, <1>7, <2>1, <3>1
    <3>3. k + (n - j) >= 1 /\ k + (n - j) < PerFrame
      BY <1>7, <2>1, <3>2, Sizes
    <3> QED
      BY <3>1, <3>3
  <2>3. E[n][1] = E[j][1] /\ E[n][2] = E[j][2] + (n - j)
    BY <1>2, <1>4, <2>1, <2>2 DEF InPlace
  <2> QED
    BY <1>1, <1>3, <1>7, <2>1, <2>3, Sizes
<1>8. CASE i <= n /\ j = n + 1
  <2>1. i \in 1..n /\ F[i] = E[i] /\ F[j] = b
    BY <1>8 DEF b
  <2>2. b[1] = E[n][1] /\ b[2] = E[n][2] + 1
    BY <1>1, <1>2, <1>3, <1>8, <2>1
  <2>3. E[i][1] = E[n][1] /\ E[i][2] = E[n][2] + (i - n)
    <3>1. E[n][2] + (i - n) >= 1 /\ E[n][2] + (i - n) < PerFrame
      BY <1>1, <1>2, <1>8, <2>1, <2>2, Sizes
    <3> QED
      BY <1>2, <1>4, <1>8, <2>1, <2>2, <3>1 DEF InPlace
  <2> QED
    BY <1>1, <1>2, <1>8, <2>1, <2>2, <2>3
<1> QED
  BY <1>5, <1>6, <1>7, <1>8

-----------------------------------------------------------------------------
(* One round of a selection: the head of the line goes *)

\* What a selection makes of the line's head: its place in the frame, whether
\* it is selected, and the index afterwards.
Place(index, v) == IF v.first THEN 0 ELSE index

\* Whether the symbol at a place of the frame is selected.
Chosen(place, num, skip) == skip <= place /\ place < skip + num

\* The selection's index afterwards: it counts up to end.
NextIndex(place, end) == IF place < end THEN place + 1 ELSE place

LEMMA PlaceFacts ==
    ASSUME NEW lost, NEW fresh \in BOOLEAN, NEW v \in Vectors, NEW end \in Nat,
           NEW index \in 0..end, 0 \notin lost,
           TagRight(lost, fresh, v.id, v.first),
           IndexRight(lost, fresh, index, v.id, end)
    PROVE  /\ Place(index, v) \in 0..end
           /\ v.id[1] \notin lost /\ v.id[1] # 0 /\ v.id[2] >= 1 =>
                Place(index, v) = IF v.id[2] - 1 <= end THEN v.id[2] - 1 ELSE end
           /\ fresh /\ v.id = Blank.id => Place(index, v) = end
<1>1. v.id \in Ids /\ v.first \in BOOLEAN
  BY DEF Vectors
<1>2. v.id[1] \in Nat /\ v.id[2] \in Nat
  BY <1>1, IdFacts
<1>3. Place(index, v) \in 0..end
  BY DEF Place
<1>4. ASSUME v.id[1] \notin lost, v.id[1] # 0, v.id[2] >= 1
      PROVE  Place(index, v) = IF v.id[2] - 1 <= end THEN v.id[2] - 1 ELSE end
  <2>1. v.first <=> v.id[2] = 1
    BY <1>4 DEF TagRight
  <2>2. CASE v.id[2] = 1
    BY <2>1, <2>2 DEF Place
  <2>3. CASE v.id[2] >= 2
    BY <1>2, <1>4, <2>1, <2>3 DEF Place, IndexRight
  <2> QED
    BY <1>2, <1>4, <2>2, <2>3
<1>5. ASSUME fresh, v.id = Blank.id
      PROVE  Place(index, v) = end
  <2>1. v.id[1] = 0 /\ v.id[2] = 0
    BY <1>1, <1>5, IdFacts
  <2>2. v.first <=> v.id[2] = 1
    BY <1>5, <2>1 DEF TagRight
  <2> QED
    BY <1>5, <2>1, <2>2 DEF Place, IndexRight
<1> QED
  BY <1>3, <1>4, <1>5

\* The index is right for what lies behind the head.
LEMMA IndexPopped ==
    ASSUME NEW lost, NEW fresh \in BOOLEAN, NEW v \in Vectors, NEW end \in Nat,
           NEW index \in 0..end, 0 \notin lost,
           TagRight(lost, fresh, v.id, v.first),
           IndexRight(lost, fresh, index, v.id, end),
           NEW n \in Nat, n >= 2, NEW E \in [1..n -> Pairs], E[1] = v.id,
           Run(lost, E), E[2] = Blank.id \/ (Symbol(E[2]) /\ E[2][2] # 0),
           fresh => lost = {} /\ Linked(E), v.id = Blank.id \/ (Symbol(v.id) /\ v.id[2] # 0)
    PROVE  /\ NextIndex(Place(index, v), end) \in 0..end
           /\ IndexRight(lost, fresh, NextIndex(Place(index, v), end), E[2], end)
<1> DEFINE place == Place(index, v)
<1>1. /\ place \in 0..end
      /\ v.id[1] \notin lost /\ v.id[1] # 0 /\ v.id[2] >= 1 =>
           place = IF v.id[2] - 1 <= end THEN v.id[2] - 1 ELSE end
      /\ fresh /\ v.id = Blank.id => place = end
  BY PlaceFacts
<1>2. 1 \in DOMAIN E /\ 2 \in DOMAIN E /\ E[2] \in Pairs
  OBVIOUS
<1>3. InPlace(lost, E, 1, 2) /\ InPlace(lost, E, 2, 1)
  BY <1>2 DEF Run
<1>4. E[2][1] \in Nat /\ E[2][2] \in Nat
  BY <1>2, SymbolFacts
<1> HIDE DEF place
<1>5. NextIndex(place, end) \in 0..end
  BY <1>1 DEF NextIndex
<1>6. ASSUME E[2][1] \notin lost, E[2][2] >= 2
      PROVE  NextIndex(place, end) = IF E[2][2] - 1 <= end THEN E[2][2] - 1 ELSE end
  <2>1. Symbol(E[2])
    BY <1>6 DEF Blank
  <2>2. /\ E[2][2] + (1 - 2) = E[2][2] - 1 /\ E[2][2] - 1 >= 1 /\ E[2][2] - 1 < PerFrame
        /\ E[2][1] # 0
    BY <1>4, <1>6, <2>1, Sizes DEF Symbol
  <2>3. v.id[1] = E[2][1] /\ v.id[2] = E[2][2] - 1
    BY <1>3, <1>6, <2>2 DEF InPlace
  <2>4. place = IF v.id[2] - 1 <= end THEN v.id[2] - 1 ELSE end
    BY <1>1, <1>6, <2>2, <2>3
  <2> QED
    BY <1>4, <1>6, <2>3, <2>4 DEF NextIndex
<1>7. ASSUME fresh, E[2] = Blank.id
      PROVE  NextIndex(place, end) = end
  <2>1. E[2][1] = 0
    BY <1>7 DEF Blank
  <2>2. v.id = Blank.id
    <3> SUFFICES ASSUME v.id # Blank.id
                 PROVE  FALSE
      OBVIOUS
    <3>1. Symbol(v.id) /\ v.id[1] # 0 /\ v.id[2] \in Nat
      BY <1>2, SymbolFacts DEF Symbol
    <3>2. CASE v.id[2] + 1 = PerFrame
      <4>1. E[2] = <<v.id[1] + 1, 1>>
        BY <1>2, <1>7, <3>2 DEF Linked
      <4> QED
        BY <2>1, <3>1, <4>1, SymbolFacts DEF Symbol
    <3>3. CASE v.id[2] + 1 # PerFrame
      <4>1. v.id[2] + (2 - 1) >= 1 /\ v.id[2] + (2 - 1) < PerFrame
        BY <3>1, <3>3, Sizes DEF Symbol
      <4> QED
        BY <1>3, <1>7, <2>1, <3>1, <4>1 DEF InPlace
    <3> QED
      BY <3>2, <3>3
  <2> QED
    BY <1>1, <1>7, <2>2 DEF NextIndex
<1> QED
  BY <1>5, <1>6, <1>7 DEF IndexRight, place

\* The symbols of a frame that are selected.
Wanted(id, num, skip) == id # Blank.id /\ skip < id[2] /\ id[2] <= skip + num

\* What a selection lets through.
LEMMA ChosenFacts ==
    ASSUME NEW lost, NEW fresh \in BOOLEAN, NEW v \in Vectors, NEW num \in Nat,
           NEW skip \in Nat, NEW index \in 0..(skip + num), 0 \notin lost,
           TagRight(lost, fresh, v.id, v.first),
           IndexRight(lost, fresh, index, v.id, skip + num),
           fresh => lost = {}, v.id = Blank.id \/ (Symbol(v.id) /\ v.id[2] # 0),
           NEW place, place = Place(index, v)
    PROVE  /\ Chosen(place, num, skip) => Selected(lost, v.id, num, skip)
           /\ fresh => (Chosen(place, num, skip) <=> Wanted(v.id, num, skip))
           /\ fresh /\ Chosen(place, num, skip) => (place = skip <=> v.id[2] = skip + 1)
<1>1. skip + num \in Nat
  OBVIOUS
<1>2. /\ place \in 0..(skip + num)
      /\ v.id[1] \notin lost /\ v.id[1] # 0 /\ v.id[2] >= 1 =>
           place = IF v.id[2] - 1 <= skip + num THEN v.id[2] - 1 ELSE skip + num
      /\ fresh /\ v.id = Blank.id => place = skip + num
  BY <1>1, PlaceFacts
<1>3. v.id \in Pairs /\ v.id[1] \in Nat /\ v.id[2] \in Nat
  BY IdFacts DEF Vectors
<1>4. v.id # Blank.id => v.id[1] # 0 /\ v.id[2] >= 1
  BY <1>3 DEF Symbol
<1>5. v.id[1] # 0 => v.id # Blank.id
  BY DEF Blank
<1>6. Chosen(place, num, skip) => Selected(lost, v.id, num, skip)
  <2> SUFFICES ASSUME Chosen(place, num, skip), v.id[1] \notin lost, v.id[1] # 0
               PROVE  skip < v.id[2] /\ v.id[2] <= skip + num
    BY DEF Selected
  <2> QED
    BY <1>2, <1>3, <1>4, <1>5 DEF Chosen
<1>7. ASSUME fresh
      PROVE  /\ Chosen(place, num, skip) <=> Wanted(v.id, num, skip)
             /\ Chosen(place, num, skip) => (place = skip <=> v.id[2] = skip + 1)
  <2>1. CASE v.id = Blank.id
    BY <1>2, <1>7, <2>1 DEF Chosen, Wanted
  <2>2. CASE v.id # Blank.id
    <3>1. place = IF v.id[2] - 1 <= skip + num THEN v.id[2] - 1 ELSE skip + num
      BY <1>2, <1>4, <1>7, <2>2
    <3> QED
      BY <1>3, <1>4, <2>2, <3>1 DEF Chosen, Wanted
  <2> QED
    BY <2>1, <2>2
<1> QED
  BY <1>6, <1>7

-----------------------------------------------------------------------------
(* The order of what is under way *)

LEMMA OrderPopped ==
    ASSUME NEW units, NEW pend \in Seq(Vectors), NEW line \in Seq(Vectors), NEW p \in Pairs,
           line # <<>>, Ordered(units, pend, line, p)
    PROVE  Ordered(units, pend, Tail(line), p)
<1>1. /\ Len(line) \in Nat /\ Len(line) >= 1
      /\ Len(Tail(line)) = Len(line) - 1
      /\ \A i \in 1..(Len(line) - 1) : Tail(line)[i] = line[i + 1]
  BY Popped
<1>2. \A i \in 1..Len(Tail(line)) : i + 1 \in 1..Len(line) /\ Tail(line)[i] = line[i + 1]
  BY <1>1
<1>3. Ascending(Tail(line))
  <2> SUFFICES ASSUME NEW i \in 1..Len(Tail(line)), NEW j \in 1..Len(Tail(line)), i < j
               PROVE  Precedes(Tail(line)[i].id, Tail(line)[j].id)
    BY DEF Ascending
  <2>1. i + 1 \in 1..Len(line) /\ j + 1 \in 1..Len(line) /\ i + 1 < j + 1
    BY <1>1, <1>2
  <2>2. Precedes(line[i + 1].id, line[j + 1].id)
    BY <2>1 DEF Ordered, Ascending
  <2> QED
    BY <1>2, <2>2
<1>4. AllBefore(Tail(line), p)
  BY <1>2 DEF Ordered, AllBefore
<1>5. \A i \in 1..Len(Tail(line)) : /\ UnitsBefore(units, Tail(line)[i].id)
                                   /\ AllBefore(pend, Tail(line)[i].id)
  BY <1>2 DEF Ordered
<1> QED
  BY <1>3, <1>4, <1>5 DEF Ordered

LEMMA OrderSelected ==
    ASSUME NEW units, NEW pend \in Seq(Vectors), NEW line \in Seq(Vectors), NEW p \in Pairs,
           line # <<>>, Ordered(units, pend, line, p), NEW w \in Vectors, w.id = line[1].id
    PROVE  Ordered(units, Append(pend, w), Tail(line), p)
<1> DEFINE pend1 == Append(pend, w)
           rest == Tail(line)
<1>1. /\ Len(line) \in Nat /\ 1 \in 1..Len(line)
      /\ Len(rest) = Len(line) - 1
      /\ \A i \in 1..Len(rest) : i + 1 \in 1..Len(line) /\ rest[i] = line[i + 1]
  BY Popped
<1>2. /\ Len(pend) \in Nat /\ Len(pend1) = Len(pend) + 1
      /\ \A i \in 1..Len(pend) : pend1[i] = pend[i]
      /\ pend1[Len(pend) + 1] = w
  BY Pushed
<1>3. Ordered(units, pend, rest, p)
  BY OrderPopped
<1> HIDE DEF pend1, rest
<1>4. \A id : AllBefore(pend, id) /\ Precedes(w.id, id) => AllBefore(pend1, id)
  BY <1>2 DEF AllBefore
<1>5. Ascending(pend1)
  <2> SUFFICES ASSUME NEW i \in 1..Len(pend1), NEW j \in 1..Len(pend1), i < j
               PROVE  Precedes(pend1[i].id, pend1[j].id)
    BY DEF Ascending
  <2>1. i \in 1..Len(pend) /\ pend1[i] = pend[i]
    BY <1>2
  <2>2. CASE j \in 1..Len(pend)
    BY <1>2, <2>1, <2>2 DEF Ordered, Ascending
  <2>3. CASE j = Len(pend) + 1
    BY <1>1, <1>2, <2>1, <2>3 DEF Ordered, AllBefore
  <2> QED
    BY <1>2, <2>2, <2>3
<1>6. AllBefore(pend1, p)
  <2>1. Precedes(w.id, p)
    BY <1>1 DEF Ordered, AllBefore
  <2> QED
    BY <1>4, <2>1 DEF Ordered
<1>7. ASSUME NEW i \in 1..Len(rest)
      PROVE  AllBefore(pend1, rest[i].id)
  <2>1. Precedes(w.id, rest[i].id)
    BY <1>1 DEF Ordered, Ascending
  <2>2. AllBefore(pend, rest[i].id)
    BY <1>3 DEF Ordered
  <2> QED
    BY <1>4, <2>1, <2>2
<1>8. ASSUME NEW i \in 1..Len(pend1)
      PROVE  UnitsBefore(units, pend1[i].id)
  BY <1>1, <1>2 DEF Ordered
<1> QED
  BY <1>3, <1>5, <1>6, <1>7, <1>8 DEF Ordered, pend1, rest

-----------------------------------------------------------------------------
(* Frames one behind another, while the flowgraph was never stopped *)

\* The vector selected behind id.
Later(id, num, skip) ==
    IF id[2] = skip + num THEN <<id[1] + 1, skip + 1>> ELSE <<id[1], id[2] + 1>>

\* What a selection makes of the next one to come.
Advances(id, next, num, skip) ==
    IF Wanted(id, num, skip)
    THEN /\ Upcoming(id, num, skip) = id
         /\ Upcoming(next, num, skip) = Later(id, num, skip)
    ELSE Upcoming(next, num, skip) = Upcoming(id, num, skip)

LEMMA UpcomingIs ==
    ASSUME NEW num \in Nat, NEW skip \in Nat, NEW f \in Nat, f >= 1, NEW k \in Nat
    PROVE  Upcoming(<<f, k>>, num, skip) =
               IF k <= skip THEN <<f, skip + 1>>
               ELSE IF k <= skip + num THEN <<f, k>> ELSE <<f + 1, skip + 1>>
<1>1. <<f, k>> # Blank.id /\ <<f, k>>[1] = f /\ <<f, k>>[2] = k
  BY DEF Blank
<1> QED
  BY <1>1 DEF Upcoming

LEMMA UpcomingPopped ==
    ASSUME NEW num \in Nat, num >= 1, NEW skip \in Nat, skip + num < PerFrame,
           NEW n \in Nat, n >= 2, NEW E \in [1..n -> Pairs], Run({}, E), Linked(E),
           E[1] = Blank.id \/ (Symbol(E[1]) /\ E[1][2] # 0)
    PROVE  Advances(E[1], E[2], num, skip)
<1>1. 1 \in DOMAIN E /\ 2 \in DOMAIN E /\ 1 + 1 = 2 /\ E[1] \in Pairs /\ E[2] \in Pairs
  OBVIOUS
<1>2. InPlace({}, E, 2, 1)
  BY <1>1 DEF Run
<1>3. PICK f \in Nat, k \in Nat : E[1] = <<f, k>>
  BY <1>1 DEF Pairs
<1>4. CASE E[1] = Blank.id
  <2>1. E[2] \in {<<0, 0>>, <<1, 1>>}
    BY <1>1, <1>4 DEF Linked, Blank
  <2>2. Upcoming(E[2], num, skip) = <<1, skip + 1>>
    BY <2>1, Sizes, SMTT(30) DEF Upcoming, Blank
  <2> QED
    BY <1>4, <2>2 DEF Upcoming, Advances, Wanted
<1>5. CASE E[1] # Blank.id
  <2>1. f >= 1 /\ k >= 1 /\ k < PerFrame
    BY <1>3, <1>5, Sizes DEF Symbol
  <2>2. E[2] = IF k + 1 = PerFrame THEN <<f + 1, 1>> ELSE <<f, k + 1>>
    <3>1. CASE k + 1 = PerFrame
      BY <1>1, <1>3, <1>5, <3>1, SMTT(30) DEF Linked
    <3>2. CASE k + 1 # PerFrame
      <4>1. E[2][1] = f /\ E[2][2] = k + 1
        BY <1>2, <1>3, <2>1, <3>2, Sizes DEF InPlace
      <4> QED
        BY <1>1, <3>2, <4>1, SymbolFacts
    <3> QED
      BY <3>1, <3>2
  <2>3. E[2] # Blank.id
    BY <2>1, <2>2 DEF Blank
  <2>4. CASE skip < k /\ k <= skip + num
    <3>1. Upcoming(E[1], num, skip) = E[1]
      BY <1>3, <1>5, <2>4 DEF Upcoming
    <3>2. Upcoming(E[2], num, skip) = Later(E[1], num, skip)
      <4>1. Later(E[1], num, skip) =
               IF k = skip + num THEN <<f + 1, skip + 1>> ELSE <<f, k + 1>>
        BY <1>3 DEF Later
      <4>2. CASE k + 1 = PerFrame
        <5>1. k = skip + num /\ E[2] = <<f + 1, 1>>
          BY <2>2, <2>4, <4>2, Sizes
        <5>2. Upcoming(<<f + 1, 1>>, num, skip) = <<f + 1, skip + 1>>
          <6>1. PICK g \in Nat : g = f + 1 /\ g >= 1
            OBVIOUS
          <6>2. Upcoming(<<g, 1>>, num, skip) =
                  IF 1 <= skip THEN <<g, skip + 1>>
                  ELSE IF 1 <= skip + num THEN <<g, 1>> ELSE <<g + 1, skip + 1>>
            BY <6>1, UpcomingIs
          <6>3. 1 <= skip \/ (skip = 0 /\ 1 <= skip + num)
            OBVIOUS
          <6> QED
            BY <6>1, <6>2, <6>3
        <5> QED
          BY <4>1, <5>1, <5>2
      <4>3. CASE k + 1 # PerFrame
        <5>1. Upcoming(<<f, k + 1>>, num, skip) =
                IF k + 1 <= skip + num THEN <<f, k + 1>> ELSE <<f + 1, skip + 1>>
          <6>1. PICK l \in Nat : l = k + 1 /\ l > skip
            BY <2>4
          <6>2. Upcoming(<<f, l>>, num, skip) =
                  IF l <= skip THEN <<f, skip + 1>>
                  ELSE IF l <= skip + num THEN <<f, l>> ELSE <<f + 1, skip + 1>>
            BY <2>1, UpcomingIs, SMTT(30)
          <6> QED
            BY <6>1, <6>2
        <5> QED
          BY <2>2, <2>4, <4>1, <4>3, <5>1
      <4> QED
        BY <4>2, <4>3
    <3> QED
      BY <1>3, <1>5, <2>4, <3>1, <3>2 DEF Advances, Wanted
  <2>5. CASE ~(skip < k /\ k <= skip + num)
    <3>1. Upcoming(E[2], num, skip) = Upcoming(E[1], num, skip)
      <4>1. Upcoming(<<f, k>>, num, skip) =
               IF k <= skip THEN <<f, skip + 1>> ELSE <<f + 1, skip + 1>>
        BY <2>1, <2>5, UpcomingIs
      <4>2. CASE k + 1 = PerFrame
        <5>1. k > skip /\ E[2] = <<f + 1, 1>>
          BY <2>2, <2>5, <4>2, Sizes
        <5>2. Upcoming(<<f + 1, 1>>, num, skip) = <<f + 1, skip + 1>>
          <6>1. PICK g \in Nat : g = f + 1 /\ g >= 1
            OBVIOUS
          <6>2. Upcoming(<<g, 1>>, num, skip) =
                  IF 1 <= skip THEN <<g, skip + 1>>
                  ELSE IF 1 <= skip + num THEN <<g, 1>> ELSE <<g + 1, skip + 1>>
            BY <6>1, UpcomingIs
          <6>3. 1 <= skip \/ (skip = 0 /\ 1 <= skip + num)
            OBVIOUS
          <6> QED
            BY <6>1, <6>2, <6>3
        <5> QED
          BY <1>3, <4>1, <5>1, <5>2
      <4>3. CASE k + 1 # PerFrame
        <5>1. Upcoming(<<f, k + 1>>, num, skip) =
                IF k + 1 <= skip THEN <<f, skip + 1>>
                ELSE IF k + 1 <= skip + num THEN <<f, k + 1>> ELSE <<f + 1, skip + 1>>
          BY <2>1, UpcomingIs, SMTT(30)
        <5>2. k + 1 <= skip + num => k <= skip
          BY <2>5
        <5>3. CASE k = skip
          BY <1>3, <2>2, <4>1, <4>3, <5>1, <5>3, SMTT(30)
        <5>4. CASE k # skip
          BY <1>3, <2>2, <2>5, <4>1, <4>3, <5>1, <5>4
        <5> QED
          BY <5>3, <5>4
      <4> QED
        BY <4>2, <4>3
    <3> QED
      BY <1>3, <1>5, <2>5, <3>1 DEF Advances, Wanted
  <2> QED
    BY <2>4, <2>5
<1> QED
  BY <1>4, <1>5

\* A selected vector takes the place that was due.
LEMMA FramedSelected ==
    ASSUME NEW num \in Nat, num >= 1, NEW skip \in Nat, NEW units, Len(units) \in Nat,
           NEW pend \in Seq(Vectors), NEW w \in Vectors,
           NEW next \in Pairs, Upcoming(w.id, num, skip) = w.id,
           NEW id, Upcoming(id, num, skip) = w.id,
           Upcoming(next, num, skip) = Later(w.id, num, skip),
           w.first <=> w.id[2] = skip + 1, Framed(units, pend, id, num, skip)
    PROVE  Framed(units, Append(pend, w), next, num, skip)
<1> DEFINE last == Later(w.id, num, skip)
           T == Trail(pend, w.id)
           T1 == Trail(Append(pend, w), last)
           n == Len(pend)
<1>1. PICK f \in Nat, k \in Nat : w.id = <<f, k>>
  BY IdFacts DEF Vectors, Pairs
<1>2. last \in Pairs /\ last = IF k = skip + num THEN <<f + 1, skip + 1>> ELSE <<f, k + 1>>
  BY <1>1 DEF Later, Pairs
<1>3. w.id \in Pairs
  BY <1>1 DEF Pairs
<1>4. /\ n \in Nat /\ Len(Append(pend, w)) = n + 1
      /\ \A i \in 1..n : Append(pend, w)[i] = pend[i]
      /\ Append(pend, w)[n + 1] = w
      /\ DOMAIN T1 = 1..(n + 2) /\ T1[n + 2] = last
      /\ \A i \in 1..(n + 1) : T1[i] = T[i]
  <2> HIDE DEF last
  <2>1. last \in Pairs
    BY <1>2
  <2> QED
    BY <2>1, Pushed
<1>5. DOMAIN T = 1..(n + 1) /\ T[n + 1] = w.id
  BY <1>3, TrailFacts
<1>6. \A u \in Nat, i \in 1..num : Due(units, T, num, skip, u, i)
  BY DEF Framed
<1> HIDE DEF last, T, T1, n
<1>7. ASSUME NEW u \in Nat, NEW i \in 1..num
      PROVE  Due(units, T1, num, skip, u, i)
  <2>1. PICK un \in Nat : un = u * num
    OBVIOUS
  <2>2. CASE un + i <= n + 1
    <3>1. un + i \in DOMAIN T /\ T1[un + i] = T[un + i]
      BY <1>4, <1>5, <2>2
    <3>2. Due(units, T, num, skip, u, i)
      BY <1>6
    <3> QED
      BY <2>1, <3>1, <3>2 DEF Due
  <2>3. CASE un + i = n + 2 /\ i >= 2
    <3>1. i - 1 \in 1..num /\ un + (i - 1) = n + 1
      BY <1>4, <2>3
    <3>2. Due(units, T, num, skip, u, i - 1)
      BY <1>6, <3>1
    <3>3. T[un + (i - 1)] = <<Len(units) + 1 + u, skip + (i - 1)>>
      BY <1>4, <1>5, <2>1, <3>1, <3>2 DEF Due
    <3>4. f = Len(units) + 1 + u /\ k = skip + (i - 1)
      BY <1>1, <1>5, <3>1, <3>3
    <3>5. last = <<Len(units) + 1 + u, skip + i>>
      BY <1>2, <3>1, <3>4
    <3> QED
      BY <1>4, <2>1, <2>3, <3>5 DEF Due
  <2>4. CASE un + i = n + 2 /\ i = 1
    <3>1. u >= 1
      BY <1>4, <2>1, <2>4
    <3>2. u - 1 \in Nat /\ (u - 1) * num = un - num
      BY <2>1, <3>1
    <3>3. num \in 1..num /\ (u - 1) * num + num = n + 1
      BY <1>4, <2>1, <2>4, <3>2
    <3>4. Due(units, T, num, skip, u - 1, num)
      BY <1>6, <3>2, <3>3
    <3>5. T[n + 1] = <<Len(units) + 1 + (u - 1), skip + num>>
      BY <1>4, <1>5, <3>3, <3>4 DEF Due
    <3>6. f = Len(units) + u /\ k = skip + num
      BY <1>1, <1>5, <3>1, <3>5
    <3>7. last = <<Len(units) + 1 + u, skip + 1>>
      BY <1>2, <3>6
    <3> QED
      BY <1>4, <2>1, <2>4, <3>7 DEF Due
  <2>5. CASE un + i > n + 2
    BY <1>4, <2>1, <2>5 DEF Due
  <2> QED
    BY <1>4, <2>1, <2>2, <2>3, <2>4, <2>5
<1>8. ASSUME NEW i \in 1..(n + 1)
      PROVE  Append(pend, w)[i].first <=> Append(pend, w)[i].id[2] = skip + 1
  BY <1>4 DEF Framed, n
<1> QED
  BY <1>4, <1>7, <1>8 DEF Framed, last, T1

-----------------------------------------------------------------------------
(* One half of the chain: a selection and what is behind it *)

LEMMA TrailIds ==
    ASSUME NEW line \in Seq(Vectors), NEW p \in Pairs, Symbol(p), LineIds(line)
    PROVE  /\ First(p) \in Pairs /\ First(p) # Blank.id
           /\ \A i \in 1..(Len(line) + 1) :
                 LET id == Trail(line, First(p))[i]
                 IN  id = Blank.id \/ (Symbol(id) /\ id[2] # 0)
<1>1. /\ First(p) \in Pairs /\ Symbol(First(p)) /\ First(p)[2] # 0
      /\ First(p) # Blank.id
  BY SymbolFacts, Sizes DEF First, Pairs, Symbol, Blank
<1>2. /\ \A i \in 1..Len(line) : Trail(line, First(p))[i] = line[i].id
      /\ Trail(line, First(p))[Len(line) + 1] = First(p) /\ Len(line) \in Nat
  BY <1>1, TrailFacts
<1> QED
  BY <1>1, <1>2 DEF LineIds

LEMMA Retagged ==
    ASSUME NEW v \in Vectors, NEW tag \in BOOLEAN
    PROVE  Retag(v, tag) \in Vectors /\ Retag(v, tag).id = v.id /\ Retag(v, tag).first = tag
BY DEF Retag, Vectors

\* Behind the last symbol that is selected, and what a selection selects.
WindowEnd(num, skip) == skip + num

\* What the windows of the two selections have in common.
Window(num, skip) == num >= 1 /\ skip + num < PerFrame

\* A selected symbol: the window's first one is tagged.
Marked(v, place, skip) == Retag(v, place = skip)

LEMMA HalfPopped ==
    ASSUME NEW lost, NEW fresh \in BOOLEAN, 0 \notin lost, fresh => lost = {},
           NEW num \in Nat, NEW skip \in Nat, Window(num, skip),
           NEW units, Len(units) \in Nat, NEW pend \in Seq(Vectors),
           NEW index \in 0..WindowEnd(num, skip), NEW line \in Seq(Vectors), line # <<>>,
           NEW p \in Pairs, Symbol(p), TagRight(lost, fresh, line[1].id, line[1].first),
           Half(lost, fresh, units, pend, index, line, p, num, skip)
    PROVE  LET place == Place(index, line[1])
               next == NextIndex(place, WindowEnd(num, skip))
               more == Append(pend, Marked(line[1], place, skip))
           IN  /\ next \in 0..WindowEnd(num, skip)
               /\ Chosen(place, num, skip) =>
                    Half(lost, fresh, units, more, next, Tail(line), p, num, skip)
               /\ ~Chosen(place, num, skip) =>
                    Half(lost, fresh, units, pend, next, Tail(line), p, num, skip)
<1> num >= 1 /\ skip + num < PerFrame /\ index \in 0..(skip + num)
  BY DEF Window, WindowEnd
<1> PICK v : v = line[1]
  OBVIOUS
<1> PICK place : place = Place(index, v)
  OBVIOUS
<1> DEFINE n == Len(line)
           end == skip + num
           E == Trail(line, First(p))
           F == Trail(Tail(line), First(p))
           next == NextIndex(place, end)
           w == Retag(v, place = skip)
<1>1. /\ LineIds(line) /\ Run(lost, E) /\ IndexRight(lost, fresh, index, E[1], end)
      /\ InWindow(lost, pend, num, skip) /\ UnitsInWindow(lost, units, num, skip)
      /\ Ordered(units, pend, line, p)
      /\ fresh => Linked(E) /\ Framed(units, pend, E[1], num, skip)
  BY DEF Half
<1>2. /\ First(p) \in Pairs
      /\ \A i \in 1..(n + 1) : E[i] = Blank.id \/ (Symbol(E[i]) /\ E[i][2] # 0)
  BY <1>1, TrailIds
<1>3. /\ n \in Nat /\ n >= 1 /\ Tail(line) \in Seq(Vectors) /\ Len(Tail(line)) = n - 1
      /\ \A i \in 1..(n - 1) : Tail(line)[i] = line[i + 1]
      /\ F \in [1..n -> Pairs] /\ \A i \in 1..n : F[i] = E[i + 1]
  BY <1>2, Popped
<1>4. E \in [1..(n + 1) -> Pairs] /\ E[1] = v.id /\ v \in Vectors
  <2>1. 1 \in 1..n /\ n = Len(line)
    BY <1>3
  <2>2. E \in [1..(n + 1) -> Pairs] /\ \A i \in 1..n : E[i] = line[i].id
    BY <1>2, TrailFacts
  <2>3. v \in Vectors
    BY <2>1, LineFacts
  <2> HIDE DEF n, E
  <2> QED
    BY <2>1, <2>2, <2>3
<1> HIDE DEF n, E, F
<1>5. 1 \in 1..(n + 1) /\ 2 \in 1..(n + 1) /\ F[1] = E[2] /\ end \in Nat
  BY <1>3
<1>6. v.id = Blank.id \/ (Symbol(v.id) /\ v.id[2] # 0)
  BY <1>2, <1>4, <1>5
<1>7. next \in 0..end /\ IndexRight(lost, fresh, next, F[1], end)
  <2>1. PICK m \in Nat : m = n + 1 /\ m >= 2
    BY <1>3
  <2>2. E[2] = Blank.id \/ (Symbol(E[2]) /\ E[2][2] # 0)
    BY <1>2, <1>4, <1>5, <2>1
  <2>3. E \in [1..m -> Pairs]
    BY <1>4, <2>1
  <2> HIDE DEF end, next
  <2>4. index \in 0..end /\ IndexRight(lost, fresh, index, v.id, end)
    BY <1>1, <1>4 DEF end
  <2>5. /\ NextIndex(Place(index, v), end) \in 0..end
        /\ IndexRight(lost, fresh, NextIndex(Place(index, v), end), E[2], end)
    BY <1>1, <1>4, <1>5, <1>6, <2>1, <2>2, <2>3, <2>4, IndexPopped
  <2> QED
    BY <1>5, <2>5 DEF next
<1>8. LineIds(Tail(line))
  <2>1. \A i \in 1..Len(Tail(line)) : i + 1 \in 1..n /\ Tail(line)[i] = line[i + 1]
    BY <1>3
  <2> QED
    BY <1>1, <2>1 DEF LineIds, n
<1>9. Run(lost, F)
  BY <1>1, <1>3, <1>4, RunPopped
<1>10. fresh => Linked(F)
  <2> SUFFICES ASSUME fresh, NEW i \in 1..n, i + 1 \in 1..n
               PROVE  /\ F[i] = Blank.id => F[i + 1] \in {Blank.id, <<1, 1>>}
                      /\ F[i] # Blank.id /\ F[i][2] + 1 = PerFrame
                            => F[i + 1] = <<F[i][1] + 1, 1>>
    BY <1>3 DEF Linked
  <2>1. PICK j \in 1..(n + 1) : j = i + 1 /\ j + 1 \in 1..(n + 1)
    BY <1>3
  <2>2. F[i] = E[j] /\ F[i + 1] = E[j + 1]
    BY <1>3, <2>1
  <2>3. DOMAIN E = 1..(n + 1) /\ Linked(E)
    BY <1>1, <1>4
  <2> QED
    BY <2>1, <2>2, <2>3 DEF Linked
<1>11. w \in Vectors /\ w.id = v.id /\ w.first = (place = skip)
  BY <1>4, Retagged
<1>12. /\ Chosen(place, num, skip) => Selected(lost, v.id, num, skip)
       /\ fresh => (Chosen(place, num, skip) <=> Wanted(v.id, num, skip))
       /\ fresh /\ Chosen(place, num, skip) => (place = skip <=> v.id[2] = skip + 1)
  <2>1. IndexRight(lost, fresh, index, v.id, skip + num)
    BY <1>1, <1>4
  <2> QED
    BY <1>4, <1>6, <2>1, ChosenFacts
<1>13. ASSUME fresh
       PROVE  Advances(v.id, F[1], num, skip)
  <2>1. PICK m \in Nat : m = n + 1 /\ m >= 2
    BY <1>3
  <2>2. E \in [1..m -> Pairs]
    BY <1>4, <2>1
  <2>3. /\ Run({}, E) /\ Linked(E)
        /\ E[1] = Blank.id \/ (Symbol(E[1]) /\ E[1][2] # 0)
    BY <1>1, <1>4, <1>6, <1>13
  <2>4. Advances(E[1], E[2], num, skip)
    BY <2>1, <2>2, <2>3, UpcomingPopped
  <2> QED
    BY <1>4, <1>5, <2>4
<1>14. ASSUME Chosen(place, num, skip)
       PROVE  Half(lost, fresh, units, Append(pend, w), next, Tail(line), p, num, skip)
  <2>1. InWindow(lost, Append(pend, w), num, skip)
    <3>1. /\ Len(pend) \in Nat /\ Len(Append(pend, w)) = Len(pend) + 1
          /\ \A i \in 1..Len(pend) : Append(pend, w)[i] = pend[i]
          /\ Append(pend, w)[Len(pend) + 1] = w
      BY <1>2, <1>11, Pushed
    <3> HIDE DEF w
    <3> QED
      BY <1>1, <1>11, <1>12, <1>14, <3>1 DEF InWindow
  <2>2. Ordered(units, Append(pend, w), Tail(line), p)
    BY <1>1, <1>11, OrderSelected
  <2>3. ASSUME fresh
        PROVE  Framed(units, Append(pend, w), F[1], num, skip)
    <3>1. /\ Upcoming(v.id, num, skip) = v.id
          /\ Upcoming(F[1], num, skip) = Later(v.id, num, skip)
      BY <1>12, <1>13, <1>14, <2>3 DEF Advances
    <3>2. w.first <=> w.id[2] = skip + 1
      BY <1>11, <1>12, <1>14, <2>3
    <3>3. F[1] \in Pairs /\ Framed(units, pend, v.id, num, skip)
      BY <1>1, <1>3, <1>4, <2>3
    <3> HIDE DEF w
    <3> QED
      BY <1>11, <3>1, <3>2, <3>3, FramedSelected
  <2> QED
    BY <1>1, <1>7, <1>8, <1>9, <1>10, <2>1, <2>2, <2>3 DEF Half, F, end
<1>15. ASSUME ~Chosen(place, num, skip)
       PROVE  Half(lost, fresh, units, pend, next, Tail(line), p, num, skip)
  <2>1. Ordered(units, pend, Tail(line), p)
    BY <1>1, OrderPopped
  <2>2. ASSUME fresh
        PROVE  Framed(units, pend, F[1], num, skip)
    <3>1. Upcoming(F[1], num, skip) = Upcoming(v.id, num, skip)
      BY <1>12, <1>13, <1>15, <2>2 DEF Advances
    <3>2. Framed(units, pend, v.id, num, skip)
      BY <1>1, <1>4, <2>2
    <3> QED
      BY <3>1, <3>2 DEF Framed
  <2> QED
    BY <1>1, <1>7, <1>8, <1>9, <1>10, <2>1, <2>2 DEF Half, F, end
<1> QED
  BY <1>7, <1>14, <1>15 DEF WindowEnd, Marked

-----------------------------------------------------------------------------
(* What comes in at the other end of the line *)

LEMMA UnitFacts ==
    ASSUME NEW num \in Nat, NEW units \in Seq(Units(num))
    PROVE  /\ Len(units) \in Nat
           /\ \A j \in 1..Len(units) :
                 /\ units[j] \in Units(num)
                 /\ units[j].ids \in [1..num -> Ids] /\ DOMAIN units[j].ids = 1..num
                 /\ \A i \in 1..num : units[j].ids[i] \in Ids
<1>1. Len(units) \in Nat /\ \A j \in 1..Len(units) : units[j] \in Units(num)
  BY LenProperties, ElementOfSeq
<1> QED
  BY <1>1 DEF Units

LEMMA PrecedesTransitive ==
    ASSUME NEW a \in Pairs, NEW b \in Pairs, NEW c \in Pairs, b # Blank.id,
           Precedes(a, b), Precedes(b, c)
    PROVE  Precedes(a, c)
BY DEF Precedes, Before, Pairs

LEMMA OrderLater ==
    ASSUME NEW num \in Nat, NEW units \in Seq(Units(num)), NEW pend \in Seq(Vectors),
           NEW line \in Seq(Vectors), NEW p \in Pairs, NEW q \in Pairs, p # Blank.id,
           Precedes(p, q), Ordered(units, pend, line, p)
    PROVE  Ordered(units, pend, line, q)
<1>1. \A id \in Ids : Precedes(id, p) => Precedes(id, q)
  BY IdFacts, PrecedesTransitive
<1>2. UnitsBefore(units, q)
  <2>1. UnitsBefore(units, p)
    BY DEF Ordered
  <2> QED
    BY <1>1, <2>1, UnitFacts DEF UnitsBefore
<1>3. ASSUME NEW s \in Seq(Vectors), AllBefore(s, p)
      PROVE  AllBefore(s, q)
  <2>1. \A i \in 1..Len(s) : s[i].id \in Ids
    BY LineFacts
  <2> QED
    BY <1>1, <1>3, <2>1 DEF AllBefore
<1>4. AllBefore(pend, q) /\ AllBefore(line, q)
  BY <1>3 DEF Ordered
<1> QED
  BY <1>2, <1>4 DEF Ordered

\* A vector that is dropped.
LEMMA HalfSkipped ==
    ASSUME NEW lost, NEW fresh \in BOOLEAN, NEW num \in Nat, NEW skip \in Nat,
           NEW units \in Seq(Units(num)), NEW pend \in Seq(Vectors), NEW index,
           NEW line \in Seq(Vectors), NEW p \in Pairs, Symbol(p), p[2] = 0,
           Half(lost, fresh, units, pend, index, line, p, num, skip)
    PROVE  Half(lost, fresh, units, pend, index, line, Succ(p), num, skip)
<1>1. /\ Succ(p) \in Pairs /\ First(Succ(p)) = First(p) /\ p # Blank.id
      /\ Precedes(p, Succ(p))
  BY SuccFacts, SymbolFacts DEF Precedes
<1>2. Ordered(units, pend, line, p)
  BY DEF Half
<1>3. Ordered(units, pend, line, Succ(p))
  BY <1>1, <1>2, OrderLater
<1> QED
  BY <1>1, <1>3 DEF Half

LEMMA OrderPushed ==
    ASSUME NEW units, NEW pend \in Seq(Vectors), NEW line \in Seq(Vectors),
           NEW v \in Vectors, Ordered(units, pend, line, v.id), NEW q \in Pairs,
           Precedes(v.id, q), Ordered(units, pend, line, q)
    PROVE  Ordered(units, pend, Append(line, v), q)
<1> DEFINE more == Append(line, v)
<1>1. /\ Len(line) \in Nat /\ Len(more) = Len(line) + 1
      /\ \A i \in 1..Len(line) : more[i] = line[i]
      /\ more[Len(line) + 1] = v
  BY Pushed
<1> HIDE DEF more
<1>2. \A i \in 1..Len(more) : i \in 1..Len(line) \/ i = Len(line) + 1
  BY <1>1
<1>3. Ascending(more)
  <2> SUFFICES ASSUME NEW i \in 1..Len(more), NEW j \in 1..Len(more), i < j
               PROVE  Precedes(more[i].id, more[j].id)
    BY DEF Ascending
  <2>1. i \in 1..Len(line) /\ more[i] = line[i]
    BY <1>1
  <2>2. CASE j \in 1..Len(line)
    BY <1>1, <2>1, <2>2 DEF Ordered, Ascending
  <2>3. CASE j = Len(line) + 1
    BY <1>1, <2>1, <2>3 DEF Ordered, AllBefore
  <2> QED
    BY <1>2, <2>2, <2>3
<1>4. AllBefore(more, q)
  BY <1>1, <1>2 DEF Ordered, AllBefore
<1>5. \A i \in 1..Len(more) : UnitsBefore(units, more[i].id) /\ AllBefore(pend, more[i].id)
  BY <1>1, <1>2 DEF Ordered
<1> QED
  BY <1>3, <1>4, <1>5 DEF Ordered, more

\* A vector that is handed on.
LEMMA HalfPushed ==
    ASSUME NEW lost, NEW fresh \in BOOLEAN, NEW num \in Nat, NEW skip \in Nat,
           NEW units \in Seq(Units(num)), NEW pend \in Seq(Vectors), NEW index,
           NEW line \in Seq(Vectors), NEW p \in Pairs, Symbol(p), p[2] # 0,
           NEW v \in Vectors, v.id = p,
           Half(lost, fresh, units, pend, index, line, p, num, skip)
    PROVE  Half(lost, fresh, units, pend, index, Append(line, v), Succ(p), num, skip)
<1> DEFINE n == Len(line)
           E == Trail(line, p)
           F == Trail(Append(line, v), First(Succ(p)))
<1>1. First(p) = p
  BY DEF First
<1>2. /\ Succ(p) \in Pairs /\ First(Succ(p)) \in Pairs /\ p # Blank.id
      /\ Precedes(p, Succ(p))
      /\ p[2] + 1 = PerFrame => First(Succ(p)) = <<p[1] + 1, 1>>
  BY SuccFacts, SymbolFacts DEF Precedes
<1>3. /\ LineIds(line) /\ Run(lost, E)
      /\ IndexRight(lost, fresh, index, E[1], skip + num)
      /\ InWindow(lost, pend, num, skip) /\ UnitsInWindow(lost, units, num, skip)
      /\ Ordered(units, pend, line, p)
      /\ fresh => Linked(E) /\ Framed(units, pend, E[1], num, skip)
  BY <1>1 DEF Half
<1>4. /\ n \in Nat /\ Len(Append(line, v)) = n + 1
      /\ \A i \in 1..n : Append(line, v)[i] = line[i]
      /\ Append(line, v)[n + 1] = v
      /\ F \in [1..(n + 2) -> Pairs] /\ \A i \in 1..(n + 1) : F[i] = E[i]
      /\ F[n + 2] = First(Succ(p))
  BY <1>2, Pushed
<1>5. E \in [1..(n + 1) -> Pairs] /\ E[n + 1] = p
  BY TrailFacts
<1>6. \A i \in 1..(n + 1) : E[i] = Blank.id \/ (Symbol(E[i]) /\ E[i][2] # 0)
  BY <1>1, <1>3, TrailIds
<1> HIDE DEF n, E, F
<1>7. Run(lost, F)
  <2>1. PICK m \in Nat : m = n + 1 /\ m >= 1
    BY <1>4
  <2>2. /\ E \in [1..m -> Pairs] /\ F \in [1..(m + 1) -> Pairs]
        /\ \A i \in 1..m : F[i] = E[i]
        /\ F[m + 1] = First(Succ(E[m])) /\ E[m] # Blank.id
        /\ \A i \in 1..m : E[i] = Blank.id \/ (Symbol(E[i]) /\ E[i][2] # 0)
    <3>1. F \in [1..(m + 1) -> Pairs] /\ F[m + 1] = First(Succ(p))
      <4>1. m + 1 = n + 2
        BY <1>4, <2>1
      <4> QED
        BY <1>4, <4>1
    <3> QED
      BY <1>2, <1>4, <1>5, <1>6, <2>1, <3>1
  <2> QED
    BY <1>3, <2>1, <2>2, RunPushed
<1>8. LineIds(Append(line, v))
  <2>1. \A i \in 1..Len(Append(line, v)) : i \in 1..n \/ i = n + 1
    BY <1>4
  <2> QED
    BY <1>2, <1>3, <1>4, <2>1 DEF LineIds, n
<1>9. F[1] = E[1]
  BY <1>4
<1>10. fresh => Linked(F)
  <2> SUFFICES ASSUME fresh, NEW i \in 1..(n + 2), i + 1 \in 1..(n + 2)
               PROVE  /\ F[i] = Blank.id => F[i + 1] \in {Blank.id, <<1, 1>>}
                      /\ F[i] # Blank.id /\ F[i][2] + 1 = PerFrame
                            => F[i + 1] = <<F[i][1] + 1, 1>>
    BY <1>4 DEF Linked
  <2>1. CASE i = n + 1
    BY <1>2, <1>4, <1>5, <2>1
  <2>2. CASE i \in 1..n
    <3>1. /\ i \in 1..(n + 1) /\ i + 1 \in 1..(n + 1) /\ DOMAIN E = 1..(n + 1)
          /\ F[i] = E[i] /\ F[i + 1] = E[i + 1]
      BY <1>4, <1>5, <2>2
    <3> QED
      BY <1>3, <3>1 DEF Linked
  <2> QED
    BY <1>4, <2>1, <2>2
<1>11. Ordered(units, pend, Append(line, v), Succ(p))
  <2>1. Ordered(units, pend, line, Succ(p))
    BY <1>2, <1>3, OrderLater
  <2> QED
    BY <1>2, <1>3, <2>1, OrderPushed
<1> QED
  BY <1>3, <1>7, <1>8, <1>9, <1>10, <1>11 DEF Half, F

-----------------------------------------------------------------------------
(* The line is renewed *)

\* Whatever becomes of the tags, only the identities of the line matter here.
LEMMA HalfSame ==
    ASSUME NEW lost, NEW fresh, NEW num, NEW skip, NEW units, NEW pend, NEW index, NEW p,
           NEW line, NEW new, Len(new) = Len(line),
           \A i \in 1..Len(line) : new[i].id = line[i].id,
           Half(lost, fresh, units, pend, index, line, p, num, skip)
    PROVE  Half(lost, fresh, units, pend, index, new, p, num, skip)
<1>1. Trail(new, First(p)) = Trail(line, First(p))
  BY DEF Trail
<1>2. LineIds(line) => LineIds(new)
  BY DEF LineIds
<1>3. Ordered(units, pend, line, p) => Ordered(units, pend, new, p)
  BY DEF Ordered, Ascending, AllBefore
<1> QED
  BY <1>1, <1>2, <1>3 DEF Half

\* A restart empties the edges, and gives up the frames it takes something of.
Losing(lost, gone, new, p, b) ==
    /\ lost \subseteq gone /\ new \in Seq(Vectors)
    /\ \A i \in 1..Len(new) : new[i].id = Blank.id
    /\ p \in Pairs /\ Symbol(p)
    /\ b \in Pairs /\ Symbol(b) /\ (b = p \/ Before(p, b))
    /\ (b[1] \notin gone => b[2] = 0)

LEMMA HalfLost ==
    ASSUME NEW lost, NEW fresh \in BOOLEAN, NEW num \in Nat, NEW skip \in Nat,
           NEW units \in Seq(Units(num)), NEW pend \in Seq(Vectors), NEW index,
           NEW line \in Seq(Vectors), NEW p, NEW gone, NEW new, NEW b,
           Half(lost, fresh, units, pend, index, line, p, num, skip),
           Losing(lost, gone, new, p, b)
    PROVE  Half(gone, FALSE, units, <<>>, index, new, b, num, skip)
<1> SUFFICES ASSUME lost \subseteq gone, new \in Seq(Vectors),
                    \A i \in 1..Len(new) : new[i].id = Blank.id,
                    p \in Pairs, Symbol(p), b \in Pairs, Symbol(b), b = p \/ Before(p, b),
                    b[1] \notin gone => b[2] = 0
             PROVE  Half(gone, FALSE, units, <<>>, index, new, b, num, skip)
  BY DEF Losing
<1> DEFINE n == Len(new)
           E == Trail(new, First(b))
<1>1. First(b) \in Pairs /\ (b[1] \notin gone => First(b) = <<b[1], 1>>) /\ First(b)[1] = b[1]
  BY SymbolFacts DEF First, Pairs
<1>2. /\ E \in [1..(n + 1) -> Pairs] /\ \A i \in 1..n : E[i] = Blank.id
      /\ E[n + 1] = First(b) /\ n \in Nat
  BY <1>1, TrailFacts
<1>3. LineIds(new)
  BY DEF LineIds
<1> HIDE DEF n, E
<1>4. Run(gone, E)
  <2> SUFFICES ASSUME NEW i \in 1..(n + 1), NEW j \in 1..(n + 1)
               PROVE  InPlace(gone, E, i, j)
    BY <1>2 DEF Run
  <2>1. CASE j \in 1..n
    BY <1>2, <2>1 DEF InPlace, Blank
  <2>2. CASE j = n + 1
    <3> SUFFICES ASSUME b[1] \notin gone, 1 + (i - j) >= 1
                 PROVE  InPlace(gone, E, i, j)
      BY <1>1, <1>2, <2>2 DEF InPlace
    <3>1. i = j
      BY <1>2, <2>2
    <3> QED
      BY <1>1, <1>2, <2>2, <3>1 DEF InPlace
  <2> QED
    BY <1>2, <2>1, <2>2
<1>5. IndexRight(gone, FALSE, index, E[1], skip + num)
  <2>1. E[1] = Blank.id \/ E[1] = First(b)
    BY <1>2
  <2> QED
    BY <1>1, <2>1 DEF IndexRight, Blank
<1>6. UnitsInWindow(gone, units, num, skip)
  BY DEF Half, UnitsInWindow, Selected
<1>7. InWindow(gone, <<>>, num, skip)
  BY DEF InWindow
<1>8. Ordered(units, <<>>, new, b)
  <2>1. p # Blank.id /\ (b = p \/ Precedes(p, b))
    BY SymbolFacts DEF Precedes
  <2>2. Ordered(units, pend, line, p)
    BY DEF Half
  <2>3. Ordered(units, pend, line, b)
    BY <2>1, <2>2, OrderLater
  <2>4. UnitsInOrder(units) /\ UnitsBefore(units, b)
    BY <2>3 DEF Ordered
  <2>5. Ascending(<<>>) /\ AllBefore(<<>>, b) /\ \A id : AllBefore(<<>>, id)
    BY DEF Ascending, AllBefore
  <2>6. \A id : Precedes(Blank.id, id) /\ Precedes(id, Blank.id)
    BY DEF Precedes
  <2>7. Ascending(new) /\ AllBefore(new, b) /\ UnitsBefore(units, Blank.id)
    BY <2>6 DEF Ascending, AllBefore, UnitsBefore
  <2> QED
    BY <2>4, <2>5, <2>7 DEF Ordered
<1> QED
  BY <1>3, <1>4, <1>5, <1>6, <1>7, <1>8 DEF Half, E

-----------------------------------------------------------------------------
(* Repartitioning *)

LEMMA LeastFacts ==
    ASSUME NEW S, S \subseteq Nat, S # {}
    PROVE  Least(S) \in S /\ \A y \in S : Least(S) <= y
<1>1. \E x \in S : \A y \in S : x <= y
  BY LeastNumber
<1> QED
  BY <1>1 DEF Least

LEMMA Times ==
    ASSUME NEW a \in Nat, NEW b \in Nat, NEW n \in Nat
    PROVE  /\ a * n \in Nat /\ (a + b) * n = a * n + b * n /\ (a + 1) * n = a * n + n
           /\ a < b => a * n + n <= b * n
           /\ a <= b => a * n <= b * n
<1>1. a * n \in Nat /\ (a + b) * n = a * n + b * n /\ (a + 1) * n = a * n + n
  OBVIOUS
<1>2. ASSUME NEW c \in Nat, NEW d \in Nat, d = c + b
      PROVE  b * n <= d * n
  <2>1. d * n = c * n + b * n /\ c * n \in Nat /\ b * n \in Nat
    BY <1>2
  <2> QED
    BY <2>1
<1>3. ASSUME NEW d \in Nat, a <= d
      PROVE  a * n <= d * n
  <2>1. PICK c \in Nat : d = c + a
    <3>1. d - a \in Nat /\ d = (d - a) + a
      BY <1>3
    <3> QED
      BY <3>1
  <2>2. d * n = c * n + a * n /\ c * n \in Nat /\ a * n \in Nat
    BY <2>1
  <2> QED
    BY <2>2
<1>4. ASSUME a < b
      PROVE  a * n + n <= b * n
  <2>1. PICK c \in Nat : b = c + (a + 1)
    <3>1. b - (a + 1) \in Nat /\ b = (b - (a + 1)) + (a + 1)
      BY <1>4
    <3> QED
      BY <3>1
  <2>2. b * n = c * n + (a + 1) * n /\ c * n \in Nat /\ (a + 1) * n \in Nat
    BY <2>1
  <2> QED
    BY <1>1, <2>2
<1> QED
  BY <1>1, <1>3, <1>4

LEMMA Quotients ==
    ASSUME NEW x \in Nat, NEW n \in Nat, n >= 1
    PROVE  x \div n \in Nat /\ (x \div n) * n <= x
OBVIOUS

\* The place of vector i of unit k, where units of num vectors lie from `from' on.
Pos(from, num, k, i) == from + (k - 1) * num + i - 1

\* What a call of Repartition uses and delivers.
Taken(s, w, from, made, num) ==
    /\ from \in Nat /\ from >= 1 /\ made \in Nat
    /\ w.synced \in BOOLEAN
    /\ w.used \in 0..Len(s) /\ from + made * num <= w.used + 1
    /\ w.out \in Seq(Units(num)) /\ Len(w.out) = made
    /\ \A k \in 1..made, i \in 1..num : w.out[k].ids[i] = s[Pos(from, num, k, i)].id

\* Each unit begins with a tag.
Regular(s, num) ==
    \A u \in Nat, i \in 1..num :
        u * num + i \in 1..Len(s) => (s[u * num + i].first <=> i = 1)

LEMMA PosFacts ==
    ASSUME NEW from \in Nat, from >= 1, NEW num \in Nat, NEW made \in Nat,
           NEW used \in Nat, from + made * num <= used + 1
    PROVE  /\ \A k \in 1..made, i \in 1..num : Pos(from, num, k, i) \in 1..used
           /\ \A k, l \in 1..made, i, j \in 1..num :
                 Before(<<k, i>>, <<l, j>>) => Pos(from, num, k, i) < Pos(from, num, l, j)
<1>1. ASSUME NEW k \in 1..made, NEW i \in 1..num
      PROVE  Pos(from, num, k, i) \in 1..used
  <2>1. PICK m \in Nat : m = k - 1
    OBVIOUS
  <2>2. m < made /\ m * num \in Nat /\ m * num + num <= made * num
    BY <2>1, Times
  <2> QED
    BY <2>1, <2>2 DEF Pos
<1>2. ASSUME NEW k \in 1..made, NEW l \in 1..made, NEW i \in 1..num, NEW j \in 1..num,
             Before(<<k, i>>, <<l, j>>)
      PROVE  Pos(from, num, k, i) < Pos(from, num, l, j)
  <2>1. PICK m \in Nat, o \in Nat : m = k - 1 /\ o = l - 1
    OBVIOUS
  <2>2. m * num \in Nat /\ o * num \in Nat
    BY Times
  <2>3. CASE k < l
    <3>1. m * num + num <= o * num
      BY <2>1, <2>3, Times
    <3> QED
      BY <2>1, <2>2, <3>1 DEF Pos
  <2>4. CASE k = l /\ i < j
    BY <2>1, <2>2, <2>4 DEF Pos
  <2> QED
    BY <1>2, <2>3, <2>4 DEF Before
<1> QED
  BY <1>1, <1>2

\* Where unit k begins, and the tags inside of it.
Start(from, num, k) == from + (k - 1) * num

\* The tags inside of unit k, behind its first vector.
Inside(left, from, num, k) ==
    {t \in left : Start(from, num, k) < t /\ t < Start(from, num, k + 1)}

LEMMA StartFacts ==
    ASSUME NEW from \in Nat, NEW num \in Nat, NEW m \in Nat
    PROVE  /\ Start(from, num, m + 1) = from + m * num
           /\ Start(from, num, m + 2) = from + m * num + num
           /\ m * num \in Nat
<1>1. (m + 1) - 1 = m /\ (m + 2) - 1 = m + 1
  OBVIOUS
<1>2. m * num \in Nat /\ (m + 1) * num = m * num + num
  BY Times
<1> QED
  BY <1>1, <1>2 DEF Start

\* Where the units of a call begin, the tags left for them, the units with a tag
\* inside, and whether the first of them is cut.
From(synced, T, n) == IF synced THEN 1 ELSE IF T = {} THEN n + 1 ELSE Least(T)

\* The tags that can still cut a unit.
Left(synced, T, from) == IF synced THEN T ELSE T \ {from}

\* The units with a tag inside, and whether the first of them is to be dropped.
Split(left, from, num, units) == {k \in 1..units : Inside(left, from, num, k) # {}}

CutAt(left, from, num, split) ==
    split # {} /\ Start(from, num, Least(split)) \notin left

LEMMA Beginning ==
    ASSUME NEW synced \in BOOLEAN, NEW n \in Nat, NEW T, T \subseteq 1..n
    PROVE  /\ From(synced, T, n) \in 1..(n + 1)
           /\ From(synced, T, n) \in Nat /\ From(synced, T, n) >= 1
           /\ (n >= 1 => 1 \in T) => From(synced, T, n) = 1
<1>1. T \subseteq Nat
  OBVIOUS
<1>2. T # {} => Least(T) \in T /\ \A y \in T : Least(T) <= y
  BY <1>1, LeastFacts
<1>3. From(synced, T, n) \in 1..(n + 1)
  <2>1. CASE synced
    BY <2>1 DEF From
  <2>2. CASE ~synced /\ T = {}
    BY <2>2 DEF From
  <2>3. CASE ~synced /\ T # {}
    <3>1. Least(T) \in 1..n /\ From(synced, T, n) = Least(T)
      BY <1>2, <2>3 DEF From
    <3> QED
      BY <3>1
  <2> QED
    BY <2>1, <2>2, <2>3
<1>4. (n >= 1 => 1 \in T) => From(synced, T, n) = 1
  BY <1>2, <1>3 DEF From
<1> QED
  BY <1>3, <1>4

\* The first unit with a tag inside, and that tag.
LEMMA FirstSplit ==
    ASSUME NEW from, NEW num, NEW left, left \subseteq Nat, NEW units \in Nat,
           Split(left, from, num, units) # {}
    PROVE  /\ Least(Split(left, from, num, units)) \in 1..units
           /\ Least(Inside(left, from, num, Least(Split(left, from, num, units))))
                 \in Inside(left, from, num, Least(Split(left, from, num, units)))
<1> DEFINE k == Least(Split(left, from, num, units))
<1>1. Split(left, from, num, units) \subseteq Nat
  BY DEF Split
<1>2. k \in Split(left, from, num, units)
  BY <1>1, LeastFacts
<1> HIDE DEF k
<1>3. k \in 1..units /\ Inside(left, from, num, k) # {}
  BY <1>2 DEF Split
<1>4. Inside(left, from, num, k) \subseteq Nat
  BY DEF Inside
<1>5. Least(Inside(left, from, num, k)) \in Inside(left, from, num, k)
  BY <1>3, <1>4, LeastFacts
<1> QED
  BY <1>3, <1>5 DEF k

\* Vectors that are tagged where the units begin have no tag inside of one.
LEMMA NoneInside ==
    ASSUME NEW s \in Seq(Vectors), NEW num \in Nat, num >= 1, Regular(s, num),
           NEW k \in Nat, k >= 1
    PROVE  Inside(Tagged(s), 1, num, k) = {}
<1> SUFFICES ASSUME NEW t \in Tagged(s), Start(1, num, k) < t, t < Start(1, num, k + 1)
             PROVE  FALSE
  BY DEF Inside
<1>1. PICK u \in Nat : k = u + 1
  <2>1. k - 1 \in Nat /\ k = (k - 1) + 1
    OBVIOUS
  <2> QED
    BY <2>1
<1>2. Start(1, num, u + 1) = 1 + u * num /\ Start(1, num, u + 2) = 1 + u * num + num
      /\ u * num \in Nat
  <2>1. 1 \in Nat
    OBVIOUS
  <2> QED
    BY <2>1, StartFacts
<1>3. PICK un \in Nat : un = u * num
  BY <1>2
<1>4. t \in 1..Len(s) /\ s[t].first /\ Len(s) \in Nat
  BY LineFacts DEF Tagged
<1>5. 1 + un < t /\ t < 1 + un + num
  <2>1. k + 1 = u + 2
    BY <1>1
  <2> QED
    BY <1>1, <1>2, <1>3, <2>1
<1>6. PICK i \in 1..num : t = un + i /\ i # 1
  <2>1. t - un \in 1..num /\ t = un + (t - un) /\ t - un # 1
    BY <1>4, <1>5
  <2> QED
    BY <2>1
<1> QED
  BY <1>3, <1>4, <1>6 DEF Regular

LEMMA RepartitionFacts ==
    ASSUME NEW synced \in BOOLEAN, NEW s \in Seq(Vectors), NEW room \in Nat,
           NEW num \in Nat, num >= 1, NEW w, w = Repartition(synced, s, room, num)
    PROVE  \E from, made : /\ Taken(s, w, from, made, num)
                           /\ Regular(s, num) => from = 1 /\ w.used = made * num
<1> DEFINE T == Tagged(s)
           from == From(synced, T, Len(s))
           left == Left(synced, T, from)
           whole == (Len(s) - (from - 1)) \div num
           units == IF whole <= room THEN whole ELSE room
           split == Split(left, from, num, units)
           cut == CutAt(left, from, num, split)
           made == IF cut THEN Least(split) - 1 ELSE units
           told(k) == Start(from, num, k) \in left /\ (split = {} \/ k <= Least(split))
<1>1. /\ Len(s) \in Nat /\ T \subseteq 1..Len(s)
      /\ \A i \in 1..Len(s) : s[i].id \in Ids
  BY LineFacts DEF Tagged
<1>2. w = [synced |-> synced \/ T # {},
           used |-> IF cut THEN Least(Inside(left, from, num, Least(split))) - 1
                    ELSE Start(from, num, units + 1) - 1,
           out |-> [k \in 1..made |->
                      [ids |-> [i \in 1..num |-> s[Start(from, num, k) + i - 1].id],
                       first |-> told(k)]]]
  BY DEF Repartition, Start, Inside, From, Left, Split, CutAt
<1>3. /\ w.synced = (synced \/ T # {})
      /\ w.used = IF cut THEN Least(Inside(left, from, num, Least(split))) - 1
                  ELSE Start(from, num, units + 1) - 1
      /\ w.out = [k \in 1..made |->
                    [ids |-> [i \in 1..num |-> s[Start(from, num, k) + i - 1].id],
                     first |-> told(k)]]
  BY <1>2
<1> HIDE DEF T
<1>4. /\ from \in 1..(Len(s) + 1) /\ from \in Nat /\ from >= 1
      /\ (Len(s) >= 1 => 1 \in T) => from = 1
  BY <1>1, Beginning
<1> HIDE DEF from
<1>5. left \subseteq T /\ left \subseteq Nat
  <2>1. left \subseteq T
    BY DEF Left
  <2> HIDE DEF left
  <2> QED
    BY <1>1, <2>1
<1> HIDE DEF left
<1>6. units \in Nat /\ units * num <= Len(s) - (from - 1) /\ units * num \in Nat
  <2>1. Len(s) - (from - 1) \in Nat
    BY <1>1, <1>4
  <2>2. whole \in Nat /\ whole * num <= Len(s) - (from - 1)
    BY <2>1, Quotients
  <2> HIDE DEF whole
  <2>3. units \in Nat /\ units <= whole
    BY <2>2
  <2> HIDE DEF units
  <2>4. units * num <= whole * num /\ units * num \in Nat /\ whole * num \in Nat
    BY <2>2, <2>3, Times
  <2> QED
    BY <2>1, <2>2, <2>3, <2>4
<1>7. split # {} => /\ Least(split) \in 1..units
                    /\ Least(Inside(left, from, num, Least(split)))
                          \in Inside(left, from, num, Least(split))
  BY <1>5, <1>6, FirstSplit
<1> HIDE DEF units, split
<1>8. made \in Nat /\ made <= units /\ (cut => Least(split) = made + 1)
  BY <1>6, <1>7 DEF CutAt
<1> HIDE DEF made
<1>9. w.used \in 0..Len(s) /\ from + made * num <= w.used + 1
  <2>1. CASE cut
    <3>1. PICK t : t = Least(Inside(left, from, num, made + 1))
      OBVIOUS
    <3>2. t \in Inside(left, from, num, made + 1) /\ w.used = t - 1
      BY <1>3, <1>7, <1>8, <2>1, <3>1 DEF CutAt
    <3>3. t \in 1..Len(s) /\ Start(from, num, made + 1) < t
      BY <1>1, <1>5, <3>2 DEF Inside
    <3>4. Start(from, num, made + 1) = from + made * num /\ made * num \in Nat
      BY <1>4, <1>8, StartFacts
    <3> QED
      BY <1>1, <1>4, <3>2, <3>3, <3>4
  <2>2. CASE ~cut
    <3>1. w.used = Start(from, num, units + 1) - 1 /\ made = units
      BY <1>3, <2>2 DEF made
    <3>2. Start(from, num, units + 1) = from + units * num
      BY <1>4, <1>6, StartFacts
    <3> QED
      BY <1>1, <1>4, <1>6, <3>1, <3>2
  <2> QED
    BY <2>1, <2>2
<1>10. ASSUME Regular(s, num)
       PROVE  from = 1 /\ w.used = made * num
  <2>1. Len(s) >= 1 => 1 \in T
    <3>1. 0 * num + 1 = 1 /\ 1 \in 1..num /\ 0 \in Nat
      OBVIOUS
    <3>2. 0 * num + 1 \in 1..Len(s) => (s[0 * num + 1].first <=> 1 = 1)
      BY <1>10, <3>1 DEF Regular
    <3>3. Len(s) >= 1 => s[1].first
      BY <1>1, <3>1, <3>2
    <3> QED
      BY <1>1, <3>3 DEF T, Tagged
  <2>2. from = 1
    BY <1>4, <2>1
  <2>3. split = {}
    <3> SUFFICES ASSUME NEW k \in 1..units
                 PROVE  Inside(left, 1, num, k) = {}
      BY <2>2 DEF split, Split
    <3>1. k \in Nat /\ k >= 1
      BY <1>6
    <3>2. Inside(Tagged(s), 1, num, k) = {}
      BY <1>10, <3>1, NoneInside
    <3> QED
      BY <1>5, <3>2 DEF T, Inside
  <2>4. ~cut
    BY <2>3 DEF CutAt
  <2>5. w.used = Start(from, num, units + 1) - 1 /\ made = units
    BY <1>3, <2>4 DEF made
  <2>6. Start(from, num, units + 1) = 1 + units * num
    BY <1>4, <1>6, <2>2, StartFacts
  <2> QED
    BY <1>6, <2>2, <2>5, <2>6
<1>11. ASSUME NEW k \in 1..made
       PROVE  told(k) \in BOOLEAN
  OBVIOUS
<1>12. ASSUME NEW k \in 1..made, NEW i \in 1..num
       PROVE  /\ s[Start(from, num, k) + i - 1].id \in Ids
              /\ Pos(from, num, k, i) = Start(from, num, k) + i - 1
  <2>1. Pos(from, num, k, i) = Start(from, num, k) + i - 1
    BY DEF Pos, Start
  <2>2. w.used \in Nat /\ w.used <= Len(s)
    BY <1>1, <1>9
  <2>3. Pos(from, num, k, i) \in 1..w.used
    BY <1>4, <1>8, <1>9, <2>2, PosFacts
  <2> QED
    BY <1>1, <2>1, <2>2, <2>3
<1> HIDE DEF told
<1>13. ASSUME NEW k \in 1..made
       PROVE  w.out[k] \in Units(num)
  <2>1. [i \in 1..num |-> s[Start(from, num, k) + i - 1].id] \in [1..num -> Ids]
    BY <1>12
  <2>2. w.out[k] = [ids |-> [i \in 1..num |-> s[Start(from, num, k) + i - 1].id],
                    first |-> told(k)]
    BY <1>3
  <2> QED
    BY <1>11, <2>1, <2>2 DEF Units
<1>14. w.out \in Seq(Units(num)) /\ Len(w.out) = made
  <2>1. w.out \in [1..made -> Units(num)]
    BY <1>3, <1>13
  <2> QED
    BY <1>8, <2>1
<1>15. \A k \in 1..made, i \in 1..num : w.out[k].ids[i] = s[Pos(from, num, k, i)].id
  BY <1>3, <1>12
<1>16. w.synced \in BOOLEAN
  BY <1>3
<1>17. Taken(s, w, from, made, num)
  BY <1>4, <1>8, <1>9, <1>14, <1>15, <1>16 DEF Taken
<1> QED
  BY <1>10, <1>17

-----------------------------------------------------------------------------
(* Units delivered *)

LEMMA Joined ==
    ASSUME NEW S, NEW a \in Seq(S), NEW b \in Seq(S)
    PROVE  /\ a \o b \in Seq(S) /\ Len(a \o b) = Len(a) + Len(b)
           /\ Len(a) \in Nat /\ Len(b) \in Nat
           /\ \A i \in 1..Len(a) : (a \o b)[i] = a[i]
           /\ \A i \in 1..Len(b) : (a \o b)[Len(a) + i] = b[i]
           /\ \A i \in 1..Len(a \o b) :
                 i \in 1..Len(a) \/ (i - Len(a) \in 1..Len(b) /\ i = Len(a) + (i - Len(a)))
<1>1. a \o b \in Seq(S) /\ Len(a \o b) = Len(a) + Len(b)
  BY ConcatProperties
<1>2. Len(a) \in Nat /\ Len(b) \in Nat
  BY LenProperties
<1>3. \A i \in 1..Len(a) + Len(b) : (a \o b)[i] = IF i <= Len(a) THEN a[i] ELSE b[i - Len(a)]
  BY ConcatProperties
<1>4. \A i \in 1..Len(a) : (a \o b)[i] = a[i]
  BY <1>2, <1>3
<1>5. ASSUME NEW i \in 1..Len(b)
      PROVE  (a \o b)[Len(a) + i] = b[i]
  <2>1. Len(a) + i \in 1..Len(a) + Len(b) /\ ~(Len(a) + i <= Len(a)) /\ Len(a) + i - Len(a) = i
    BY <1>2
  <2> QED
    BY <1>3, <2>1
<1>6. \A i \in 1..Len(a \o b) :
         i \in 1..Len(a) \/ (i - Len(a) \in 1..Len(b) /\ i = Len(a) + (i - Len(a)))
  BY <1>1, <1>2
<1> QED
  BY <1>1, <1>2, <1>4, <1>5, <1>6

LEMMA RestFacts ==
    ASSUME NEW S, NEW s \in Seq(S), NEW n \in 0..Len(s)
    PROVE  /\ Rest(s, n) \in Seq(S) /\ Len(Rest(s, n)) = Len(s) - n
           /\ Len(s) \in Nat /\ n \in Nat
           /\ \A i \in 1..Len(Rest(s, n)) : n + i \in 1..Len(s) /\ Rest(s, n)[i] = s[n + i]
<1>1. Len(s) \in Nat /\ n \in Nat /\ n <= Len(s)
  BY LenProperties
<1>2. \A i \in (n + 1)..Len(s) : s[i] \in S
  BY <1>1, ElementOfSeq
<1>3. /\ Rest(s, n) \in Seq(S)
      /\ Len(Rest(s, n)) = IF n + 1 <= Len(s) THEN Len(s) - (n + 1) + 1 ELSE 0
      /\ \A i \in 1..(Len(s) - (n + 1) + 1) : Rest(s, n)[i] = s[n + 1 + i - 1]
  BY <1>1, <1>2, SubSeqProperties DEF Rest
<1>4. Len(Rest(s, n)) = Len(s) - n
  BY <1>1, <1>3
<1>5. ASSUME NEW i \in 1..Len(Rest(s, n))
      PROVE  n + i \in 1..Len(s) /\ Rest(s, n)[i] = s[n + i]
  <2>1. i \in 1..(Len(s) - n) /\ i \in Int
    BY <1>1, <1>4
  <2>2. n + i \in 1..Len(s) /\ i \in 1..(Len(s) - (n + 1) + 1) /\ n + 1 + i - 1 = n + i
    BY <1>1, <2>1
  <2> QED
    BY <1>3, <2>2
<1> QED
  BY <1>1, <1>3, <1>4, <1>5

\* The sequence c is a followed by b.
IsConcat(c, a, b) ==
    /\ Len(a) \in Nat
    /\ \A i \in 1..Len(a) : c[i] = a[i]
    /\ \A i \in 1..Len(b) : c[Len(a) + i] = b[i]
    /\ \A i \in 1..Len(c) :
          i \in 1..Len(a) \/ (i - Len(a) \in 1..Len(b) /\ i = Len(a) + (i - Len(a)))

LEMMA Concat ==
    ASSUME NEW S, NEW a \in Seq(S), NEW b \in Seq(S)
    PROVE  IsConcat(a \o b, a, b)
BY Joined DEF IsConcat

LEMMA UnitsBeforeMore ==
    ASSUME NEW num \in Nat, NEW units \in Seq(Units(num)), NEW out \in Seq(Units(num)), NEW id,
           UnitsBefore(units, id), UnitsBefore(out, id)
    PROVE  UnitsBefore(units \o out, id)
<1>1. PICK more : more = units \o out /\ IsConcat(more, units, out)
  BY Concat
<1>2. /\ Len(units) \in Nat
      /\ \A j \in 1..Len(units) : more[j] = units[j]
      /\ \A j \in 1..Len(out) : more[Len(units) + j] = out[j]
      /\ \A j \in 1..Len(more) :
            \/ j \in 1..Len(units)
            \/ j - Len(units) \in 1..Len(out) /\ j = Len(units) + (j - Len(units))
  BY <1>1 DEF IsConcat
<1> SUFFICES ASSUME NEW j \in 1..Len(more)
             PROVE  \A i \in DOMAIN more[j].ids : Precedes(more[j].ids[i], id)
  BY <1>1 DEF UnitsBefore
<1>3. CASE j \in 1..Len(units)
  BY <1>2, <1>3 DEF UnitsBefore
<1>4. CASE j - Len(units) \in 1..Len(out)
  <2>1. PICK k \in 1..Len(out) : j = Len(units) + k /\ more[j] = out[k]
    <3>1. PICK k \in 1..Len(out) : k = j - Len(units)
      BY <1>4
    <3>2. j = Len(units) + k
      BY <1>2, <3>1
    <3> QED
      BY <1>2, <3>2
  <2> QED
    BY <2>1 DEF UnitsBefore
<1> QED
  BY <1>2, <1>3, <1>4

\* Every vector of the new units is one of those used, each at its place.
Originates(w, s, from, made, num) ==
    /\ w.out \in Seq(Units(num)) /\ Len(w.out) = made /\ made \in Nat
    /\ w.used \in 0..Len(s) /\ w.used \in Nat
    /\ \A k \in 1..made : DOMAIN w.out[k].ids = 1..num
    /\ \A k \in 1..made, i \in 1..num :
          /\ Pos(from, num, k, i) \in 1..w.used /\ Pos(from, num, k, i) \in 1..Len(s)
          /\ w.out[k].ids[i] = s[Pos(from, num, k, i)].id
    /\ \A k, l \in 1..made, i, j \in 1..num :
          Before(<<k, i>>, <<l, j>>) => Pos(from, num, k, i) < Pos(from, num, l, j)

LEMMA Origin ==
    ASSUME NEW num \in Nat, NEW s \in Seq(Vectors), NEW w, NEW from, NEW made,
           Taken(s, w, from, made, num)
    PROVE  Originates(w, s, from, made, num)
<1>1. /\ from \in Nat /\ from >= 1 /\ made \in Nat
      /\ w.used \in 0..Len(s) /\ from + made * num <= w.used + 1
      /\ w.out \in Seq(Units(num)) /\ Len(w.out) = made
      /\ \A k \in 1..made, i \in 1..num : w.out[k].ids[i] = s[Pos(from, num, k, i)].id
  BY DEF Taken
<1>2. Len(s) \in Nat /\ w.used \in Nat /\ w.used <= Len(s)
  BY <1>1, LineFacts
<1>3. /\ \A k \in 1..made, i \in 1..num : Pos(from, num, k, i) \in 1..w.used
      /\ \A k, l \in 1..made, i, j \in 1..num :
            Before(<<k, i>>, <<l, j>>) => Pos(from, num, k, i) < Pos(from, num, l, j)
  BY <1>1, <1>2, PosFacts
<1>4. \A k \in 1..made : DOMAIN w.out[k].ids = 1..num
  BY <1>1, UnitFacts
<1>5. \A x \in 1..w.used : x \in 1..Len(s)
  BY <1>2
<1> QED
  BY <1>1, <1>2, <1>3, <1>4, <1>5 DEF Originates

LEMMA OrderDelivered ==
    ASSUME NEW num \in Nat, NEW units \in Seq(Units(num)), NEW pend \in Seq(Vectors),
           NEW line \in Seq(Vectors), NEW p, NEW w, NEW from, NEW made,
           Taken(pend, w, from, made, num), Ordered(units, pend, line, p)
    PROVE  Ordered(units \o w.out, Rest(pend, w.used), line, p)
<1>1. /\ w.out \in Seq(Units(num)) /\ Len(w.out) = made /\ made \in Nat
      /\ w.used \in 0..Len(pend) /\ w.used \in Nat
      /\ \A k \in 1..made : DOMAIN w.out[k].ids = 1..num
      /\ \A k \in 1..made, i \in 1..num :
            /\ Pos(from, num, k, i) \in 1..w.used /\ Pos(from, num, k, i) \in 1..Len(pend)
            /\ w.out[k].ids[i] = pend[Pos(from, num, k, i)].id
      /\ \A k, l \in 1..made, i, j \in 1..num :
            Before(<<k, i>>, <<l, j>>) => Pos(from, num, k, i) < Pos(from, num, l, j)
  BY Origin DEF Originates
<1>2. PICK rest : rest = Rest(pend, w.used)
  OBVIOUS
<1>3. /\ Len(pend) \in Nat /\ Len(rest) = Len(pend) - w.used
      /\ \A i \in 1..Len(rest) : w.used + i \in 1..Len(pend) /\ rest[i] = pend[w.used + i]
  <2>1. PICK n \in 0..Len(pend) : n = w.used
    BY <1>1
  <2>2. /\ Len(pend) \in Nat /\ Len(Rest(pend, n)) = Len(pend) - n
        /\ \A i \in 1..Len(Rest(pend, n)) :
              n + i \in 1..Len(pend) /\ Rest(pend, n)[i] = pend[n + i]
    BY RestFacts
  <2> QED
    BY <1>2, <2>1, <2>2
<1>4. PICK more : more = units \o w.out
  OBVIOUS
<1>5. /\ Len(units) \in Nat
      /\ \A j \in 1..Len(units) : more[j] = units[j]
      /\ \A j \in 1..made : more[Len(units) + j] = w.out[j]
      /\ \A j \in 1..Len(more) :
            j \in 1..Len(units) \/ (j - Len(units) \in 1..made /\ j = Len(units) + (j - Len(units)))
  BY <1>1, <1>4, Joined
<1>6. /\ UnitsInOrder(units) /\ Ascending(pend) /\ Ascending(line)
      /\ UnitsBefore(units, p) /\ AllBefore(pend, p) /\ AllBefore(line, p)
      /\ \A i \in 1..Len(pend) : UnitsBefore(units, pend[i].id)
      /\ \A i \in 1..Len(line) : UnitsBefore(units, line[i].id) /\ AllBefore(pend, line[i].id)
  BY DEF Ordered
<1>7. ASSUME NEW id, UnitsBefore(units, id), AllBefore(pend, id)
      PROVE  UnitsBefore(more, id) /\ AllBefore(rest, id)
  <2>1. UnitsBefore(w.out, id)
    <3> SUFFICES ASSUME NEW k \in 1..made, NEW i \in 1..num
                 PROVE  Precedes(w.out[k].ids[i], id)
      BY <1>1 DEF UnitsBefore
    <3>1. PICK x \in 1..Len(pend) : w.out[k].ids[i] = pend[x].id
      BY <1>1
    <3> QED
      BY <1>7, <3>1 DEF AllBefore
  <2> QED
    BY <1>1, <1>3, <1>4, <1>7, <2>1, UnitsBeforeMore DEF AllBefore
<1>8. UnitsBefore(more, p) /\ AllBefore(rest, p)
  BY <1>6, <1>7
<1>9. \A i \in 1..Len(line) : UnitsBefore(more, line[i].id) /\ AllBefore(rest, line[i].id)
  BY <1>6, <1>7
<1>10. Ascending(rest)
  <2> SUFFICES ASSUME NEW i \in 1..Len(rest), NEW j \in 1..Len(rest), i < j
               PROVE  Precedes(rest[i].id, rest[j].id)
    BY DEF Ascending
  <2>1. w.used + i \in 1..Len(pend) /\ w.used + j \in 1..Len(pend) /\ w.used + i < w.used + j
    BY <1>1, <1>3
  <2> QED
    BY <1>3, <1>6, <2>1 DEF Ascending
<1>11. ASSUME NEW n \in 1..Len(rest)
       PROVE  UnitsBefore(more, rest[n].id)
  <2>1. PICK m \in 1..Len(pend) : m > w.used /\ rest[n] = pend[m]
    <3>1. PICK m \in 1..Len(pend) : m = w.used + n
      BY <1>3
    <3>2. m > w.used
      BY <1>1, <1>3, <3>1
    <3> QED
      BY <1>3, <3>1, <3>2
  <2>2. ASSUME NEW k \in 1..made, NEW i \in 1..num
        PROVE  Precedes(w.out[k].ids[i], pend[m].id)
    <3>1. PICK x \in 1..Len(pend) : x = Pos(from, num, k, i) /\ x \in 1..w.used
      BY <1>1
    <3>2. x < m
      <4>1. m \in Nat /\ x \in Nat /\ x <= w.used
        BY <1>1, <1>3, <3>1
      <4> QED
        BY <1>1, <2>1, <4>1
    <3>3. w.out[k].ids[i] = pend[x].id
      BY <1>1, <3>1
    <3> QED
      BY <1>6, <3>2, <3>3 DEF Ascending
  <2>3. UnitsBefore(w.out, pend[m].id)
    BY <1>1, <2>2 DEF UnitsBefore
  <2>4. UnitsBefore(units, pend[m].id)
    BY <1>6
  <2> QED
    BY <1>1, <1>4, <2>1, <2>3, <2>4, UnitsBeforeMore
<1>12. UnitsInOrder(more)
  <2> SUFFICES ASSUME NEW j \in 1..Len(more), NEW k \in 1..Len(more),
                      NEW i \in DOMAIN more[j].ids, NEW l \in DOMAIN more[k].ids,
                      Before(<<j, i>>, <<k, l>>)
               PROVE  Precedes(more[j].ids[i], more[k].ids[l])
    BY DEF UnitsInOrder, Precedes
  <2>1. \A n \in 1..Len(more) :
           (n \in 1..Len(units)) \/ (\E m \in 1..made : n = Len(units) + m /\ more[n] = w.out[m])
    BY <1>5
  <2>2. j \in Nat /\ k \in Nat /\ Len(units) \in Nat /\ j <= k
    BY <1>5 DEF Before
  <2>3. CASE j \in 1..Len(units) /\ k \in 1..Len(units)
    BY <1>5, <1>6, <2>3 DEF UnitsInOrder, Precedes
  <2>4. CASE j \in 1..Len(units) /\ k \notin 1..Len(units)
    <3>1. PICK m \in 1..made : more[k] = w.out[m]
      BY <2>1, <2>4
    <3>2. l \in 1..num
      BY <1>1, <3>1
    <3>3. PICK x \in 1..Len(pend) : more[k].ids[l] = pend[x].id
      BY <1>1, <3>1, <3>2, ZenonT(30)
    <3> QED
      BY <1>5, <1>6, <2>4, <3>3 DEF UnitsBefore
  <2>5. CASE j \notin 1..Len(units)
    <3>1. PICK m \in 1..made, o \in 1..made : /\ j = Len(units) + m /\ more[j] = w.out[m]
                                             /\ k = Len(units) + o /\ more[k] = w.out[o]
      <4>1. k \notin 1..Len(units)
        BY <2>2, <2>5
      <4>2. PICK m \in 1..made : j = Len(units) + m /\ more[j] = w.out[m]
        BY <2>1, <2>5
      <4>3. PICK o \in 1..made : k = Len(units) + o /\ more[k] = w.out[o]
        BY <2>1, <4>1
      <4> QED
        BY <4>2, <4>3
    <3>2. i \in 1..num /\ l \in 1..num
      BY <1>1, <3>1
    <3>3. Before(<<m, i>>, <<o, l>>)
      BY <2>2, <3>1 DEF Before
    <3>4. PICK x, y : x = Pos(from, num, m, i) /\ y = Pos(from, num, o, l)
      OBVIOUS
    <3>5. /\ x \in 1..Len(pend) /\ more[j].ids[i] = pend[x].id
          /\ y \in 1..Len(pend) /\ more[k].ids[l] = pend[y].id
      BY <1>1, <3>1, <3>2, <3>4
    <3>6. x < y
      BY <1>1, <3>2, <3>3, <3>4
    <3> QED
      BY <1>6, <3>5, <3>6 DEF Ascending
  <2> QED
    BY <2>3, <2>4, <2>5
<1> QED
  BY <1>2, <1>4, <1>6, <1>8, <1>9, <1>10, <1>11, <1>12 DEF Ordered

\* What is pending begins with a unit.
LEMMA Begun ==
    ASSUME NEW num \in Nat, num >= 1, NEW skip \in Nat, NEW units,
           NEW pend \in Seq(Vectors), NEW id, Upcoming(id, num, skip) \in Pairs,
           Framed(units, pend, id, num, skip)
    PROVE  Regular(pend, num)
<1>1. PICK b \in Pairs : b = Upcoming(id, num, skip)
  OBVIOUS
<1>2. PICK T : T = Trail(pend, b)
  OBVIOUS
<1>3. /\ DOMAIN T = 1..(Len(pend) + 1) /\ Len(pend) \in Nat
      /\ \A i \in 1..Len(pend) : T[i] = pend[i].id
  BY <1>2, TrailFacts
<1>4. SUFFICES ASSUME NEW u \in Nat, NEW i \in 1..num, u * num + i \in 1..Len(pend)
               PROVE  pend[u * num + i].first <=> i = 1
  BY DEF Regular
<1>5. PICK n \in 1..Len(pend) : n = u * num + i
  BY <1>4
<1>6. Due(units, T, num, skip, u, i)
  BY <1>1, <1>2 DEF Framed
<1>7. T[n] = <<Len(units) + 1 + u, skip + i>>
  BY <1>3, <1>5, <1>6 DEF Due
<1>8. pend[n].id[2] = skip + i
  BY <1>3, <1>7
<1>9. pend[n].first <=> pend[n].id[2] = skip + 1
  BY DEF Framed
<1> QED
  BY <1>5, <1>8, <1>9

\* Whole frames are delivered, and what stays is in place behind them.
LEMMA FramedDelivered ==
    ASSUME NEW num \in Nat, num >= 1, NEW skip \in Nat, NEW units \in Seq(Units(num)),
           NEW pend \in Seq(Vectors), NEW id, Upcoming(id, num, skip) \in Pairs,
           NEW w, NEW made, Taken(pend, w, 1, made, num), w.used = made * num,
           Framed(units, pend, id, num, skip)
    PROVE  Framed(units \o w.out, Rest(pend, w.used), id, num, skip)
<1>1. /\ w.out \in Seq(Units(num)) /\ Len(w.out) = made /\ made \in Nat
      /\ w.used \in 0..Len(pend) /\ w.used \in Nat
      /\ \A k \in 1..made : DOMAIN w.out[k].ids = 1..num
      /\ \A k \in 1..made, i \in 1..num :
            /\ Pos(1, num, k, i) \in 1..Len(pend)
            /\ w.out[k].ids[i] = pend[Pos(1, num, k, i)].id
  BY Origin DEF Originates
<1>2. PICK used, rest : used = w.used /\ rest = Rest(pend, used) /\ used \in 0..Len(pend)
  BY <1>1
<1>3. /\ Len(pend) \in Nat /\ rest \in Seq(Vectors) /\ Len(rest) = Len(pend) - used /\ used \in Nat
      /\ \A i \in 1..Len(rest) : used + i \in 1..Len(pend) /\ rest[i] = pend[used + i]
  BY <1>2, RestFacts
<1>4. PICK more : more = units \o w.out
  OBVIOUS
<1>5. /\ Len(units) \in Nat /\ Len(more) = Len(units) + made
      /\ \A j \in 1..Len(units) : more[j] = units[j]
      /\ \A j \in 1..made : more[Len(units) + j] = w.out[j]
      /\ \A j \in 1..Len(more) :
            j \in 1..Len(units) \/ (j - Len(units) \in 1..made /\ j = Len(units) + (j - Len(units)))
  <2>1. PICK out \in Seq(Units(num)) : out = w.out
    BY <1>1
  <2>2. /\ Len(units \o out) = Len(units) + Len(out)
        /\ Len(units) \in Nat
        /\ \A i \in 1..Len(units) : (units \o out)[i] = units[i]
        /\ \A i \in 1..Len(out) : (units \o out)[Len(units) + i] = out[i]
        /\ \A i \in 1..Len(units \o out) :
              \/ i \in 1..Len(units)
              \/ i - Len(units) \in 1..Len(out) /\ i = Len(units) + (i - Len(units))
    BY Joined
  <2>3. Len(out) = made
    BY <1>1, <2>1
  <2> QED
    BY <1>4, <2>1, <2>2, <2>3
<1>6. PICK b \in Pairs : b = Upcoming(id, num, skip)
  OBVIOUS
<1>7. PICK T, R : T = Trail(pend, b) /\ R = Trail(rest, b)
  OBVIOUS
<1>8. /\ DOMAIN T = 1..(Len(pend) + 1) /\ T[Len(pend) + 1] = b
      /\ \A i \in 1..Len(pend) : T[i] = pend[i].id
      /\ DOMAIN R = 1..(Len(rest) + 1) /\ R[Len(rest) + 1] = b
      /\ \A i \in 1..Len(rest) : R[i] = rest[i].id
  BY <1>3, <1>7, TrailFacts
<1>9. ASSUME NEW i \in DOMAIN R
      PROVE  used + i \in DOMAIN T /\ R[i] = T[used + i]
  <2>1. CASE i \in 1..Len(rest)
    <3>1. used + i \in 1..Len(pend) /\ R[i] = pend[used + i].id
      BY <1>3, <1>8, <2>1
    <3>2. used + i \in 1..(Len(pend) + 1)
      BY <1>3, <3>1
    <3> QED
      BY <1>8, <3>1, <3>2
  <2>2. CASE i = Len(rest) + 1
    BY <1>3, <1>8, <2>2
  <2> QED
    BY <1>3, <1>8, <1>9, <2>1, <2>2
<1>10. \A u \in Nat, i \in 1..num : Due(units, T, num, skip, u, i)
  BY <1>6, <1>7 DEF Framed
<1>11. ASSUME NEW k \in 1..made, NEW i \in 1..num
       PROVE  w.out[k].ids[i] = <<Len(units) + k, skip + 1 + i - 1>>
  <2>1. PICK u \in Nat : k = u + 1
    <3>1. k - 1 \in Nat /\ k = (k - 1) + 1
      BY <1>1
    <3> QED
      BY <3>1
  <2>2. PICK un \in Nat : un = u * num
    BY Times
  <2>3. Pos(1, num, k, i) = un + i
    <3>1. k - 1 = u
      BY <2>1
    <3> QED
      BY <2>2, <3>1 DEF Pos
  <2>4. un + i \in 1..Len(pend) /\ w.out[k].ids[i] = T[un + i]
    BY <1>1, <1>8, <2>3, ZenonT(30)
  <2>5. Due(units, T, num, skip, u, i)
    BY <1>10
  <2>6. T[un + i] = <<Len(units) + 1 + u, skip + i>>
    BY <1>3, <1>8, <2>2, <2>4, <2>5 DEF Due
  <2> QED
    BY <1>5, <2>1, <2>4, <2>6
<1>12. WholeFrames(more, skip + 1)
  <2> SUFFICES ASSUME NEW j \in 1..Len(more), NEW i \in DOMAIN more[j].ids
               PROVE  more[j].ids[i] = <<j, skip + 1 + i - 1>>
    BY DEF WholeFrames
  <2>1. CASE j \in 1..Len(units)
    BY <1>5, <2>1 DEF Framed, WholeFrames
  <2>2. CASE j - Len(units) \in 1..made
    <3>1. PICK k \in 1..made : k = j - Len(units)
      BY <2>2
    <3>2. j = Len(units) + k /\ more[j] = w.out[k]
      BY <1>5, <3>1
    <3>3. i \in 1..num
      BY <1>1, <3>2
    <3> QED
      BY <1>11, <3>2, <3>3
  <2> QED
    BY <1>5, <2>1, <2>2
<1>13. ASSUME NEW i \in 1..Len(rest)
       PROVE  rest[i].first <=> rest[i].id[2] = skip + 1
  BY <1>3 DEF Framed
<1>14. ASSUME NEW u \in Nat, NEW i \in 1..num
       PROVE  Due(more, R, num, skip, u, i)
  <2>1. PICK un \in Nat, v \in Nat : un = u * num /\ v = u + made
    BY <1>1, Times
  <2> SUFFICES ASSUME un + i \in DOMAIN R
               PROVE  R[un + i] = <<Len(more) + 1 + u, skip + i>>
    BY <2>1 DEF Due
  <2>2. v * num + i = used + (un + i)
    <3>1. PICK mn \in Nat : mn = made * num /\ used = mn
      BY <1>2
    <3>2. (u + made) * num = u * num + made * num
      BY <1>1, Times
    <3>3. v * num = un + mn
      BY <2>1, <3>1, <3>2
    <3> QED
      BY <2>1, <3>1, <3>3
  <2>3. used + (un + i) \in DOMAIN T /\ R[un + i] = T[used + (un + i)]
    BY <1>9
  <2>4. Due(units, T, num, skip, v, i)
    BY <1>10
  <2>5. T[used + (un + i)] = <<Len(units) + 1 + v, skip + i>>
    BY <2>2, <2>3, <2>4 DEF Due
  <2> QED
    <3>1. Len(units) + 1 + v = Len(more) + 1 + u
      BY <1>1, <1>5, <2>1
    <3> QED
      BY <2>3, <2>5, <3>1
<1> QED
  BY <1>2, <1>4, <1>6, <1>7, <1>12, <1>13, <1>14 DEF Framed

\* What a call of repartition_vectors starts from.
DeliverReady(lost, fresh, units, pend, index, line, p, num, skip, synced, room) ==
    /\ fresh \in BOOLEAN /\ num \in Nat /\ num >= 1 /\ skip \in Nat
    /\ units \in Seq(Units(num)) /\ pend \in Seq(Vectors) /\ line \in Seq(Vectors)
    /\ p \in Pairs /\ Symbol(p) /\ synced \in BOOLEAN /\ room \in Nat
    /\ Half(lost, fresh, units, pend, index, line, p, num, skip)

\* What it leaves: its half of the chain, with w delivered.
Delivered(lost, fresh, units, pend, index, line, p, num, skip, w) ==
    /\ w.synced \in BOOLEAN
    /\ units \o w.out \in Seq(Units(num))
    /\ Rest(pend, w.used) \in Seq(Vectors) /\ Len(Rest(pend, w.used)) <= Len(pend)
    /\ Half(lost, fresh, units \o w.out, Rest(pend, w.used), index, line, p, num, skip)

LEMMA HalfDelivered ==
    ASSUME NEW lost, NEW fresh, NEW units, NEW pend, NEW index, NEW line, NEW p, NEW num,
           NEW skip, NEW synced, NEW room,
           DeliverReady(lost, fresh, units, pend, index, line, p, num, skip, synced, room)
    PROVE  Delivered(lost, fresh, units, pend, index, line, p, num, skip,
                     Repartition(synced, pend, room, num))
<1> PICK w : w = Repartition(synced, pend, room, num)
  OBVIOUS
<1> SUFFICES ASSUME fresh \in BOOLEAN, num \in Nat, num >= 1, skip \in Nat,
                    units \in Seq(Units(num)), pend \in Seq(Vectors), line \in Seq(Vectors),
                    p \in Pairs, Symbol(p), synced \in BOOLEAN, room \in Nat,
                    Half(lost, fresh, units, pend, index, line, p, num, skip)
             PROVE  /\ w.synced \in BOOLEAN
                    /\ units \o w.out \in Seq(Units(num))
                    /\ Rest(pend, w.used) \in Seq(Vectors)
                    /\ Len(Rest(pend, w.used)) <= Len(pend)
                    /\ Half(lost, fresh, units \o w.out, Rest(pend, w.used), index, line, p,
                            num, skip)
  BY DEF DeliverReady, Delivered
<1>1. PICK from, made : /\ Taken(pend, w, from, made, num)
                        /\ Regular(pend, num) => from = 1 /\ w.used = made * num
  BY RepartitionFacts
<1>2. PICK id : id = Trail(line, First(p))[1]
  OBVIOUS
<1>3. /\ LineIds(line) /\ Run(lost, Trail(line, First(p)))
      /\ IndexRight(lost, fresh, index, id, skip + num)
      /\ InWindow(lost, pend, num, skip) /\ UnitsInWindow(lost, units, num, skip)
      /\ Ordered(units, pend, line, p)
      /\ fresh => Linked(Trail(line, First(p))) /\ Framed(units, pend, id, num, skip)
  BY <1>2 DEF Half
<1>4. /\ w.out \in Seq(Units(num)) /\ Len(w.out) = made /\ made \in Nat
      /\ w.used \in 0..Len(pend) /\ w.used \in Nat
      /\ \A k \in 1..made : DOMAIN w.out[k].ids = 1..num
      /\ \A k \in 1..made, i \in 1..num :
            /\ Pos(from, num, k, i) \in 1..Len(pend)
            /\ w.out[k].ids[i] = pend[Pos(from, num, k, i)].id
  <2>1. Originates(w, pend, from, made, num)
    BY <1>1, Origin
  <2> QED
    BY <2>1 DEF Originates
<1>5. PICK used, rest : used = w.used /\ rest = Rest(pend, used) /\ used \in 0..Len(pend)
  BY <1>4
<1>6. /\ Len(pend) \in Nat /\ rest \in Seq(Vectors) /\ Len(rest) = Len(pend) - used /\ used \in Nat
      /\ \A i \in 1..Len(rest) : used + i \in 1..Len(pend) /\ rest[i] = pend[used + i]
  BY <1>5, RestFacts, SMTT(30)
<1>7. PICK more : more = units \o w.out
  OBVIOUS
<1>8. /\ more \in Seq(Units(num)) /\ Len(units) \in Nat
      /\ \A j \in 1..Len(units) : more[j] = units[j]
      /\ \A j \in 1..made : more[Len(units) + j] = w.out[j]
      /\ \A j \in 1..Len(more) :
            j \in 1..Len(units) \/ (j - Len(units) \in 1..made /\ j = Len(units) + (j - Len(units)))
  <2>1. PICK out \in Seq(Units(num)) : out = w.out
    BY <1>4
  <2>2. /\ units \o out \in Seq(Units(num))
        /\ Len(units) \in Nat
        /\ \A i \in 1..Len(units) : (units \o out)[i] = units[i]
        /\ \A i \in 1..Len(out) : (units \o out)[Len(units) + i] = out[i]
        /\ \A i \in 1..Len(units \o out) :
              \/ i \in 1..Len(units)
              \/ i - Len(units) \in 1..Len(out) /\ i = Len(units) + (i - Len(units))
    BY Joined
  <2>3. Len(out) = made
    BY <1>4, <2>1
  <2> QED
    BY <1>7, <2>1, <2>2, <2>3
<1>9. InWindow(lost, rest, num, skip)
  BY <1>3, <1>6 DEF InWindow
<1>10. UnitsInWindow(lost, more, num, skip)
  <2> SUFFICES ASSUME NEW j \in 1..Len(more), NEW i \in DOMAIN more[j].ids
               PROVE  Selected(lost, more[j].ids[i], num, skip)
    BY DEF UnitsInWindow
  <2>1. CASE j \in 1..Len(units)
    BY <1>3, <1>8, <2>1 DEF UnitsInWindow
  <2>2. CASE j - Len(units) \in 1..made
    <3>1. PICK k \in 1..made : k = j - Len(units)
      BY <2>2
    <3>2. more[j] = w.out[k]
      BY <1>8, <3>1
    <3>3. i \in 1..num
      BY <1>4, <3>2
    <3>4. PICK x \in 1..Len(pend) : more[j].ids[i] = pend[x].id
      BY <1>4, <3>2, <3>3
    <3> QED
      BY <1>3, <3>4 DEF InWindow
  <2> QED
    BY <1>8, <2>1, <2>2
<1>11. Ordered(more, rest, line, p)
  BY <1>1, <1>3, <1>5, <1>7, OrderDelivered
<1>12. ASSUME fresh
       PROVE  Framed(more, rest, id, num, skip)
  <2>1. First(p) \in Pairs
    BY SuccFacts
  <2>2. id \in Pairs
    <3>1. Trail(line, First(p)) \in [1..(Len(line) + 1) -> Pairs] /\ 1 \in 1..(Len(line) + 1)
      BY <2>1, TrailFacts
    <3> QED
      BY <1>2, <3>1
  <2>3. Upcoming(id, num, skip) \in Pairs
    BY <2>2, SMTT(30) DEF Upcoming, Pairs
  <2>4. Framed(units, pend, id, num, skip)
    BY <1>3, <1>12
  <2>5. Regular(pend, num)
    BY <2>3, <2>4, Begun
  <2>6. from = 1 /\ w.used = made * num
    BY <1>1, <2>5
  <2> QED
    BY <1>1, <1>5, <1>7, <2>3, <2>4, <2>6, FramedDelivered
<1>13. Half(lost, fresh, more, rest, index, line, p, num, skip)
  BY <1>2, <1>3, <1>9, <1>10, <1>11, <1>12 DEF Half
<1> QED
  BY <1>1, <1>5, <1>6, <1>7, <1>8, <1>13 DEF Taken

-----------------------------------------------------------------------------
(* Parts of sequences *)

LEMMA AppendConcat ==
    ASSUME NEW a \in Seq(Vectors), NEW b \in Seq(Vectors), NEW v \in Vectors
    PROVE  a \o Append(b, v) = Append(a \o b, v)
<1>1. a \o b \in Seq(Vectors) /\ Append(b, v) \in Seq(Vectors) /\ <<v>> \in Seq(Vectors)
  BY ConcatProperties, AppendProperties
<1>2. Append(b, v) = b \o <<v>> /\ Append(a \o b, v) = (a \o b) \o <<v>>
  BY <1>1, AppendIsConcat
<1>3. (a \o b) \o <<v>> = a \o (b \o <<v>>)
  BY <1>1, ConcatAssociative
<1> QED
  BY <1>2, <1>3

LEMMA RestNone ==
    ASSUME NEW S, NEW s \in Seq(S)
    PROVE  Rest(s, 0) = s
<1>1. SubSeq(s, 1, Len(s)) = s
  BY SubSeqFull
<1> QED
  BY <1>1 DEF Rest

LEMMA RestNext ==
    ASSUME NEW s \in Seq(Vectors), NEW n \in Nat, n < Len(s)
    PROVE  /\ Rest(s, n) \in Seq(Vectors) /\ Rest(s, n) # <<>>
           /\ Len(Rest(s, n)) \in Nat /\ Len(Rest(s, n)) >= 1
           /\ Rest(s, n)[1] = s[n + 1] /\ s[n + 1] \in Vectors
           /\ Rest(s, n + 1) \in Seq(Vectors)
           /\ Tail(Rest(s, n)) = Rest(s, n + 1)
<1>1. Len(s) \in Nat /\ n \in 0..Len(s) /\ n + 1 \in 0..Len(s) /\ n + 1 \in 1..Len(s)
  BY LineFacts
<1>2. /\ Rest(s, n) \in Seq(Vectors) /\ Len(Rest(s, n)) = Len(s) - n
      /\ \A i \in 1..Len(Rest(s, n)) : Rest(s, n)[i] = s[n + i]
  BY <1>1, RestFacts
<1>3. Rest(s, n) # <<>>
  BY <1>1, <1>2, EmptySeq
<1>4. PICK m \in Nat : m = n + 1
  OBVIOUS
<1>5. Rest(s, m) \in Seq(Vectors)
  <2>1. m \in 0..Len(s)
    BY <1>1, <1>4
  <2> QED
    BY <2>1, RestFacts
<1>6. Tail(Rest(s, n)) = Rest(s, n + 1)
  <2>1. n + 1 \in 1..Len(s) /\ Len(s) \in (n + 1)..Len(s)
    BY <1>1
  <2>2. Tail(SubSeq(s, n + 1, Len(s))) = SubSeq(s, n + 1 + 1, Len(s))
    BY <2>1, HeadTailOfSubSeq
  <2> QED
    BY <2>2 DEF Rest
<1> QED
  BY <1>1, <1>2, <1>3, <1>4, <1>5, <1>6, LineFacts

LEMMA ConcatPopped ==
    ASSUME NEW a \in Seq(Vectors), NEW b \in Seq(Vectors), a # <<>>
    PROVE  /\ a \o b \in Seq(Vectors) /\ a \o b # <<>>
           /\ (a \o b)[1] = a[1] /\ Tail(a \o b) = Tail(a) \o b
<1>1. a \o b \in Seq(Vectors) /\ Len(a \o b) = Len(a) + Len(b) /\ Len(a) \in Nat /\ Len(b) \in Nat
  BY Joined
<1>2. \A i \in 1..Len(a) + Len(b) : (a \o b)[i] = IF i <= Len(a) THEN a[i] ELSE b[i - Len(a)]
  BY ConcatProperties
<1>3. Len(a) >= 1
  BY EmptySeq
<1>4. a \o b # <<>>
  BY <1>1, <1>3, EmptySeq
<1>5. (a \o b)[1] = a[1]
  BY <1>1, <1>2, <1>3
<1>6. /\ Tail(a \o b) \in Seq(Vectors) /\ Len(Tail(a \o b)) = Len(a) + Len(b) - 1
      /\ \A i \in 1..Len(Tail(a \o b)) : Tail(a \o b)[i] = (a \o b)[i + 1]
  BY <1>1, <1>4, HeadTailProperties
<1>7. /\ Tail(a) \in Seq(Vectors) /\ Len(Tail(a)) = Len(a) - 1
      /\ \A i \in 1..Len(Tail(a)) : Tail(a)[i] = a[i + 1]
  BY HeadTailProperties
<1>8. /\ Tail(a) \o b \in Seq(Vectors) /\ Len(Tail(a) \o b) = Len(a) - 1 + Len(b)
      /\ \A i \in 1..(Len(a) - 1 + Len(b)) :
            (Tail(a) \o b)[i] = IF i <= Len(a) - 1 THEN Tail(a)[i] ELSE b[i - (Len(a) - 1)]
  BY <1>7, ConcatProperties
<1>9. Len(Tail(a \o b)) = Len(Tail(a) \o b)
  BY <1>1, <1>6, <1>8
<1>10. ASSUME NEW i \in 1..Len(Tail(a \o b))
       PROVE  Tail(a \o b)[i] = (Tail(a) \o b)[i]
  <2>1. i \in 1..(Len(a) - 1 + Len(b)) /\ i + 1 \in 1..Len(a) + Len(b)
    BY <1>1, <1>6
  <2>2. Tail(a \o b)[i] = IF i + 1 <= Len(a) THEN a[i + 1] ELSE b[i + 1 - Len(a)]
    BY <1>2, <1>6, <2>1
  <2>3. (Tail(a) \o b)[i] = IF i <= Len(a) - 1 THEN Tail(a)[i] ELSE b[i - (Len(a) - 1)]
    BY <1>8, <2>1
  <2>4. CASE i + 1 <= Len(a)
    <3>1. i <= Len(a) - 1 /\ i \in 1..Len(Tail(a))
      BY <1>1, <1>7, <2>1, <2>4
    <3> QED
      BY <1>7, <2>2, <2>3, <2>4, <3>1
  <2>5. CASE ~(i + 1 <= Len(a))
    <3>1. ~(i <= Len(a) - 1) /\ i + 1 - Len(a) = i - (Len(a) - 1)
      BY <1>1, <2>1, <2>5
    <3> QED
      BY <2>2, <2>3, <2>5, <3>1
  <2> QED
    BY <2>4, <2>5
<1>11. Tail(a \o b) = Tail(a) \o b
  BY <1>6, <1>8, <1>9, <1>10, SeqEqual
<1> QED
  BY <1>1, <1>4, <1>5, <1>11

-----------------------------------------------------------------------------
(* A call of ofdm_remove_first_symbol *)

\* The state of remove_first_symbol's loop.
DropState == [start : BOOLEAN, used : Nat, out : Seq(Vectors)]

\* The loop's states, from the first to that after all of s.
DropsBy(after, start, s, room) ==
    /\ DropTagged(start, s, room) = after[Len(s)]
    /\ after[0] = [start |-> start, used |-> 0, out |-> <<>>]
    /\ \A n \in 1..Len(s) : after[n] = DropRound(after[n - 1], s[n], room)

LEMMA DropRounds ==
    ASSUME NEW start \in BOOLEAN, NEW s \in Seq(Vectors), NEW room \in Nat
    PROVE  \E after : DropsBy(after, start, s, room)
<1> DEFINE N == Len(s)
           base == [start |-> start, used |-> 0, out |-> <<>>]
           step == [p \in (1..N) \X DropState |-> DropRound(p[2], s[p[1]], room)]
           After(g) == [n \in 0..N |-> IF n = 0 THEN base ELSE DropRound(g[n - 1], s[n], room)]
           after == CHOOSE h : h = After(h)
<1>1. N \in Nat /\ \A n \in 1..N : s[n] \in Vectors
  BY LineFacts
<1>2. base \in DropState
  BY EmptySeq DEF DropState
<1>3. ASSUME NEW w \in DropState, NEW v \in Vectors
      PROVE  DropRound(w, v, room) \in DropState
  <2>1. w.start \in BOOLEAN /\ w.used \in Nat /\ w.out \in Seq(Vectors)
    BY DEF DropState
  <2>2. Append(w.out, Retag(v, w.start)) \in Seq(Vectors)
    BY <2>1, Retagged, AppendProperties
  <2>3. w.used + 1 \in Nat
    BY <2>1
  <2> QED
    BY <2>1, <2>2, <2>3 DEF DropRound, DropState
<1>4. step \in [(1..N) \X DropState -> DropState]
  BY <1>1, <1>3
<1>5. PICK g \in [0..N -> DropState] : Recursive(g, base, N, step)
  <2>1. PICK S, M, do, b : S = DropState /\ M = N /\ do = step /\ b = base
    OBVIOUS
  <2>2. b \in S /\ M \in Nat
    BY <1>1, <1>2, <2>1
  <2>3. do \in [(1..M) \X S -> S]
    BY <1>4, <2>1
  <2> HIDE DEF step, N, base
  <2>4. \E g \in [0..M -> S] : Recursive(g, b, M, do)
    BY <2>2, <2>3, Recursion
  <2> QED
    BY <2>1, <2>4
<1>6. g = After(g)
  <2>1. ASSUME NEW n \in 1..N
        PROVE  g[n] = DropRound(g[n - 1], s[n], room)
    <3>1. n - 1 \in 0..N
      BY <1>1
    <3>2. g[n - 1] \in DropState
      BY <1>5, <3>1
    <3>3. g[n] = step[<<n, g[n - 1]>>]
      BY <1>5 DEF Recursive
    <3> QED
      BY <3>2, <3>3
  <2>2. \A n \in 0..N : n # 0 => n \in 1..N
    BY <1>1
  <2>3. g[0] = base
    BY <1>5 DEF Recursive
  <2> HIDE DEF base
  <2> QED
    BY <1>5, <2>1, <2>2, <2>3
<1>7. after = After(after)
  BY <1>6
<1>8. DropTagged(start, s, room) = after[N]
  BY DEF DropTagged
<1> HIDE DEF after
<1>9. after[0] = base /\ \A n \in 1..N : after[n] = DropRound(after[n - 1], s[n], room)
  <2>1. 0 \in 0..N /\ \A n \in 1..N : n \in 0..N /\ n # 0
    BY <1>1
  <2> HIDE DEF base
  <2> QED
    BY <1>7, <2>1
<1> QED
  BY <1>8, <1>9 DEF DropsBy

\* After some rounds of a call with the input s, b being what comes behind it.
Dropping(lost, fresh, s, b, w, room) ==
    /\ w \in DropState /\ w.used \in 0..Len(s) /\ Len(w.out) <= room
    /\ Source(Rest(s, w.used), b)
    /\ StartRight(lost, w.start, Trail(Rest(s, w.used), b)[1])
    /\ Tags(lost, fresh, w.out)

\* The state w of the loop and the half of the chain that reads its output.
Dropped(lost, fresh, num, skip, units, pend, index, line, s, b, room, w) ==
    /\ Dropping(lost, fresh, s, b, w, room)
    /\ Half(lost, fresh, units, pend, index, line \o w.out, Trail(Rest(s, w.used), b)[1],
            num, skip)

LEMMA DropOnce ==
    ASSUME NEW lost, NEW fresh \in BOOLEAN, NEW num \in Nat, NEW skip \in Nat,
           NEW units \in Seq(Units(num)), NEW pend \in Seq(Vectors), NEW index,
           NEW line \in Seq(Vectors), NEW s \in Seq(Vectors), NEW b \in Pairs,
           NEW room \in Nat, NEW w, Len(w.out) < room, w.used < Len(s), 0 \notin lost,
           Dropped(lost, fresh, num, skip, units, pend, index, line, s, b, room, w)
    PROVE  LET w1 == DropRound(w, s[w.used + 1], room)
           IN  /\ Dropped(lost, fresh, num, skip, units, pend, index, line, s, b, room, w1)
               /\ w1.used = w.used + 1
<1> PICK w1 : w1 = DropRound(w, s[w.used + 1], room)
  OBVIOUS
<1>1. /\ Dropping(lost, fresh, s, b, w, room)
      /\ Half(lost, fresh, units, pend, index, line \o w.out,
              Trail(Rest(s, w.used), b)[1], num, skip)
  BY DEF Dropped
<1> SUFFICES /\ Dropping(lost, fresh, s, b, w1, room) /\ w1.used = w.used + 1
             /\ Half(lost, fresh, units, pend, index, line \o w1.out,
                     Trail(Rest(s, w1.used), b)[1], num, skip)
  BY DEF Dropped
<1>2. PICK n, start, out : n = w.used /\ start = w.start /\ out = w.out
  OBVIOUS
<1>3. /\ n \in Nat /\ start \in BOOLEAN /\ out \in Seq(Vectors) /\ n < Len(s)
      /\ Len(out) < room /\ n \in 0..Len(s)
  BY <1>1, <1>2 DEF Dropping, DropState
<1>4. PICK m \in Nat : m = n + 1
  BY <1>3
<1>5. PICK v, rem, rest : v = s[m] /\ rem = Rest(s, n) /\ rest = Rest(s, m)
  OBVIOUS
<1>6. /\ rem \in Seq(Vectors) /\ rem # <<>> /\ Len(rem) \in Nat /\ Len(rem) >= 1
      /\ rem[1] = v /\ v \in Vectors /\ v.id \in Ids /\ v.first \in BOOLEAN
      /\ rest \in Seq(Vectors) /\ Tail(rem) = rest /\ m \in 0..Len(s)
  <2>1. Len(s) \in Nat
    BY LineFacts
  <2>2. /\ Rest(s, n) \in Seq(Vectors) /\ Rest(s, n) # <<>>
        /\ Len(Rest(s, n)) \in Nat /\ Len(Rest(s, n)) >= 1
        /\ Rest(s, n)[1] = s[n + 1] /\ s[n + 1] \in Vectors
        /\ Rest(s, n + 1) \in Seq(Vectors)
        /\ Tail(Rest(s, n)) = Rest(s, n + 1)
    BY <1>3, RestNext
  <2>3. v \in Vectors => v.id \in Ids /\ v.first \in BOOLEAN
    BY DEF Vectors
  <2>4. m \in 0..Len(s)
    BY <1>3, <1>4, <2>1
  <2> QED
    BY <1>4, <1>5, <2>2, <2>3, <2>4
<1>7. PICK R, T : R = Trail(rem, b) /\ T = Trail(rest, b)
  OBVIOUS
<1>8. /\ Len(rest) = Len(rem) - 1
      /\ \A i \in 1..Len(rest) : rest[i] = rem[i + 1]
      /\ \A i \in 1..Len(rem) : T[i] = R[i + 1]
      /\ R[1] = v.id
  <2>1. 1 \in 1..Len(rem)
    BY <1>6
  <2>2. /\ Len(Tail(rem)) = Len(rem) - 1
        /\ \A i \in 1..(Len(rem) - 1) : Tail(rem)[i] = rem[i + 1]
        /\ \A i \in 1..Len(rem) : Trail(Tail(rem), b)[i] = Trail(rem, b)[i + 1]
    BY <1>6, Popped
  <2>3. \A i \in 1..Len(rem) : Trail(rem, b)[i] = rem[i].id
    BY <1>6, TrailFacts
  <2> QED
    BY <1>6, <1>7, <2>1, <2>2, <2>3
<1>9. /\ Symbol(b) /\ Symbol(v.id) /\ (v.first <=> v.id[2] = 0)
      /\ R[2] = Succ(v.id)
  <2>1. 1 \in 1..Len(rem) /\ 1 + 1 = 2
    BY <1>6
  <2> QED
    BY <1>1, <1>2, <1>5, <1>6, <1>7, <2>1 DEF Dropping, Source
<1>10. T[1] = Succ(v.id)
  <2>1. 1 \in 1..Len(rem) /\ 1 + 1 = 2
    BY <1>6
  <2> QED
    BY <1>8, <1>9, <2>1
<1>11. Source(rest, b)
  <2> SUFFICES ASSUME NEW i \in 1..Len(rest)
               PROVE  /\ Symbol(rest[i].id) /\ (rest[i].first <=> rest[i].id[2] = 0)
                      /\ Before(rest[i].id, b)
                      /\ T[i + 1] = Succ(rest[i].id)
    BY <1>7, <1>9 DEF Source
  <2>1. PICK j \in 1..Len(rem) : j = i + 1
    BY <1>6, <1>8
  <2>2. rest[i] = rem[j] /\ T[j] = R[j + 1]
    BY <1>8, <2>1
  <2> QED
    BY <1>1, <1>2, <1>5, <1>7, <2>1, <2>2 DEF Dropping, Source
<1>12. /\ v.id \in Pairs /\ Symbol(v.id) /\ v.id[1] \in Nat /\ v.id[2] \in Nat
       /\ Half(lost, fresh, units, pend, index, line \o out, v.id, num, skip)
       /\ StartRight(lost, start, v.id) /\ Tags(lost, fresh, out)
  BY <1>1, <1>2, <1>5, <1>6, <1>7, <1>8, <1>9, IdFacts DEF Dropping
<1>13. line \o out \in Seq(Vectors)
  BY <1>3, ConcatProperties
<1>14. Succ(v.id)[2] = 1 => v.id[2] = 0
  BY <1>12 DEF Succ
<1>15. CASE v.first
  <2>1. w1.start = TRUE /\ w1.used = m /\ w1.out = out
    BY <1>2, <1>3, <1>4, <1>5, <1>15 DEF DropRound
  <2>2. v.id[2] = 0
    BY <1>9, <1>15
  <2>3. Half(lost, fresh, units, pend, index, line \o out, Succ(v.id), num, skip)
    BY <1>12, <1>13, <2>2, HalfSkipped
  <2>4. StartRight(lost, TRUE, Succ(v.id))
    <3>1. Succ(v.id)[2] = 1
      BY <2>2, Sizes DEF Succ
    <3> QED
      BY <3>1 DEF StartRight
  <2>5. w1 \in DropState
    <3>1. w1 = [start |-> TRUE, used |-> m, out |-> out]
      BY <1>2, <1>3, <1>4, <1>5, <1>15 DEF DropRound
    <3> QED
      BY <1>3, <3>1 DEF DropState
  <2>6. Dropping(lost, fresh, s, b, w1, room)
    <3>1. w1.used \in 0..Len(s) /\ Len(w1.out) <= room
      <4>1. Len(out) \in Nat
        BY <1>3, LineFacts
      <4> QED
        BY <1>3, <1>6, <2>1, <4>1
    <3>2. /\ Source(Rest(s, w1.used), b) /\ Tags(lost, fresh, w1.out)
          /\ StartRight(lost, w1.start, Trail(Rest(s, w1.used), b)[1])
      BY <1>5, <1>7, <1>10, <1>11, <1>12, <2>1, <2>4
    <3> QED
      BY <2>5, <3>1, <3>2 DEF Dropping
  <2>7. Half(lost, fresh, units, pend, index, line \o w1.out, Trail(Rest(s, w1.used), b)[1],
             num, skip)
    BY <1>5, <1>7, <1>10, <2>1, <2>3
  <2> QED
    BY <1>2, <1>4, <2>1, <2>6, <2>7
<1>16. CASE ~v.first
  <2>1. PICK x : x = Retag(v, start)
    OBVIOUS
  <2>2. x \in Vectors /\ x.id = v.id /\ x.first = start
    BY <1>3, <1>6, <2>1, Retagged
  <2>3. /\ w1.start = FALSE /\ w1.used = m /\ w1.out = Append(out, x)
        /\ w1 = [start |-> FALSE, used |-> m, out |-> Append(out, x)]
    <3>1. w1 = [start |-> FALSE, used |-> m, out |-> Append(out, x)]
      BY <1>2, <1>3, <1>4, <1>5, <1>16, <2>1 DEF DropRound
    <3> QED
      BY <3>1
  <2>4. /\ Append(out, x) \in Seq(Vectors) /\ Len(Append(out, x)) = Len(out) + 1
        /\ Len(out) \in Nat
        /\ \A i \in 1..Len(out) : Append(out, x)[i] = out[i]
        /\ Append(out, x)[Len(out) + 1] = x
    BY <1>3, <2>2, Pushed
  <2>5. v.id[2] # 0 /\ v.id[2] >= 1
    BY <1>9, <1>12, <1>16
  <2>6. Half(lost, fresh, units, pend, index, Append(line \o out, x), Succ(v.id), num, skip)
    BY <1>12, <1>13, <2>2, <2>5, HalfPushed
  <2>7. Append(line \o out, x) = line \o Append(out, x)
    BY <1>3, <2>2, AppendConcat
  <2>8. StartRight(lost, FALSE, Succ(v.id))
    BY <1>14, <2>5 DEF StartRight
  <2>9. TagRight(lost, fresh, x.id, x.first)
    BY <1>12, <2>2, <2>5 DEF StartRight, TagRight
  <2>10. Tags(lost, fresh, Append(out, x))
    <3>1. \A i \in 1..Len(Append(out, x)) : i \in 1..Len(out) \/ i = Len(out) + 1
      BY <2>4
    <3> QED
      BY <1>12, <2>4, <2>9, <3>1 DEF Tags
  <2>11. w1 \in DropState
    BY <2>3, <2>4 DEF DropState
  <2>12. Len(w1.out) <= room
    BY <1>3, <2>3, <2>4
  <2> QED
    BY <1>2, <1>4, <1>5, <1>6, <1>7, <1>10, <1>11, <2>3, <2>6, <2>7, <2>8, <2>10, <2>11, <2>12
    DEF Dropping
<1> QED
  BY <1>6, <1>15, <1>16

\* What a call of remove_first_symbol starts from.
DropReady(lost, fresh, num, skip, units, pend, index, line, s, b, room, start) ==
    /\ fresh \in BOOLEAN /\ num \in Nat /\ skip \in Nat /\ 0 \notin lost
    /\ units \in Seq(Units(num)) /\ pend \in Seq(Vectors) /\ line \in Seq(Vectors)
    /\ s \in Seq(Vectors) /\ b \in Pairs /\ room \in Nat /\ start \in BOOLEAN
    /\ Source(s, b) /\ StartRight(lost, start, Trail(s, b)[1])
    /\ Half(lost, fresh, units, pend, index, line, Trail(s, b)[1], num, skip)

LEMMA DropFacts ==
    ASSUME NEW lost, NEW fresh, NEW num, NEW skip, NEW units, NEW pend, NEW index, NEW line,
           NEW s, NEW b, NEW room, NEW start,
           DropReady(lost, fresh, num, skip, units, pend, index, line, s, b, room, start)
    PROVE  Dropped(lost, fresh, num, skip, units, pend, index, line, s, b, room,
                   DropTagged(start, s, room))
<1> PICK w : w = DropTagged(start, s, room)
  OBVIOUS
<1> SUFFICES ASSUME fresh \in BOOLEAN, num \in Nat, skip \in Nat, 0 \notin lost,
                    units \in Seq(Units(num)), pend \in Seq(Vectors), line \in Seq(Vectors),
                    s \in Seq(Vectors), b \in Pairs, room \in Nat, start \in BOOLEAN,
                    Source(s, b), StartRight(lost, start, Trail(s, b)[1]),
                    Half(lost, fresh, units, pend, index, line, Trail(s, b)[1], num, skip)
             PROVE  Dropped(lost, fresh, num, skip, units, pend, index, line, s, b, room, w)
  BY DEF DropReady
<1>1. PICK after : /\ w = after[Len(s)]
                   /\ after[0] = [start |-> start, used |-> 0, out |-> <<>>]
                   /\ \A n \in 1..Len(s) : after[n] = DropRound(after[n - 1], s[n], room)
  <2>1. \E after : DropsBy(after, start, s, room)
    BY DropRounds
  <2> QED
    BY <2>1 DEF DropsBy
<1> DEFINE Good(v, n) ==
             /\ Dropped(lost, fresh, num, skip, units, pend, index, line, s, b, room, v)
             /\ v.used = n \/ Len(v.out) = room
           M == {n \in Nat : n <= Len(s) => Good(after[n], n)}
<1>2. Len(s) \in Nat
  BY LineFacts
<1>3. 0 \in M
  <2>1. PICK v : v = after[0]
    OBVIOUS
  <2>2. v.start = start /\ v.used = 0 /\ v.out = <<>>
    BY <1>1, <2>1
  <2>3. v \in DropState
    BY <1>1, <2>1, EmptySeq DEF DropState
  <2>4. Rest(s, v.used) = s
    BY <2>2, RestNone
  <2>5. line \o v.out = line
    BY <2>2, ConcatEmptySeq
  <2>6. Len(v.out) = 0 /\ Tags(lost, fresh, v.out)
    BY <2>2, EmptySeq DEF Tags
  <2>7. v.used \in 0..Len(s) /\ Len(v.out) <= room
    BY <1>2, <2>2, <2>6
  <2>8. Dropping(lost, fresh, s, b, v, room)
    BY <2>2, <2>3, <2>4, <2>6, <2>7 DEF Dropping
  <2> QED
    BY <2>1, <2>2, <2>4, <2>5, <2>8 DEF Dropped
<1>4. ASSUME NEW n \in Nat, n \in M
      PROVE  n + 1 \in M
  <2> SUFFICES ASSUME n + 1 <= Len(s)
               PROVE  Good(after[n + 1], n + 1)
    OBVIOUS
  <2>1. PICK v : v = after[n]
    OBVIOUS
  <2>2. Good(v, n)
    BY <1>2, <1>4, <2>1
  <2>3. after[n + 1] = DropRound(v, s[n + 1], room)
    <3>1. n + 1 \in 1..Len(s) /\ (n + 1) - 1 = n
      BY <1>2
    <3> QED
      BY <1>1, <2>1, <3>1
  <2>4. CASE Len(v.out) = room
    <3>1. after[n + 1] = v
      BY <2>3, <2>4 DEF DropRound
    <3> QED
      BY <2>2, <2>4, <3>1
  <2>5. CASE Len(v.out) # room
    <3>1. PICK v1 : v1 = after[n + 1]
      OBVIOUS
    <3>2. v.used = n /\ Len(v.out) < room
      <4>1. v.used = n /\ Len(v.out) <= room /\ v.out \in Seq(Vectors)
        BY <2>2, <2>5 DEF Dropped, Dropping, DropState
      <4>2. Len(v.out) \in Nat
        BY <4>1, LineFacts
      <4> QED
        BY <2>5, <4>1, <4>2
    <3>3. v.used < Len(s) /\ v1 = DropRound(v, s[v.used + 1], room)
      BY <1>2, <2>3, <3>1, <3>2
    <3>4. Dropped(lost, fresh, num, skip, units, pend, index, line, s, b, room, v)
      BY <2>2
    <3> HIDE DEF Good
    <3>5. /\ Dropped(lost, fresh, num, skip, units, pend, index, line, s, b, room, v1)
          /\ v1.used = v.used + 1
      BY <3>2, <3>3, <3>4, DropOnce
    <3> QED
      BY <3>1, <3>2, <3>5 DEF Good
  <2> QED
    BY <2>4, <2>5
<1>5. Nat \subseteq M
  <2> HIDE DEF M
  <2> QED
    BY <1>3, <1>4, Induction
<1>6. Good(w, Len(s))
  <2>1. Len(s) \in M
    BY <1>2, <1>5
  <2> HIDE DEF Good
  <2> QED
    BY <1>1, <1>2, <2>1
<1> QED
  BY <1>6

-----------------------------------------------------------------------------
(* A call of select_vectors *)

\* The state of select_vectors' loop.
SelectState(num, skip) == [index : 0..WindowEnd(num, skip), used : Nat, out : Seq(Vectors)]

LEMMA SelectRoundIs ==
    ASSUME NEW num \in Nat, NEW skip \in Nat, NEW w \in SelectState(num, skip),
           NEW v \in Vectors, NEW room, Len(w.out) # room
    PROVE  LET w1 == SelectRound(w, v, room, num, skip)
               place == Place(w.index, v)
           IN  /\ w1 \in SelectState(num, skip)
               /\ w1.index = NextIndex(place, WindowEnd(num, skip)) /\ w1.used = w.used + 1
               /\ Chosen(place, num, skip) => w1.out = Append(w.out, Marked(v, place, skip))
               /\ ~Chosen(place, num, skip) => w1.out = w.out
<1> PICK w1, place, end : /\ w1 = SelectRound(w, v, room, num, skip)
                          /\ place = Place(w.index, v) /\ end = WindowEnd(num, skip)
  OBVIOUS
<1>1. w.index \in 0..end /\ w.used \in Nat /\ w.out \in Seq(Vectors) /\ end \in Nat
  BY DEF SelectState, WindowEnd
<1>2. place \in 0..end /\ NextIndex(place, end) \in 0..end
  BY <1>1 DEF Place, NextIndex
<1>3. w1 = [index |-> NextIndex(place, end), used |-> w.used + 1,
            out |-> IF Chosen(place, num, skip) THEN Append(w.out, Marked(v, place, skip))
                    ELSE w.out]
  BY DEF SelectRound, Place, NextIndex, Chosen, WindowEnd, Marked
<1>4. Append(w.out, Marked(v, place, skip)) \in Seq(Vectors)
  BY <1>1, Retagged, AppendProperties DEF Marked
<1>5. w1 \in SelectState(num, skip)
  <2>1. (IF Chosen(place, num, skip) THEN Append(w.out, Marked(v, place, skip)) ELSE w.out)
           \in Seq(Vectors)
    BY <1>1, <1>4
  <2>2. w.used + 1 \in Nat
    BY <1>1
  <2> QED
    BY <1>2, <1>3, <2>1, <2>2 DEF SelectState
<1> QED
  BY <1>2, <1>3, <1>5

\* The loop's states, from the first to that after all of s.
Rounds(after, index, s, room, num, skip) ==
    /\ Select(index, s, room, num, skip) = after[Len(s)]
    /\ after[0] = [index |-> index, used |-> 0, out |-> <<>>]
    /\ \A n \in 1..Len(s) : after[n] = SelectRound(after[n - 1], s[n], room, num, skip)

LEMMA SelectRounds ==
    ASSUME NEW num \in Nat, NEW skip \in Nat, NEW index \in 0..WindowEnd(num, skip),
           NEW s \in Seq(Vectors), NEW room \in Nat
    PROVE  \E after : Rounds(after, index, s, room, num, skip)
<1> DEFINE N == Len(s)
           State == SelectState(num, skip)
           base == [index |-> index, used |-> 0, out |-> <<>>]
           step == [p \in (1..N) \X State |-> SelectRound(p[2], s[p[1]], room, num, skip)]
           After(g) == [n \in 0..N |-> IF n = 0 THEN base
                                       ELSE SelectRound(g[n - 1], s[n], room, num, skip)]
           after == CHOOSE h : h = After(h)
<1>1. N \in Nat /\ \A n \in 1..N : s[n] \in Vectors
  BY LineFacts
<1>2. base \in State
  BY EmptySeq DEF SelectState
<1> HIDE DEF State
<1>3. ASSUME NEW w \in State, NEW v \in Vectors
      PROVE  SelectRound(w, v, room, num, skip) \in State
  <2>1. CASE Len(w.out) = room
    BY <2>1 DEF SelectRound
  <2>2. CASE Len(w.out) # room
    BY <2>2, SelectRoundIs DEF State
  <2> QED
    BY <2>1, <2>2
<1>4. step \in [(1..N) \X State -> State]
  BY <1>1, <1>3
<1>5. PICK g \in [0..N -> State] : Recursive(g, base, N, step)
  <2>1. PICK S, M, do, b : S = State /\ M = N /\ do = step /\ b = base
    OBVIOUS
  <2>2. b \in S /\ M \in Nat
    BY <1>1, <1>2, <2>1
  <2>3. do \in [(1..M) \X S -> S]
    BY <1>4, <2>1
  <2> HIDE DEF step, N, base
  <2>4. \E g \in [0..M -> S] : Recursive(g, b, M, do)
    BY <2>2, <2>3, Recursion
  <2> QED
    BY <2>1, <2>4
<1>6. g = After(g)
  <2>1. ASSUME NEW n \in 1..N
        PROVE  g[n] = SelectRound(g[n - 1], s[n], room, num, skip)
    <3>1. n - 1 \in 0..N
      BY <1>1
    <3>2. g[n - 1] \in State
      BY <1>5, <3>1
    <3>3. g[n] = step[<<n, g[n - 1]>>]
      BY <1>5 DEF Recursive
    <3> QED
      BY <3>2, <3>3
  <2>2. \A n \in 0..N : n # 0 => n \in 1..N
    BY <1>1
  <2>3. g[0] = base
    BY <1>5 DEF Recursive
  <2> HIDE DEF base
  <2> QED
    BY <1>5, <2>1, <2>2, <2>3
<1>7. after = After(after)
  BY <1>6
<1>8. Select(index, s, room, num, skip) = after[N]
  BY DEF Select
<1> HIDE DEF after
<1>9. /\ after[0] = base
      /\ \A n \in 1..N : after[n] = SelectRound(after[n - 1], s[n], room, num, skip)
  <2>1. 0 \in 0..N /\ \A n \in 1..N : n \in 0..N /\ n # 0
    BY <1>1
  <2> HIDE DEF base
  <2> QED
    BY <1>7, <2>1
<1> QED
  BY <1>8, <1>9 DEF Rounds

\* After some rounds of a call with the input s.
Selecting(lost, fresh, units, pend, s, more, p, room, num, skip, w) ==
    /\ w \in SelectState(num, skip) /\ w.used \in 0..Len(s) /\ Len(w.out) <= room
    /\ Half(lost, fresh, units, pend \o w.out, w.index, Rest(s, w.used) \o more, p, num, skip)

LEMMA SelectOnce ==
    ASSUME NEW lost, NEW fresh \in BOOLEAN, 0 \notin lost, fresh => lost = {},
           NEW num \in Nat, NEW skip \in Nat, Window(num, skip),
           NEW units, Len(units) \in Nat, NEW pend \in Seq(Vectors), NEW s \in Seq(Vectors),
           NEW more \in Seq(Vectors), NEW p \in Pairs, Symbol(p), Tags(lost, fresh, s),
           NEW room \in Nat, NEW w, Len(w.out) < room, w.used < Len(s),
           Selecting(lost, fresh, units, pend, s, more, p, room, num, skip, w)
    PROVE  LET w1 == SelectRound(w, s[w.used + 1], room, num, skip)
           IN  /\ Selecting(lost, fresh, units, pend, s, more, p, room, num, skip, w1)
               /\ w1.used = w.used + 1
<1> PICK w1, end : w1 = SelectRound(w, s[w.used + 1], room, num, skip) /\ end = WindowEnd(num, skip)
  OBVIOUS
<1>1. PICK n, index, out : n = w.used /\ index = w.index /\ out = w.out
  OBVIOUS
<1>2. /\ n \in Nat /\ index \in 0..end /\ out \in Seq(Vectors) /\ n < Len(s)
      /\ Len(out) < room /\ n \in 0..Len(s) /\ w \in SelectState(num, skip)
  BY <1>1 DEF Selecting, SelectState
<1>3. PICK m \in Nat : m = n + 1
  BY <1>2
<1>4. PICK v, rem, rest : v = s[m] /\ rem = Rest(s, n) /\ rest = Rest(s, m)
  OBVIOUS
<1>5. /\ rem \in Seq(Vectors) /\ rem # <<>> /\ rem[1] = v /\ v \in Vectors
      /\ rest \in Seq(Vectors) /\ Tail(rem) = rest /\ m \in 0..Len(s) /\ m \in 1..Len(s)
  <2>1. Len(s) \in Nat
    BY LineFacts
  <2>2. /\ Rest(s, n) \in Seq(Vectors) /\ Rest(s, n) # <<>>
        /\ Rest(s, n)[1] = s[n + 1] /\ s[n + 1] \in Vectors
        /\ Rest(s, n + 1) \in Seq(Vectors)
        /\ Tail(Rest(s, n)) = Rest(s, n + 1)
    BY <1>2, RestNext
  <2>3. m \in 0..Len(s) /\ m \in 1..Len(s)
    BY <1>2, <1>3, <2>1
  <2> QED
    BY <1>3, <1>4, <2>2, <2>3
<1>6. PICK line, q : line = rem \o more /\ q = pend \o out
  OBVIOUS
<1>7. line \in Seq(Vectors) /\ line # <<>> /\ line[1] = v /\ Tail(line) = rest \o more
  BY <1>5, <1>6, ConcatPopped
<1>8. q \in Seq(Vectors)
  BY <1>2, <1>6, ConcatProperties
<1>9. TagRight(lost, fresh, v.id, v.first)
  BY <1>4, <1>5 DEF Tags
<1>10. Half(lost, fresh, units, q, index, line, p, num, skip)
  BY <1>1, <1>4, <1>6 DEF Selecting
<1>11. PICK place, x, next : /\ place = Place(index, v) /\ x = Marked(v, place, skip)
                             /\ next = NextIndex(place, end)
  OBVIOUS
<1>12. /\ Chosen(place, num, skip) =>
            Half(lost, fresh, units, Append(q, x), next, rest \o more, p, num, skip)
       /\ ~Chosen(place, num, skip) =>
            Half(lost, fresh, units, q, next, rest \o more, p, num, skip)
  <2>1. index \in 0..WindowEnd(num, skip)
    BY <1>2
  <2>2. /\ Chosen(place, num, skip) =>
             Half(lost, fresh, units, Append(q, Marked(v, place, skip)),
                  NextIndex(place, WindowEnd(num, skip)), Tail(line), p, num, skip)
        /\ ~Chosen(place, num, skip) =>
             Half(lost, fresh, units, q, NextIndex(place, WindowEnd(num, skip)), Tail(line), p,
                  num, skip)
    BY <1>7, <1>8, <1>9, <1>10, <1>11, <2>1, HalfPopped
  <2> QED
    BY <1>7, <1>11, <2>2
<1>13. /\ w1 \in SelectState(num, skip)
       /\ w1.index = next /\ w1.used = m
       /\ Chosen(place, num, skip) => w1.out = Append(out, x)
       /\ ~Chosen(place, num, skip) => w1.out = out
  <2>1. w1 = SelectRound(w, v, room, num, skip) /\ Len(w.out) # room
    BY <1>1, <1>2, <1>3, <1>4
  <2>2. /\ w1 \in SelectState(num, skip)
        /\ w1.index = NextIndex(place, end) /\ w1.used = w.used + 1
        /\ Chosen(place, num, skip) => w1.out = Append(w.out, Marked(v, place, skip))
        /\ ~Chosen(place, num, skip) => w1.out = w.out
    <3>1. LET w2 == SelectRound(w, v, room, num, skip)
              pl == Place(w.index, v)
          IN  /\ w2 \in SelectState(num, skip)
              /\ w2.index = NextIndex(pl, WindowEnd(num, skip)) /\ w2.used = w.used + 1
              /\ Chosen(pl, num, skip) => w2.out = Append(w.out, Marked(v, pl, skip))
              /\ ~Chosen(pl, num, skip) => w2.out = w.out
      <4>1. w \in SelectState(num, skip) /\ v \in Vectors /\ Len(w.out) # room
        BY <1>2, <1>5, <2>1
      <4> QED
        BY <4>1, SelectRoundIs
    <3> QED
      BY <1>1, <1>11, <2>1, <3>1
  <2> QED
    BY <1>1, <1>3, <1>11, <2>2
<1>14. x \in Vectors
  BY <1>5, <1>11, Retagged DEF Marked
<1>15. Append(q, x) = pend \o Append(out, x)
  BY <1>2, <1>6, <1>14, AppendConcat
<1>16. Len(w1.out) <= room
  <2>1. Len(Append(out, x)) = Len(out) + 1 /\ Len(out) \in Nat
    BY <1>2, <1>14, Pushed
  <2> QED
    BY <1>2, <1>13, <2>1, SMTT(30)
<1> QED
  BY <1>1, <1>3, <1>4, <1>5, <1>6, <1>12, <1>13, <1>15, <1>16 DEF Selecting

\* What a call of select_vectors starts from.
SelectReady(lost, fresh, index, units, pend, s, more, p, room, num, skip) ==
    /\ fresh \in BOOLEAN /\ 0 \notin lost /\ (fresh => lost = {})
    /\ num \in Nat /\ skip \in Nat /\ Window(num, skip) /\ index \in 0..WindowEnd(num, skip)
    /\ Len(units) \in Nat /\ pend \in Seq(Vectors) /\ s \in Seq(Vectors)
    /\ more \in Seq(Vectors) /\ p \in Pairs /\ Symbol(p) /\ Tags(lost, fresh, s)
    /\ room \in Nat
    /\ Half(lost, fresh, units, pend, index, s \o more, p, num, skip)

LEMMA SelectFacts ==
    ASSUME NEW lost, NEW fresh, NEW index, NEW units, NEW pend, NEW s, NEW more, NEW p,
           NEW room, NEW num, NEW skip,
           SelectReady(lost, fresh, index, units, pend, s, more, p, room, num, skip)
    PROVE  Selecting(lost, fresh, units, pend, s, more, p, room, num, skip,
                     Select(index, s, room, num, skip))
<1> PICK w : w = Select(index, s, room, num, skip)
  OBVIOUS
<1> SUFFICES ASSUME fresh \in BOOLEAN, 0 \notin lost, fresh => lost = {},
                    num \in Nat, skip \in Nat, Window(num, skip), index \in 0..WindowEnd(num, skip),
                    Len(units) \in Nat, pend \in Seq(Vectors), s \in Seq(Vectors),
                    more \in Seq(Vectors), p \in Pairs, Symbol(p), Tags(lost, fresh, s),
                    room \in Nat,
                    Half(lost, fresh, units, pend, index, s \o more, p, num, skip)
             PROVE  Selecting(lost, fresh, units, pend, s, more, p, room, num, skip, w)
  BY DEF SelectReady
<1>1. PICK after : /\ w = after[Len(s)]
                   /\ after[0] = [index |-> index, used |-> 0, out |-> <<>>]
                   /\ \A n \in 1..Len(s) :
                         after[n] = SelectRound(after[n - 1], s[n], room, num, skip)
  <2>1. \E after : Rounds(after, index, s, room, num, skip)
    BY SelectRounds
  <2> QED
    BY <2>1 DEF Rounds
<1> DEFINE Good(v, n) ==
             /\ Selecting(lost, fresh, units, pend, s, more, p, room, num, skip, v)
             /\ v.used = n \/ Len(v.out) = room
           M == {n \in Nat : n <= Len(s) => Good(after[n], n)}
<1>2. Len(s) \in Nat
  BY LineFacts
<1>3. 0 \in M
  <2>1. PICK v : v = after[0]
    OBVIOUS
  <2>2. v.index = index /\ v.used = 0 /\ v.out = <<>>
    BY <1>1, <2>1
  <2>3. v \in SelectState(num, skip)
    BY <1>1, <2>1, EmptySeq DEF SelectState
  <2>4. Rest(s, v.used) = s
    BY <2>2, RestNone
  <2>5. pend \o v.out = pend
    BY <2>2, ConcatEmptySeq
  <2>6. Len(v.out) = 0
    BY <2>2, EmptySeq
  <2>7. v.used \in 0..Len(s) /\ Len(v.out) <= room
    BY <1>2, <2>2, <2>6
  <2>8. Selecting(lost, fresh, units, pend, s, more, p, room, num, skip, v)
    BY <2>2, <2>3, <2>4, <2>5, <2>7 DEF Selecting
  <2> QED
    BY <2>1, <2>2, <2>8
<1>4. ASSUME NEW n \in Nat, n \in M
      PROVE  n + 1 \in M
  <2> SUFFICES ASSUME n + 1 <= Len(s)
               PROVE  Good(after[n + 1], n + 1)
    OBVIOUS
  <2>1. PICK v : v = after[n]
    OBVIOUS
  <2>2. Good(v, n)
    BY <1>2, <1>4, <2>1
  <2>3. after[n + 1] = SelectRound(v, s[n + 1], room, num, skip)
    <3>1. n + 1 \in 1..Len(s) /\ (n + 1) - 1 = n
      BY <1>2
    <3> QED
      BY <1>1, <2>1, <3>1
  <2>4. CASE Len(v.out) = room
    <3>1. after[n + 1] = v
      BY <2>3, <2>4 DEF SelectRound
    <3> QED
      BY <2>2, <2>4, <3>1
  <2>5. CASE Len(v.out) # room
    <3>1. PICK v1 : v1 = after[n + 1]
      OBVIOUS
    <3>2. v.used = n /\ Len(v.out) < room
      <4>1. v.used = n /\ Len(v.out) <= room /\ v.out \in Seq(Vectors)
        BY <2>2, <2>5 DEF Selecting, SelectState
      <4>2. Len(v.out) \in Nat
        BY <4>1, LineFacts
      <4> QED
        BY <2>5, <4>1, <4>2
    <3>3. v.used < Len(s) /\ v1 = SelectRound(v, s[v.used + 1], room, num, skip)
      BY <1>2, <2>3, <3>1, <3>2
    <3>4. Selecting(lost, fresh, units, pend, s, more, p, room, num, skip, v)
      BY <2>2
    <3> HIDE DEF Good
    <3>5. /\ Selecting(lost, fresh, units, pend, s, more, p, room, num, skip, v1)
          /\ v1.used = v.used + 1
      <4>1. /\ Len(v.out) < room /\ v.used < Len(s)
            /\ Selecting(lost, fresh, units, pend, s, more, p, room, num, skip, v)
        BY <3>2, <3>3, <3>4
      <4>2. LET v2 == SelectRound(v, s[v.used + 1], room, num, skip)
            IN  /\ Selecting(lost, fresh, units, pend, s, more, p, room, num, skip, v2)
                /\ v2.used = v.used + 1
        BY <4>1, SelectOnce
      <4> QED
        BY <3>3, <4>2
    <3> QED
      BY <3>1, <3>2, <3>5 DEF Good
  <2> QED
    BY <2>4, <2>5
<1>5. Nat \subseteq M
  <2> HIDE DEF M
  <2> QED
    BY <1>3, <1>4, Induction
<1>6. Good(w, Len(s))
  <2>1. Len(s) \in M
    BY <1>2, <1>5
  <2> HIDE DEF Good
  <2> QED
    BY <1>1, <1>2, <2>1
<1> QED
  BY <1>6

-----------------------------------------------------------------------------
(* A call of magnitude_equalizer *)

LEMMA GreatestNumber ==
    ASSUME NEW n \in Nat, NEW S, S \subseteq 0..n, S # {}
    PROVE  \E d \in S : \A e \in S : e <= d
<1> DEFINE T == {n - d : d \in S}
<1>1. T \subseteq Nat /\ T # {}
  <2>1. \A d \in S : n - d \in Nat
    OBVIOUS
  <2> QED
    BY <2>1
<1>2. PICK m \in T : \A k \in T : m <= k
  <2> HIDE DEF T
  <2> QED
    BY <1>1, LeastNumber
<1>3. PICK d \in S : m = n - d
  BY <1>2
<1>4. \A e \in S : n - d <= n - e
  BY <1>2, <1>3
<1>5. \A e \in S : e <= d
  <2>1. \A e \in S : e \in Nat
    OBVIOUS
  <2> QED
    BY <1>4, <2>1
<1> QED
  BY <1>5

\* The identities of a line.
LineTrail(line) == [i \in 1..Len(line) |-> line[i].id]

\* The equalizer's output and history, with the line that they are cut from, the
\* places in it where a tag is due, and those of them behind the output.
Shifted(line, n, due, late, w) ==
    /\ late = {d \in due : d > n}
    /\ w.add_at = IF late = {} THEN -1
                  ELSE (CHOOSE d \in late : \A e \in late : e <= d) - n - 1
    /\ w.hist = SubSeq(line, n + 1, Len(line))
    /\ w.out = [i \in 1..n |-> Retag(line[i], i \in due)]

\* The tag that is remembered is the last one due behind the output.
LEMMA LastLate ==
    ASSUME NEW n \in Nat, NEW line, Len(line) \in Nat, NEW due, due \subseteq 1..Len(line),
           NEW late, NEW w, Shifted(line, n, due, late, w), late # {}
    PROVE  \E d \in late : /\ w.add_at = d - n - 1 /\ d \in due /\ d > n
                           /\ \A e \in late : e <= d
<1>1. late = {d \in due : d > n}
  BY DEF Shifted
<1>2. late \subseteq 0..Len(line)
  <2>1. \A d \in due : d \in 0..Len(line)
    <3>1. \A d \in 1..Len(line) : d \in 0..Len(line)
      OBVIOUS
    <3> QED
      BY <3>1
  <2> QED
    BY <1>1, <2>1
<1>3. \E d \in late : \A e \in late : e <= d
  BY <1>2, GreatestNumber
<1>4. PICK d : d = CHOOSE l \in late : \A e \in late : e <= l
  OBVIOUS
<1>5. d \in late /\ \A e \in late : e <= d
  BY <1>3, <1>4
<1>6. w.add_at = d - n - 1
  BY <1>4 DEF Shifted
<1> QED
  BY <1>1, <1>5, <1>6

\* The tag remembered is that of the only first symbol in the new history.
LEMMA LateFacts ==
    ASSUME NEW lost, NEW fresh \in BOOLEAN, NEW num \in Nat, num >= 1, num <= PerFrame,
           NEW n \in Nat, NEW line \in Seq(Vectors), Len(line) = n + num - 1,
           Run(lost, LineTrail(line)), NEW due, due \subseteq 1..Len(line),
           \A d \in 1..Len(line) : TagRight(lost, fresh, line[d].id, d \in due),
           NEW late, NEW w, Shifted(line, n, due, late, w)
    PROVE  /\ w.add_at \in -1..(num - 2)
           /\ \A i \in 1..(num - 1) : TagRight(lost, fresh, line[n + i].id, w.add_at = i - 1)
<1>1. Len(line) \in Nat /\ \A d \in 1..Len(line) : line[d].id \in Ids
  BY LineFacts
<1>2. late = {d \in due : d > n}
  BY DEF Shifted
<1>3. late # {} => \E d \in late : /\ w.add_at = d - n - 1 /\ d \in due /\ d > n
                                   /\ \A e \in late : e <= d
  BY <1>1, LastLate, ZenonT(30)
<1>4. w.add_at \in -1..(num - 2)
  <2>1. CASE late = {}
    <3>1. w.add_at = -1
      BY <2>1 DEF Shifted
    <3>2. -1 \in -1..(num - 2)
      OBVIOUS
    <3> QED
      BY <3>1, <3>2
  <2>2. CASE late # {}
    <3>1. PICK d \in due : w.add_at = d - n - 1 /\ d > n
      BY <1>3, <2>2
    <3>2. d \in Nat /\ d <= n + num - 1
      BY <1>1
    <3> QED
      BY <3>1, <3>2
  <2> QED
    BY <2>1, <2>2
<1>5. ASSUME NEW i \in 1..(num - 1)
      PROVE  TagRight(lost, fresh, line[n + i].id, w.add_at = i - 1)
  <2>1. PICK x \in 1..Len(line) : x = n + i
    BY <1>1
  <2>2. PICK id \in Ids : id = line[x].id
    BY <1>1
  <2> SUFFICES ASSUME id[1] \notin lost, id[1] = 0 => fresh
               PROVE  w.add_at = i - 1 <=> id[2] = 1
    BY <2>1, <2>2 DEF TagRight
  <2>3. x \in due <=> id[2] = 1
    BY <2>2 DEF TagRight
  <2>4. ASSUME w.add_at = i - 1
        PROVE  id[2] = 1
    <3>1. late # {}
      <4>1. w.add_at # -1
        BY <2>4
      <4> QED
        BY <4>1 DEF Shifted
    <3>2. PICK d \in due : w.add_at = d - n - 1
      BY <1>3, <3>1
    <3>3. d = x
      <4>1. d \in Nat
        BY <1>1
      <4> QED
        BY <2>1, <2>4, <3>2, <4>1
    <3> QED
      BY <2>3, <3>2, <3>3
  <2>5. ASSUME id[2] = 1
        PROVE  w.add_at = i - 1
    <3>1. x \in late
      <4>1. x > n
        BY <2>1
      <4> QED
        BY <1>2, <2>3, <2>5, <4>1
    <3>2. PICK d \in due : w.add_at = d - n - 1 /\ x <= d
      BY <1>3, <3>1
    <3>3. d \in due /\ d \in 1..Len(line) /\ d \in Nat /\ d <= n + num - 1
      BY <1>1, <3>2
    <3>4. CASE d = x
      BY <2>1, <3>2, <3>3, <3>4
    <3>5. CASE d # x
      <4>1. PICK T : T = LineTrail(line)
        OBVIOUS
      <4>2. InPlace(lost, T, d, x)
        <5>1. d \in DOMAIN T /\ x \in DOMAIN T
          BY <3>3, <4>1 DEF LineTrail
        <5> QED
          BY <4>1, <5>1 DEF Run
      <4>3. T[x] = id /\ T[d] = line[d].id
        BY <2>2, <3>3, <4>1 DEF LineTrail
      <4>4. id[1] # 0
        BY <2>5, IdFacts DEF Blank
      <4>5. PICK k \in Nat : k = 1 + (d - x) /\ k >= 2 /\ k < PerFrame
        <5>1. x \in Nat /\ x > n
          BY <2>1
        <5>2. d - x >= 1 /\ d - x <= num - 2 /\ d - x \in Nat
          BY <3>2, <3>3, <3>5, <5>1
        <5>3. 1 + (d - x) \in Nat /\ 1 + (d - x) >= 2 /\ 1 + (d - x) < PerFrame
          BY <5>2, Sizes
        <5> QED
          BY <5>3
      <4>6. line[d].id[1] = id[1] /\ line[d].id[2] = k
        BY <2>5, <4>2, <4>3, <4>4, <4>5 DEF InPlace
      <4>7. TagRight(lost, fresh, line[d].id, d \in due)
        BY <3>3
      <4> QED
        BY <3>3, <4>4, <4>5, <4>6, <4>7 DEF TagRight
    <3> QED
      BY <3>4, <3>5
  <2> QED
    BY <2>4, <2>5
<1> QED
  BY <1>4, <1>5

\* The places in the line where the code finds a tag due.
DueTags(add_at, s, num) ==
    {i + num - 1 : i \in Tagged(s)} \cup (IF add_at >= 0 THEN {add_at + 1} ELSE {})

\* The tags due are those of the first symbols in the line.
DueRight(lost, fresh, line, due) ==
    /\ due \subseteq 1..Len(line)
    /\ \A d \in 1..Len(line) : TagRight(lost, fresh, line[d].id, d \in due)

\* A line of vectors, a first and b behind it.
IsJoined(line, a, b) ==
    /\ line \in Seq(Vectors) /\ Len(line) = Len(a) + Len(b)
    /\ Len(a) \in Nat /\ Len(b) \in Nat
    /\ \A i \in 1..Len(a) : line[i] = a[i]
    /\ \A i \in 1..Len(b) : line[Len(a) + i] = b[i]

LEMMA JoinedLines ==
    ASSUME NEW a \in Seq(Vectors), NEW b \in Seq(Vectors)
    PROVE  IsJoined(a \o b, a, b)
BY Joined DEF IsJoined

LEMMA DueFacts ==
    ASSUME NEW lost, NEW fresh \in BOOLEAN, NEW num \in Nat, num >= 1,
           NEW add_at \in -1..(num - 2), NEW h \in Seq(Vectors), Len(h) = num - 1,
           NEW s \in Seq(Vectors), HistTags(lost, fresh, h, add_at), Tags(lost, fresh, s)
    PROVE  DueRight(lost, fresh, h \o s, DueTags(add_at, s, num))
<1>1. PICK line, due : line = h \o s /\ due = DueTags(add_at, s, num)
  OBVIOUS
<1>2. PICK n \in Nat : n = Len(s)
  BY LineFacts
<1>3. /\ Len(line) = (num - 1) + n
      /\ \A d \in 1..(num - 1) : line[d] = h[d]
      /\ \A i \in 1..n : line[num - 1 + i] = s[i]
  <2>1. IsJoined(line, h, s)
    BY <1>1, JoinedLines
  <2> QED
    BY <1>2, <2>1 DEF IsJoined
<1>4. due \subseteq 1..Len(line)
  <2> SUFFICES ASSUME NEW d \in due
               PROVE  d \in 1..Len(line)
    OBVIOUS
  <2>1. CASE \E i \in Tagged(s) : d = i + num - 1
    <3>1. PICK i \in 1..n : d = i + num - 1
      BY <1>2, <2>1 DEF Tagged
    <3> QED
      BY <1>3, <3>1, SMTT(30)
  <2>2. CASE add_at >= 0 /\ d = add_at + 1
    BY <1>3, <2>2
  <2> QED
    BY <1>1, <2>1, <2>2 DEF DueTags
<1>5. ASSUME NEW d \in 1..Len(line)
      PROVE  TagRight(lost, fresh, line[d].id, d \in due)
  <2>1. CASE d <= num - 1
    <3>1. d \in due <=> add_at = d - 1
      <4>1. \A i \in Tagged(s) : d # i + num - 1
        <5>1. \A i \in 1..n : d # i + num - 1
          BY <1>3, <2>1
        <5> QED
          BY <1>2, <5>1 DEF Tagged
      <4>2. d \in due <=> add_at >= 0 /\ d = add_at + 1
        BY <1>1, <4>1 DEF DueTags
      <4> QED
        BY <1>3, <4>2
    <3>2. d \in 1..Len(h) /\ line[d] = h[d]
      BY <1>3, <2>1
    <3> QED
      BY <3>1, <3>2, SMTT(30) DEF HistTags
  <2>2. CASE d > num - 1
    <3>1. PICK i \in 1..n : d = i + num - 1
      <4>1. d - (num - 1) \in 1..n /\ d = (d - (num - 1)) + num - 1
        BY <1>3, <2>2
      <4> QED
        BY <4>1
    <3>2. d \in due <=> s[i].first
      <4>1. ~(add_at >= 0 /\ d = add_at + 1)
        BY <2>2
      <4>2. d \in due <=> \E k \in Tagged(s) : d = k + num - 1
        BY <1>1, <4>1 DEF DueTags
      <4>3. \A k \in Tagged(s) : k \in 1..n /\ s[k].first
        BY <1>2 DEF Tagged
      <4>4. \A k \in 1..n : d = k + num - 1 => k = i
        BY <3>1
      <4>5. s[i].first => i \in Tagged(s)
        BY <1>2 DEF Tagged
      <4> QED
        BY <3>1, <4>2, <4>3, <4>4, <4>5
    <3>3. line[d] = s[i]
      <4>1. line[num - 1 + i] = s[i] /\ num - 1 + i = d
        BY <1>3, <3>1
      <4> QED
        BY <4>1
    <3>4. TagRight(lost, fresh, s[i].id, s[i].first)
      BY <1>2 DEF Tags
    <3>5. s[i].first \in BOOLEAN
      BY <1>2, LineFacts
    <3> QED
      BY <3>2, <3>3, <3>4, <3>5 DEF TagRight
  <2> QED
    BY <1>3, <2>1, <2>2
<1> QED
  BY <1>1, <1>4, <1>5 DEF DueRight

\* Two lines with the same identities.
SameIds(new, line) ==
    Len(new) = Len(line) /\ \A i \in 1..Len(line) : new[i].id = line[i].id

\* What a call of the equalizer leaves of the history h and the input s.
Equalized(lost, fresh, h, s, num, w) ==
    /\ w.add_at \in -1..(num - 2)
    /\ w.hist \in Seq(Vectors) /\ Len(w.hist) = num - 1
    /\ HistTags(lost, fresh, w.hist, w.add_at)
    /\ w.out \in Seq(Vectors) /\ Len(w.out) = Len(s) /\ Tags(lost, fresh, w.out)
    /\ SameIds(w.out \o w.hist, h \o s)

LEMMA EqualizeFacts ==
    ASSUME NEW lost, NEW fresh \in BOOLEAN, NEW num \in Nat, num >= 1, num <= PerFrame,
           NEW add_at \in -1..(num - 2), NEW h \in Seq(Vectors), Len(h) = num - 1,
           NEW s \in Seq(Vectors), HistTags(lost, fresh, h, add_at), Tags(lost, fresh, s),
           Run(lost, LineTrail(h \o s)), NEW w, w = Equalize(add_at, h, s, num)
    PROVE  Equalized(lost, fresh, h, s, num, w)
<1>1. PICK line, due, n, late : /\ line = h \o s /\ due = DueTags(add_at, s, num)
                                /\ n = Len(s) /\ late = {d \in due : d > n}
  OBVIOUS
<1>2. n \in Nat /\ line \in Seq(Vectors) /\ Len(line) = n + num - 1
  <2>1. n \in Nat
    BY <1>1, LineFacts
  <2>2. line \in Seq(Vectors) /\ Len(line) = Len(h) + Len(s)
    BY <1>1, Joined
  <2> QED
    BY <1>1, <2>1, <2>2
<1>3. Shifted(line, n, due, late, w)
  <2>1. w = [add_at |-> IF late = {} THEN -1
                        ELSE (CHOOSE d \in late : \A e \in late : e <= d) - n - 1,
             hist |-> SubSeq(line, n + 1, Len(line)),
             out |-> [i \in 1..n |-> Retag(line[i], i \in due)]]
    BY <1>1 DEF Equalize, DueTags
  <2>2. PICK at : at = IF late = {} THEN -1
                       ELSE (CHOOSE d \in late : \A e \in late : e <= d) - n - 1
    <3>1. PICK last : last = CHOOSE d \in late : \A e \in late : e <= d
      BY Zenon
    <3>2. \E at : at = IF late = {} THEN -1 ELSE last - n - 1
      OBVIOUS
    <3> QED
      BY <3>1, <3>2, Zenon
  <2>3. PICK rest : rest = SubSeq(line, n + 1, Len(line))
    BY Zenon
  <2>4. PICK out : out = [i \in 1..n |-> Retag(line[i], i \in due)]
    BY Zenon
  <2>5. w = [add_at |-> at, hist |-> rest, out |-> out]
    BY <2>1, <2>2, <2>3, <2>4, Zenon
  <2>6. w.add_at = at /\ w.hist = rest /\ w.out = out
    BY <2>5
  <2> QED
    BY <1>1, <2>2, <2>3, <2>4, <2>6, Zenon DEF Shifted
<1>4. /\ due \subseteq 1..Len(line)
      /\ \A d \in 1..Len(line) : TagRight(lost, fresh, line[d].id, d \in due)
  <2>1. DueRight(lost, fresh, h \o s, DueTags(add_at, s, num))
    BY DueFacts
  <2> QED
    BY <1>1, <2>1 DEF DueRight
<1>5. /\ w.add_at \in -1..(num - 2)
      /\ \A i \in 1..(num - 1) : TagRight(lost, fresh, line[n + i].id, w.add_at = i - 1)
  <2>1. Run(lost, LineTrail(line))
    BY <1>1
  <2> QED
    BY <1>2, <1>3, <1>4, <2>1, LateFacts
<1>6. PICK hist1 : hist1 = w.hist /\ hist1 = Rest(line, n)
  BY <1>3 DEF Shifted, Rest
<1>7. /\ hist1 \in Seq(Vectors) /\ Len(hist1) = num - 1
      /\ \A i \in 1..(num - 1) : hist1[i] = line[n + i]
  <2>1. n \in 0..Len(line) /\ Len(line) - n = num - 1
    BY <1>2
  <2>2. /\ Rest(line, n) \in Seq(Vectors) /\ Len(Rest(line, n)) = Len(line) - n
        /\ \A i \in 1..Len(Rest(line, n)) : Rest(line, n)[i] = line[n + i]
    BY <1>2, <2>1, RestFacts
  <2> QED
    BY <1>6, <2>1, <2>2
<1>8. PICK out : out = w.out /\ out = [i \in 1..n |-> Retag(line[i], i \in due)]
  BY <1>3 DEF Shifted
<1>9. \A i \in 1..n : i \in 1..Len(line) /\ line[i] \in Vectors
  BY <1>2, LineFacts
<1>10. ASSUME NEW i \in 1..n
       PROVE  out[i] \in Vectors /\ out[i].id = line[i].id /\ (out[i].first <=> i \in due)
  <2>1. PICK v \in Vectors : v = line[i]
    BY <1>9
  <2>2. out[i] = Retag(v, i \in due)
    BY <1>8, <2>1
  <2>3. CASE i \in due
    <3>1. (i \in due) = TRUE
      BY <2>3
    <3>2. out[i] = Retag(v, TRUE)
      BY <2>2, <3>1
    <3> QED
      BY <2>1, <2>3, <3>2, Retagged
  <2>4. CASE i \notin due
    <3>1. (i \in due) = FALSE
      BY <2>4
    <3>2. out[i] = Retag(v, FALSE)
      BY <2>2, <3>1
    <3> QED
      BY <2>1, <2>4, <3>2, Retagged
  <2> QED
    BY <2>3, <2>4
<1>11. out \in Seq(Vectors) /\ Len(out) = n
  <2>1. out \in [1..n -> Vectors]
    BY <1>8, <1>10
  <2> QED
    BY <1>2, <2>1, SeqDef, LenProperties
<1>12. Tags(lost, fresh, out)
  <2>1. ASSUME NEW i \in 1..n
        PROVE  TagRight(lost, fresh, out[i].id, out[i].first)
    <3>1. TagRight(lost, fresh, line[i].id, i \in due)
      BY <1>4, <1>9
    <3> QED
      BY <1>10, <3>1 DEF TagRight
  <2> QED
    BY <1>11, <2>1 DEF Tags
<1>13. HistTags(lost, fresh, hist1, w.add_at)
  BY <1>5, <1>7 DEF HistTags
<1>14. SameIds(out \o hist1, line)
  <2>1. /\ Len(out \o hist1) = n + (num - 1)
        /\ \A i \in 1..n : (out \o hist1)[i] = out[i]
        /\ \A i \in 1..(num - 1) : (out \o hist1)[n + i] = hist1[i]
    <3>1. IsJoined(out \o hist1, out, hist1)
      BY <1>7, <1>11, JoinedLines
    <3> QED
      BY <1>7, <1>11, <3>1 DEF IsJoined
  <2>2. ASSUME NEW i \in 1..Len(line)
        PROVE  (out \o hist1)[i].id = line[i].id
    <3>1. CASE i <= n
      BY <1>2, <1>10, <2>1, <3>1
    <3>2. CASE i > n
      <4>1. PICK k \in 1..(num - 1) : i = n + k
        <5>1. i - n \in 1..(num - 1) /\ i = n + (i - n)
          BY <1>2, <3>2
        <5> QED
          BY <5>1
      <4> QED
        BY <1>7, <2>1, <4>1
    <3>3. i <= n \/ i > n
      BY <1>2
    <3> QED
      BY <3>1, <3>2, <3>3
  <2> QED
    BY <1>2, <2>1, <2>2 DEF SameIds
<1> QED
  BY <1>1, <1>5, <1>6, <1>7, <1>8, <1>11, <1>12, <1>13, <1>14 DEF Equalized

\* Concatenation is associative.
Grouped(a, b, c) == a \o b \o c = a \o (b \o c)

LEMMA Associative ==
    ASSUME NEW a \in Seq(Vectors), NEW b \in Seq(Vectors), NEW c \in Seq(Vectors)
    PROVE  Grouped(a, b, c)
BY ConcatAssociative DEF Grouped

LEMMA SplitLine ==
    ASSUME NEW e \in Seq(Vectors), NEW n \in 0..Len(e)
    PROVE  /\ SubSeq(e, 1, n) \in Seq(Vectors) /\ Len(SubSeq(e, 1, n)) = n
           /\ \A i \in 1..n : SubSeq(e, 1, n)[i] = e[i]
           /\ Rest(e, n) \in Seq(Vectors) /\ Len(Rest(e, n)) = Len(e) - n
           /\ SubSeq(e, 1, n) \o Rest(e, n) = e
<1>1. Len(e) \in Nat /\ n \in Nat /\ n <= Len(e) /\ \A i \in 1..n : e[i] \in Vectors
  <2>1. Len(e) \in Nat
    BY LineFacts
  <2> QED
    BY <2>1, LineFacts
<1>2. PICK m : m = SubSeq(e, 1, n)
  OBVIOUS
<1>3. m \in Seq(Vectors) /\ Len(m) = n /\ \A i \in 1..n : m[i] = e[i]
  BY <1>1, <1>2, SubSeqProperties
<1>4. Rest(e, n) \in Seq(Vectors) /\ Len(Rest(e, n)) = Len(e) - n
  BY RestFacts
<1>5. SubSeq(e, 1, n) \o SubSeq(e, n + 1, Len(e)) = SubSeq(e, 1, Len(e))
  <2>1. 1 \in 1..(Len(e) + 1) /\ n \in (1 - 1)..Len(e) /\ Len(e) \in n..Len(e)
    BY <1>1
  <2> QED
    BY <2>1, ConcatAdjacentSubSeq, Zenon
<1>6. SubSeq(e, 1, Len(e)) = e
  BY SubSeqFull, Zenon
<1> QED
  BY <1>2, <1>3, <1>4, <1>5, <1>6 DEF Rest

\* F is a stretch of the trail E, k places on.
Stretch(F, E, k, n) ==
    \A i \in 1..n : k + i \in DOMAIN E /\ F[i] = E[k + i]

LEMMA SubRun ==
    ASSUME NEW lost, NEW E, Run(lost, E), NEW k \in Nat, NEW n \in Nat,
           NEW F \in [1..n -> Pairs], Stretch(F, E, k, n)
    PROVE  Run(lost, F)
<1> SUFFICES ASSUME NEW i \in 1..n, NEW j \in 1..n
             PROVE  InPlace(lost, F, i, j)
  BY DEF Run
<1>1. InPlace(lost, E, k + i, k + j)
  <2>1. k + i \in DOMAIN E /\ k + j \in DOMAIN E
    BY DEF Stretch
  <2> QED
    BY <2>1 DEF Run
<1>2. F[i] = E[k + i] /\ F[j] = E[k + j] /\ (k + i) - (k + j) = i - j
  BY DEF Stretch
<1> QED
  BY <1>1, <1>2 DEF InPlace

\* A stretch of a line has the line's runs.
LEMMA MiddleRun ==
    ASSUME NEW lost, NEW a \in Seq(Vectors), NEW b \in Seq(Vectors), NEW c \in Seq(Vectors),
           NEW x \in Pairs, Run(lost, Trail(a \o (b \o c), x))
    PROVE  Run(lost, LineTrail(b))
<1>1. PICK m : m = b \o c
  OBVIOUS
<1>2. IsJoined(m, b, c) /\ m \in Seq(Vectors)
  BY <1>1, JoinedLines DEF IsJoined
<1>3. PICK line : line = a \o m
  OBVIOUS
<1>4. IsJoined(line, a, m) /\ line \in Seq(Vectors)
  BY <1>2, <1>3, JoinedLines, ZenonT(30) DEF IsJoined
<1>5. PICK k \in Nat, n \in Nat, N \in Nat : /\ k = Len(a) /\ n = Len(b) /\ N = Len(line) + 1
                                            /\ k + n <= N
  <2>1. /\ Len(a) \in Nat /\ Len(b) \in Nat /\ Len(c) \in Nat /\ Len(m) = Len(b) + Len(c)
        /\ Len(line) = Len(a) + Len(m)
    BY <1>2, <1>4 DEF IsJoined
  <2> QED
    BY <2>1
<1>6. PICK E : E = Trail(line, x)
  OBVIOUS
<1>7. E \in [1..N -> Pairs] /\ \A i \in 1..Len(line) : E[i] = line[i].id
  BY <1>4, <1>5, <1>6, TrailFacts
<1>8. PICK F : F = LineTrail(b)
  OBVIOUS
<1>9. F \in [1..n -> Pairs]
  <2>1. \A i \in 1..n : b[i].id \in Pairs
    BY <1>5, LineFacts, IdFacts
  <2> QED
    BY <1>5, <1>8, <2>1 DEF LineTrail
<1>10. ASSUME NEW i \in 1..n
       PROVE  k + i \in DOMAIN E /\ F[i] = E[k + i]
  <2>1. i \in 1..Len(m) /\ m[i] = b[i]
    BY <1>2, <1>5 DEF IsJoined
  <2>2. k + i \in 1..Len(line) /\ line[k + i] = m[i]
    BY <1>4, <1>5, <2>1 DEF IsJoined
  <2> QED
    BY <1>5, <1>7, <1>8, <2>1, <2>2 DEF LineTrail
<1>11. Run(lost, E)
  BY <1>1, <1>3, <1>6
<1>12. Run(lost, F)
  <2>1. Stretch(F, E, k, n)
    BY <1>10 DEF Stretch
  <2> QED
    BY <1>9, <1>11, <2>1, SubRun
<1> QED
  BY <1>8, <1>12

LEMMA SameJoined ==
    ASSUME NEW a \in Seq(Vectors), NEW b \in Seq(Vectors), NEW a1 \in Seq(Vectors),
           NEW b1 \in Seq(Vectors), SameIds(a1, a), SameIds(b1, b)
    PROVE  SameIds(a1 \o b1, a \o b)
<1>1. PICK c, c1 : c = a \o b /\ c1 = a1 \o b1
  OBVIOUS
<1>2. IsJoined(c, a, b) /\ IsJoined(c1, a1, b1)
  BY <1>1, JoinedLines
<1>3. Len(a1) = Len(a) /\ Len(b1) = Len(b)
  BY DEF SameIds
<1>4. ASSUME NEW i \in 1..Len(c)
      PROVE  c1[i].id = c[i].id
  <2>1. CASE i <= Len(a)
    <3>1. i \in 1..Len(a) /\ i \in 1..Len(a1)
      BY <1>2, <1>3, <2>1 DEF IsJoined
    <3>2. c1[i] = a1[i] /\ c[i] = a[i]
      BY <1>2, <3>1 DEF IsJoined
    <3> QED
      BY <3>1, <3>2 DEF SameIds
  <2>2. CASE i > Len(a)
    <3>1. PICK k \in 1..Len(b) : i = Len(a) + k
      <4>1. i - Len(a) \in 1..Len(b) /\ i = Len(a) + (i - Len(a))
        BY <1>2, <2>2 DEF IsJoined
      <4> QED
        BY <4>1
    <3>2. c1[i] = b1[k] /\ c[i] = b[k]
      BY <1>2, <1>3, <3>1 DEF IsJoined
    <3> QED
      BY <3>2 DEF SameIds
  <2>3. i <= Len(a) \/ i > Len(a)
    BY <1>2 DEF IsJoined
  <2> QED
    BY <2>1, <2>2, <2>3
<1>5. Len(c1) = Len(c)
  BY <1>2, <1>3 DEF IsJoined
<1> QED
  BY <1>1, <1>4, <1>5 DEF SameIds

\* What a call with the first n of e pending has left: the rest of the line is as
\* it was, and what it has put out has moved from the history behind q.
LEMMA HalfEqualized ==
    ASSUME NEW lost, NEW fresh \in BOOLEAN, NEW num \in Nat, NEW skip \in Nat, NEW units,
           NEW pend, NEW index, NEW p, NEW q \in Seq(Vectors), NEW h \in Seq(Vectors),
           NEW e \in Seq(Vectors), NEW n \in 0..Len(e),
           NEW out \in Seq(Vectors), NEW hist1 \in Seq(Vectors),
           SameIds(out \o hist1, h \o SubSeq(e, 1, n)),
           Half(lost, fresh, units, pend, index, q \o h \o e, p, num, skip)
    PROVE  Half(lost, fresh, units, pend, index, q \o out \o hist1 \o Rest(e, n), p, num, skip)
<1>1. PICK pre, rest : pre = SubSeq(e, 1, n) /\ rest = Rest(e, n)
  OBVIOUS
<1>2. pre \in Seq(Vectors) /\ rest \in Seq(Vectors) /\ pre \o rest = e
  BY <1>1, SplitLine, Zenon
<1>3. q \o h \o e = q \o (h \o pre \o rest)
  <2>1. Grouped(h, pre, rest)
    BY <1>2, Associative
  <2>2. Grouped(q, h, e)
    BY Associative
  <2> QED
    BY <1>2, <2>1, <2>2 DEF Grouped
<1>4. PICK a, a1 : a = h \o pre /\ a1 = out \o hist1
  OBVIOUS
<1>5. a \in Seq(Vectors) /\ a1 \in Seq(Vectors) /\ SameIds(a1, a)
  BY <1>1, <1>2, <1>4, JoinedLines DEF IsJoined
<1>6. q \o out \o hist1 \o rest = q \o (a1 \o rest)
  <2>1. Grouped(q, out, hist1)
    BY Associative
  <2>2. Grouped(q, a1, rest)
    BY <1>2, <1>5, Associative
  <2> QED
    BY <1>4, <2>1, <2>2 DEF Grouped
<1>7. PICK m, m1 : m = a \o rest /\ m1 = a1 \o rest
  OBVIOUS
<1>8. m \in Seq(Vectors) /\ m1 \in Seq(Vectors) /\ SameIds(m1, m)
  <2>1. SameIds(rest, rest) /\ SameIds(q, q)
    BY DEF SameIds
  <2>2. m \in Seq(Vectors) /\ m1 \in Seq(Vectors)
    BY <1>2, <1>5, <1>7, JoinedLines DEF IsJoined
  <2> QED
    BY <1>2, <1>5, <1>7, <2>1, <2>2, SameJoined
<1>9. SameIds(q \o m1, q \o m)
  <2>1. SameIds(q, q)
    BY DEF SameIds
  <2> QED
    BY <1>8, <2>1, SameJoined
<1>10. PICK line, new : line = q \o m /\ new = q \o m1
  OBVIOUS
<1>11. Half(lost, fresh, units, pend, index, line, p, num, skip)
  BY <1>3, <1>4, <1>7, <1>10
<1>12. Half(lost, fresh, units, pend, index, new, p, num, skip)
  BY <1>9, <1>10, <1>11, HalfSame DEF SameIds
<1> QED
  BY <1>1, <1>6, <1>7, <1>10, <1>12

-----------------------------------------------------------------------------
(* Edges, and what the sampler puts on the first *)

LEMMA TagsJoined ==
    ASSUME NEW lost, NEW fresh, NEW a \in Seq(Vectors), NEW b \in Seq(Vectors),
           Tags(lost, fresh, a), Tags(lost, fresh, b)
    PROVE  Tags(lost, fresh, a \o b)
<1>1. PICK line : line = a \o b
  OBVIOUS
<1>2. IsJoined(line, a, b)
  BY <1>1, JoinedLines
<1>3. ASSUME NEW i \in 1..Len(line)
      PROVE  TagRight(lost, fresh, line[i].id, line[i].first)
  <2>1. CASE i <= Len(a)
    <3>1. i \in 1..Len(a) /\ line[i] = a[i]
      BY <1>2, <2>1 DEF IsJoined
    <3> QED
      BY <3>1 DEF Tags
  <2>2. CASE i > Len(a)
    <3>1. PICK k \in 1..Len(b) : i = Len(a) + k
      <4>1. i - Len(a) \in 1..Len(b) /\ i = Len(a) + (i - Len(a))
        BY <1>2, <2>2 DEF IsJoined
      <4> QED
        BY <4>1
    <3>2. line[i] = b[k]
      BY <1>2, <3>1 DEF IsJoined
    <3> QED
      BY <3>2 DEF Tags
  <2>3. i <= Len(a) \/ i > Len(a)
    BY <1>2 DEF IsJoined
  <2> QED
    BY <2>1, <2>2, <2>3
<1> QED
  BY <1>1, <1>3 DEF Tags

LEMMA TagsSplit ==
    ASSUME NEW lost, NEW fresh, NEW e \in Seq(Vectors), NEW n \in 0..Len(e),
           Tags(lost, fresh, e)
    PROVE  Tags(lost, fresh, SubSeq(e, 1, n)) /\ Tags(lost, fresh, Rest(e, n))
<1>1. PICK pre, rest : pre = SubSeq(e, 1, n) /\ rest = Rest(e, n)
  OBVIOUS
<1>2. Len(pre) = n /\ \A i \in 1..n : i \in 1..Len(e) /\ pre[i] = e[i]
  <2>1. Len(e) \in Nat
    BY LineFacts
  <2>2. Len(pre) = n /\ \A i \in 1..n : pre[i] = e[i]
    BY <1>1, SplitLine
  <2> QED
    BY <2>1, <2>2
<1>3. \A i \in 1..Len(rest) : n + i \in 1..Len(e) /\ rest[i] = e[n + i]
  BY <1>1, RestFacts
<1> QED
  BY <1>1, <1>2, <1>3 DEF Tags

LEMMA EdgeFacts ==
    ASSUME NEW e, IsEdge(e)
    PROVE  e \in Seq(Vectors) /\ Len(e) \in Nat /\ Len(e) <= EdgeCap
BY LineFacts DEF IsEdge

LEMMA EdgeJoined ==
    ASSUME NEW e, IsEdge(e), NEW room \in Nat, room <= Room(e),
           NEW out \in Seq(Vectors), Len(out) <= room
    PROVE  IsEdge(e \o out)
<1>1. IsJoined(e \o out, e, out) /\ Len(e) \in Nat
  BY EdgeFacts, JoinedLines
<1> QED
  BY <1>1, Sizes DEF IsJoined, IsEdge, Room

LEMMA EdgeRest ==
    ASSUME NEW e, IsEdge(e), NEW n \in 0..Len(e)
    PROVE  IsEdge(Rest(e, n))
<1>1. /\ e \in Seq(Vectors) /\ Len(e) \in Nat /\ Len(e) <= EdgeCap
      /\ Rest(e, n) \in Seq(Vectors) /\ Len(Rest(e, n)) = Len(e) - n
  BY EdgeFacts, RestFacts
<1> QED
  BY <1>1, Sizes DEF IsEdge

LEMMA ComingFacts ==
    ASSUME NEW s \in Seq(Vectors), NEW b \in Pairs, Source(s, b)
    PROVE  LET p == Trail(s, b)[1]
           IN  p \in Pairs /\ Symbol(p) /\ (p = b \/ Before(p, b))
<1>1. Trail(s, b) \in [1..(Len(s) + 1) -> Pairs] /\ Len(s) \in Nat
  BY TrailFacts
<1>2. CASE Len(s) = 0
  <2>1. Trail(s, b)[Len(s) + 1] = b
    BY TrailFacts
  <2>2. Len(s) + 1 = 1
    BY <1>2
  <2> QED
    BY <2>1, <2>2 DEF Source
<1>3. CASE Len(s) # 0
  <2>1. 1 \in 1..Len(s) /\ 1 \in 1..(Len(s) + 1)
    BY <1>1, <1>3
  <2>2. Trail(s, b)[1] = s[1].id
    BY <2>1, TrailFacts
  <2>3. Symbol(s[1].id) /\ Before(s[1].id, b)
    BY <2>1 DEF Source
  <2> QED
    BY <1>1, <2>1, <2>2, <2>3
<1> QED
  BY <1>2, <1>3

\* The sampler's next symbol.
LEMMA SourcePushed ==
    ASSUME NEW s \in Seq(Vectors), NEW v \in Vectors, Symbol(v.id),
           v.first <=> v.id[2] = 0, Source(s, v.id)
    PROVE  /\ Source(Append(s, v), Succ(v.id))
           /\ Trail(Append(s, v), Succ(v.id))[1] = Trail(s, v.id)[1]
<1>1. PICK b, c : b = v.id /\ c = Succ(b)
  OBVIOUS
<1>2. b \in Pairs /\ c \in Pairs /\ Symbol(b) /\ Symbol(c) /\ Before(b, c)
  <2>1. b \in Ids
    BY <1>1 DEF Vectors
  <2>2. b \in Pairs
    BY <2>1, IdFacts
  <2> QED
    BY <1>1, <2>2, SuccFacts
<1>3. PICK line, E, F : line = Append(s, v) /\ E = Trail(s, b) /\ F = Trail(line, c)
  OBVIOUS
<1>4. /\ Len(line) = Len(s) + 1 /\ Len(s) \in Nat
      /\ \A i \in 1..Len(s) : line[i] = s[i]
      /\ line[Len(s) + 1] = v
      /\ \A i \in 1..(Len(s) + 1) : F[i] = E[i]
      /\ F[Len(s) + 2] = c
  BY <1>1, <1>2, <1>3, Pushed
<1>5. ASSUME NEW i \in 1..Len(line)
      PROVE  /\ Symbol(line[i].id) /\ (line[i].first <=> line[i].id[2] = 0)
             /\ Before(line[i].id, c) /\ F[i + 1] = Succ(line[i].id)
  <2>1. CASE i \in 1..Len(s)
    <3>1. /\ Symbol(s[i].id) /\ (s[i].first <=> s[i].id[2] = 0)
          /\ Before(s[i].id, b) /\ E[i + 1] = Succ(s[i].id)
      BY <1>1, <1>3, <2>1 DEF Source
    <3>2. line[i] = s[i] /\ F[i + 1] = E[i + 1]
      <4>1. i + 1 \in 1..(Len(s) + 1)
        BY <1>4, <2>1
      <4> QED
        BY <1>4, <2>1, <4>1
    <3>3. s[i].id \in Pairs
      BY <2>1, LineFacts, IdFacts
    <3>4. Before(s[i].id, c)
      BY <1>2, <3>1, <3>3, SMTT(30) DEF Before, Pairs
    <3> QED
      BY <3>1, <3>2, <3>4
  <2>2. CASE i = Len(s) + 1
    <3>1. line[i] = v /\ F[i + 1] = c
      <4>1. i + 1 = Len(s) + 2
        BY <1>4, <2>2
      <4> QED
        BY <1>4, <2>2, <4>1
    <3> QED
      BY <1>1, <1>2, <3>1
  <2>3. i \in 1..Len(s) \/ i = Len(s) + 1
    BY <1>4
  <2> QED
    BY <2>1, <2>2, <2>3
<1>6. F[1] = E[1]
  <2>1. 1 \in 1..(Len(s) + 1)
    BY <1>4
  <2> QED
    BY <1>4, <2>1
<1> QED
  BY <1>1, <1>2, <1>3, <1>5, <1>6 DEF Source

-----------------------------------------------------------------------------
(* The invariant holds initially and every action keeps it. *)

\* No edge exceeds its buffer.
Edges ==
    /\ IsEdge(toRemove) /\ IsEdge(toEqualize) /\ IsEdge(toFic) /\ IsEdge(toMsc)
    /\ IsEdge(toFicUnits) /\ IsEdge(toMscUnits)

\* The types of the chain's state, as the steps below use them.
Known ==
    /\ Edges
    /\ toRemove \in Seq(Vectors) /\ toEqualize \in Seq(Vectors)
    /\ toFic \in Seq(Vectors) /\ toMsc \in Seq(Vectors)
    /\ toFicUnits \in Seq(Vectors) /\ toMscUnits \in Seq(Vectors)
    /\ hist \in Seq(Vectors) /\ Len(hist) = NumEq - 1
    /\ fic \in Seq(Units(NumFic)) /\ Len(fic) \in Nat
    /\ msc \in Seq(Units(NumMsc)) /\ Len(msc) \in Nat
    /\ b0 \in Pairs /\ Symbol(b0)
    /\ Coming \in Pairs /\ Symbol(Coming) /\ (Coming = b0 \/ Before(Coming, b0))
    /\ Fresh \in BOOLEAN /\ 0 \notin touched /\ (Fresh => touched = {})

LEMMA KnownFacts ==
    ASSUME ChainInv
    PROVE  Known
<1>1. Edges
  BY DEF ChainInv, TypeOK, Edges
<1>2. /\ toRemove \in Seq(Vectors) /\ toEqualize \in Seq(Vectors)
      /\ toFic \in Seq(Vectors) /\ toMsc \in Seq(Vectors)
      /\ toFicUnits \in Seq(Vectors) /\ toMscUnits \in Seq(Vectors)
  BY <1>1, EdgeFacts DEF Edges
<1>3. /\ hist \in Seq(Vectors) /\ Len(hist) = NumEq - 1
      /\ fic \in Seq(Units(NumFic)) /\ Len(fic) \in Nat
      /\ msc \in Seq(Units(NumMsc)) /\ Len(msc) \in Nat
  BY UnitFacts, Sizes DEF ChainInv, TypeOK
<1>4. b0 \in Pairs
  BY Sizes DEF ChainInv, TypeOK, b0, Pairs
<1>5. Source(toRemove, b0)
  BY DEF ChainInv, SharedInv
<1>6. Symbol(b0)
  BY <1>5 DEF Source
<1>7. Coming \in Pairs /\ Symbol(Coming) /\ (Coming = b0 \/ Before(Coming, b0))
  BY <1>2, <1>4, <1>5, ComingFacts DEF Coming
<1>8. Fresh \in BOOLEAN /\ 0 \notin touched /\ (Fresh => touched = {})
  BY DEF ChainInv, SharedInv, TypeOK, Fresh
<1> QED
  BY <1>1, <1>2, <1>3, <1>4, <1>6, <1>7, <1>8 DEF Known

LEMMA SampleInv ==
    ASSUME ChainInv, Sample
    PROVE  ChainInv'
<1>1. Known
  BY KnownFacts
<1>2. PICK v : v = [id |-> b0, first |-> sym_nr = 0]
  OBVIOUS
<1>3. v \in Vectors /\ v.id = b0 /\ (v.first <=> b0[2] = 0)
  <2>1. b0 \in Ids
    BY Sizes DEF ChainInv, TypeOK, Sample, Ids, b0
  <2> QED
    BY <1>2, <2>1 DEF Vectors, b0
<1>4. toRemove' = Append(toRemove, v) /\ b0' = Succ(b0)
  <2>1. toRemove' = Append(toRemove, v)
    BY <1>2 DEF Sample, b0
  <2>2. b0' = Succ(b0)
    BY DEF Sample, b0, Succ
  <2> QED
    BY <2>1, <2>2
<1>5. Source(toRemove', b0') /\ Coming' = Coming
  <2>1. Source(toRemove, v.id) /\ Symbol(v.id)
    BY <1>1, <1>3 DEF ChainInv, SharedInv, Known
  <2>2. /\ Source(Append(toRemove, v), Succ(v.id))
        /\ Trail(Append(toRemove, v), Succ(v.id))[1] = Trail(toRemove, v.id)[1]
    BY <1>1, <1>3, <2>1, SourcePushed DEF Known
  <2> QED
    BY <1>3, <1>4, <2>2 DEF Coming
<1>6. TypeOK'
  <2>1. IsEdge(toRemove')
    <3>1. Append(toRemove, v) \in Seq(Vectors) /\ Len(Append(toRemove, v)) = Len(toRemove) + 1
      BY <1>1, <1>3, AppendProperties DEF Known
    <3>2. Len(toRemove) \in Nat /\ Len(toRemove) < EdgeCap
      BY <1>1, EdgeFacts, Sizes DEF Known, Edges, Sample, Room
    <3> QED
      BY <1>4, <3>1, <3>2, Sizes DEF IsEdge
  <2>2. Edges'
    BY <1>1, <2>1 DEF Known, Edges, Sample
  <2>3. frame' \in 1..(MaxFrames + 1) /\ sym_nr' \in 0..(PerFrame - 1)
    BY Sizes, SMTT(30) DEF ChainInv, TypeOK, Sample
  <2> QED
    BY <2>2, <2>3 DEF ChainInv, TypeOK, Edges, Sample
<1>7. SharedInv'
  <2>1. frame' = MaxFrames + 1 => sym_nr' = 0
    BY Sizes DEF ChainInv, TypeOK, Sample
  <2> QED
    BY <1>5, <2>1 DEF ChainInv, SharedInv, Sample, Fresh
<1>8. FicInv' /\ MscInv'
  BY <1>5 DEF ChainInv, FicInv, MscInv, Sample, Fresh
<1> QED
  BY <1>6, <1>7, <1>8 DEF ChainInv

LEMMA RemoveFirstSymbolInv ==
    ASSUME ChainInv, RemoveFirstSymbol
    PROVE  ChainInv'
<1>1. Known
  BY KnownFacts
<1>2. PICK room \in 1..Room(toEqualize) :
         LET w == DropTagged(d_start, toRemove, room)
         IN  /\ d_start' = w.start
             /\ toRemove' = Rest(toRemove, w.used)
             /\ toEqualize' = toEqualize \o w.out
             /\ UNCHANGED <<frame, sym_nr, d_add_at, hist, fic_index, msc_index,
                            fic_synced, msc_synced, toFic, toMsc, toFicUnits,
                            toMscUnits, fic, msc, restarts, touched>>
  BY DEF RemoveFirstSymbol
<1>3. PICK w : w = DropTagged(d_start, toRemove, room)
  OBVIOUS
<1>4. /\ d_start' = w.start /\ toRemove' = Rest(toRemove, w.used)
      /\ toEqualize' = toEqualize \o w.out
  BY <1>2, <1>3
<1>5. room \in Nat /\ room <= Room(toEqualize)
  BY <1>1, EdgeFacts, Sizes DEF Known, Edges, Room
<1>6. /\ Source(toRemove, b0) /\ StartRight(touched, d_start, Trail(toRemove, b0)[1])
      /\ d_start \in BOOLEAN
  BY DEF ChainInv, TypeOK, SharedInv, Coming
<1>7. PICK a, m : a = toFic \o hist \o toEqualize /\ m = toMsc \o hist \o toEqualize
  OBVIOUS
<1>8. /\ a \in Seq(Vectors) /\ m \in Seq(Vectors)
      /\ toFic \o hist \in Seq(Vectors) /\ toMsc \o hist \in Seq(Vectors)
  <2>1. toFic \o hist \in Seq(Vectors) /\ toMsc \o hist \in Seq(Vectors)
    BY <1>1, JoinedLines DEF Known, IsJoined
  <2> QED
    BY <1>1, <1>7, <2>1, JoinedLines DEF Known, IsJoined
<1>9. /\ Half(touched, Fresh, fic, toFicUnits, fic_index, a, Trail(toRemove, b0)[1], NumFic, 0)
      /\ Half(touched, Fresh, msc, toMscUnits, msc_index, m, Trail(toRemove, b0)[1],
              NumMsc, NumFic)
  BY <1>7 DEF ChainInv, FicInv, MscInv, Coming
<1>10. /\ Fresh \in BOOLEAN /\ 0 \notin touched /\ toRemove \in Seq(Vectors) /\ b0 \in Pairs
       /\ toFicUnits \in Seq(Vectors) /\ fic \in Seq(Units(NumFic))
       /\ toMscUnits \in Seq(Vectors) /\ msc \in Seq(Units(NumMsc))
       /\ NumFic \in Nat /\ NumMsc \in Nat /\ 0 \in Nat
  BY <1>1, Sizes DEF Known
<1>11. Dropped(touched, Fresh, NumFic, 0, fic, toFicUnits, fic_index, a, toRemove, b0, room, w)
  <2>1. DropReady(touched, Fresh, NumFic, 0, fic, toFicUnits, fic_index, a, toRemove, b0, room,
                  d_start)
    BY <1>5, <1>6, <1>8, <1>9, <1>10 DEF DropReady
  <2> QED
    BY <1>3, <2>1, DropFacts
<1>12. Dropped(touched, Fresh, NumMsc, NumFic, msc, toMscUnits, msc_index, m, toRemove, b0,
               room, w)
  <2>1. DropReady(touched, Fresh, NumMsc, NumFic, msc, toMscUnits, msc_index, m, toRemove, b0,
                  room, d_start)
    BY <1>5, <1>6, <1>8, <1>9, <1>10 DEF DropReady
  <2> QED
    BY <1>3, <2>1, DropFacts
<1>13. /\ w.start \in BOOLEAN /\ w.out \in Seq(Vectors) /\ w.used \in 0..Len(toRemove)
       /\ Len(w.out) <= room /\ Source(Rest(toRemove, w.used), b0)
       /\ StartRight(touched, w.start, Trail(Rest(toRemove, w.used), b0)[1])
       /\ Tags(touched, Fresh, w.out)
  BY <1>11 DEF Dropped, Dropping, DropState
<1>14. b0' = b0 /\ Coming' = Trail(Rest(toRemove, w.used), b0)[1] /\ Fresh' = Fresh
  BY <1>2, <1>4 DEF b0, Coming, Fresh
<1>15. TypeOK'
  <2>1. IsEdge(toEqualize') /\ IsEdge(toRemove')
    BY <1>1, <1>4, <1>5, <1>13, EdgeJoined, EdgeRest DEF Known, Edges
  <2>2. Edges'
    BY <1>1, <1>2, <2>1 DEF Known, Edges
  <2> QED
    BY <1>2, <1>4, <1>13, <2>2 DEF ChainInv, TypeOK, Edges
<1>16. SharedInv'
  <2>1. Tags(touched, Fresh, toEqualize \o w.out)
    BY <1>1, <1>13, TagsJoined DEF ChainInv, SharedInv, Known
  <2> QED
    BY <1>2, <1>4, <1>13, <1>14, <2>1 DEF ChainInv, SharedInv
<1>17. /\ a \o w.out = toFic \o hist \o (toEqualize \o w.out)
       /\ m \o w.out = toMsc \o hist \o (toEqualize \o w.out)
  <2>1. /\ Grouped(toFic \o hist, toEqualize, w.out)
        /\ Grouped(toMsc \o hist, toEqualize, w.out)
    BY <1>1, <1>8, <1>13, Associative DEF Known
  <2> QED
    BY <1>7, <2>1 DEF Grouped
<1>18. FicInv'
  BY <1>2, <1>4, <1>11, <1>14, <1>17 DEF Dropped, ChainInv, FicInv
<1>19. MscInv'
  BY <1>2, <1>4, <1>12, <1>14, <1>17 DEF Dropped, ChainInv, MscInv
<1> QED
  BY <1>15, <1>16, <1>18, <1>19 DEF ChainInv

LEMMA EqualizeMagnitudeInv ==
    ASSUME ChainInv, EqualizeMagnitude
    PROVE  ChainInv'
<1>1. Known
  BY KnownFacts
<1>2. PICK n \in 1..Len(toEqualize) :
         LET w == Equalize(d_add_at, hist, SubSeq(toEqualize, 1, n), NumEq)
         IN  /\ n <= Room(toFic) /\ n <= Room(toMsc)
             /\ d_add_at' = w.add_at /\ hist' = w.hist
             /\ toEqualize' = Rest(toEqualize, n)
             /\ toFic' = toFic \o w.out /\ toMsc' = toMsc \o w.out
             /\ UNCHANGED <<frame, sym_nr, d_start, fic_index, msc_index, fic_synced,
                            msc_synced, toRemove, toFicUnits, toMscUnits, fic, msc,
                            restarts, touched>>
  BY DEF EqualizeMagnitude
<1>3. PICK s, w : s = SubSeq(toEqualize, 1, n) /\ w = Equalize(d_add_at, hist, s, NumEq)
  OBVIOUS
<1>4. /\ d_add_at' = w.add_at /\ hist' = w.hist /\ toEqualize' = Rest(toEqualize, n)
      /\ toFic' = toFic \o w.out /\ toMsc' = toMsc \o w.out
      /\ n <= Room(toFic) /\ n <= Room(toMsc)
  BY <1>2, <1>3
<1>5. n \in Nat /\ n \in 0..Len(toEqualize)
  BY <1>1, LineFacts DEF Known
<1>6. s \in Seq(Vectors) /\ Len(s) = n /\ s \o Rest(toEqualize, n) = toEqualize
  BY <1>1, <1>3, <1>5, SplitLine DEF Known
<1>7. Tags(touched, Fresh, s)
  BY <1>1, <1>3, <1>5, TagsSplit DEF ChainInv, SharedInv, Known
<1>8. /\ Half(touched, Fresh, fic, toFicUnits, fic_index, toFic \o hist \o toEqualize, Coming,
              NumFic, 0)
      /\ Half(touched, Fresh, msc, toMscUnits, msc_index, toMsc \o hist \o toEqualize, Coming,
              NumMsc, NumFic)
  BY DEF ChainInv, FicInv, MscInv
<1>9. Run(touched, LineTrail(hist \o s))
  <2>1. PICK b, c, x : b = hist \o s /\ c = Rest(toEqualize, n) /\ x = First(Coming)
    OBVIOUS
  <2>2. b \in Seq(Vectors) /\ c \in Seq(Vectors) /\ x \in Pairs /\ toFic \in Seq(Vectors)
    <3>1. b \in Seq(Vectors)
      BY <1>1, <1>6, <2>1, JoinedLines DEF Known, IsJoined
    <3>2. c \in Seq(Vectors)
      BY <1>1, <1>5, <2>1, RestFacts DEF Known
    <3>3. x \in Pairs
      BY <1>1, <2>1, SuccFacts DEF Known
    <3> QED
      BY <1>1, <3>1, <3>2, <3>3 DEF Known
  <2>3. toFic \o hist \o toEqualize = toFic \o (b \o c)
    <3>1. Grouped(hist, s, c) /\ Grouped(toFic, hist, toEqualize)
      BY <1>1, <1>6, <2>2, Associative DEF Known
    <3> QED
      BY <1>6, <2>1, <3>1 DEF Grouped
  <2>4. Run(touched, Trail(toFic \o (b \o c), x))
    BY <1>8, <2>1, <2>3 DEF Half
  <2>5. Run(touched, LineTrail(b))
    BY <2>2, <2>4, MiddleRun
  <2> QED
    BY <2>1, <2>5
<1>10. Equalized(touched, Fresh, hist, s, NumEq, w)
  <2>1. /\ Fresh \in BOOLEAN /\ NumEq \in Nat /\ NumEq >= 1 /\ NumEq <= PerFrame
        /\ d_add_at \in -1..(NumEq - 2) /\ hist \in Seq(Vectors) /\ Len(hist) = NumEq - 1
        /\ HistTags(touched, Fresh, hist, d_add_at)
    BY <1>1, Sizes DEF ChainInv, TypeOK, SharedInv, Known
  <2> QED
    BY <1>3, <1>6, <1>7, <1>9, <2>1, EqualizeFacts
<1>11. /\ w.add_at \in -1..(NumEq - 2) /\ w.hist \in Seq(Vectors) /\ Len(w.hist) = NumEq - 1
       /\ HistTags(touched, Fresh, w.hist, w.add_at)
       /\ w.out \in Seq(Vectors) /\ Len(w.out) = n /\ Tags(touched, Fresh, w.out)
       /\ SameIds(w.out \o w.hist, hist \o SubSeq(toEqualize, 1, n))
  BY <1>3, <1>6, <1>10 DEF Equalized
<1>12. b0' = b0 /\ Coming' = Coming /\ Fresh' = Fresh
  BY <1>2 DEF b0, Coming, Fresh
<1>13. TypeOK'
  <2>1. IsEdge(toFic') /\ IsEdge(toMsc') /\ IsEdge(toEqualize')
    <3>1. Len(w.out) <= n
      BY <1>5, <1>11
    <3> QED
      BY <1>1, <1>4, <1>5, <1>11, <3>1, EdgeJoined, EdgeRest DEF Known, Edges
  <2>2. Edges'
    BY <1>1, <1>2, <2>1 DEF Known, Edges
  <2> QED
    BY <1>2, <1>4, <1>11, <2>2 DEF ChainInv, TypeOK, Edges
<1>14. Tags(touched, Fresh, Rest(toEqualize, n))
  BY <1>1, <1>5, TagsSplit DEF ChainInv, SharedInv, Known
<1>15. SharedInv'
  BY <1>2, <1>4, <1>11, <1>12, <1>14 DEF ChainInv, SharedInv
<1>16. Tags(touched, Fresh, toFic \o w.out) /\ Tags(touched, Fresh, toMsc \o w.out)
  BY <1>1, <1>11, TagsJoined DEF ChainInv, FicInv, MscInv, Known
<1>17. FicInv'
  <2>1. Half(touched, Fresh, fic, toFicUnits, fic_index,
             toFic \o w.out \o w.hist \o Rest(toEqualize, n), Coming, NumFic, 0)
    BY <1>1, <1>5, <1>8, <1>11, HalfEqualized, Sizes DEF Known
  <2> QED
    BY <1>2, <1>4, <1>12, <1>16, <2>1 DEF FicInv
<1>18. MscInv'
  <2>1. Half(touched, Fresh, msc, toMscUnits, msc_index,
             toMsc \o w.out \o w.hist \o Rest(toEqualize, n), Coming, NumMsc, NumFic)
    BY <1>1, <1>5, <1>8, <1>11, HalfEqualized, Sizes DEF Known
  <2> QED
    BY <1>2, <1>4, <1>12, <1>16, <2>1 DEF MscInv
<1> QED
  BY <1>13, <1>15, <1>17, <1>18 DEF ChainInv

LEMMA SelectFicInv ==
    ASSUME ChainInv, SelectFic
    PROVE  ChainInv'
<1>1. Known
  BY KnownFacts
<1>2. PICK room \in 1..Room(toFicUnits) :
         LET w == Select(fic_index, toFic, room, NumFic, 0)
         IN  /\ fic_index' = w.index
             /\ toFic' = Rest(toFic, w.used)
             /\ toFicUnits' = toFicUnits \o w.out
             /\ UNCHANGED <<frame, sym_nr, d_start, d_add_at, hist, msc_index, fic_synced,
                            msc_synced, toRemove, toEqualize, toMsc, toMscUnits, fic, msc,
                            restarts, touched>>
  BY DEF SelectFic
<1>3. PICK w, more : /\ w = Select(fic_index, toFic, room, NumFic, 0)
                     /\ more = hist \o toEqualize
  OBVIOUS
<1>4. /\ fic_index' = w.index /\ toFic' = Rest(toFic, w.used)
      /\ toFicUnits' = toFicUnits \o w.out
  BY <1>2, <1>3
<1>5. room \in Nat /\ room <= Room(toFicUnits)
  BY <1>1, EdgeFacts, Sizes DEF Known, Edges, Room
<1>6. more \in Seq(Vectors)
  BY <1>1, <1>3, JoinedLines DEF Known, IsJoined
<1>7. Window(NumFic, 0) /\ WindowEnd(NumFic, 0) = NumFic /\ NumFic \in Nat
  BY Sizes DEF Window, WindowEnd
<1>8. Selecting(touched, Fresh, fic, toFicUnits, toFic, more, Coming, room, NumFic, 0, w)
  <2>1. Half(touched, Fresh, fic, toFicUnits, fic_index, toFic \o more, Coming, NumFic, 0)
    <3>1. Grouped(toFic, hist, toEqualize)
      BY <1>1, Associative DEF Known
    <3> QED
      BY <1>3, <3>1 DEF ChainInv, FicInv, Grouped
  <2>2. fic_index \in 0..WindowEnd(NumFic, 0)
    BY <1>7 DEF ChainInv, TypeOK
  <2>3. SelectReady(touched, Fresh, fic_index, fic, toFicUnits, toFic, more, Coming, room,
                    NumFic, 0)
    BY <1>1, <1>5, <1>6, <1>7, <2>1, <2>2 DEF SelectReady, Known, ChainInv, FicInv
  <2> QED
    BY <1>3, <2>3, SelectFacts
<1>9. /\ w.index \in 0..NumFic /\ w.used \in 0..Len(toFic) /\ w.out \in Seq(Vectors)
      /\ Len(w.out) <= room
      /\ Half(touched, Fresh, fic, toFicUnits \o w.out, w.index, Rest(toFic, w.used) \o more,
              Coming, NumFic, 0)
  BY <1>7, <1>8 DEF Selecting, SelectState
<1>10. b0' = b0 /\ Coming' = Coming /\ Fresh' = Fresh
  BY <1>2 DEF b0, Coming, Fresh
<1>11. TypeOK'
  <2>1. IsEdge(toFic') /\ IsEdge(toFicUnits')
    BY <1>1, <1>4, <1>5, <1>9, EdgeJoined, EdgeRest DEF Known, Edges
  <2>2. Edges'
    BY <1>1, <1>2, <2>1 DEF Known, Edges
  <2> QED
    BY <1>2, <1>4, <1>9, <2>2 DEF ChainInv, TypeOK, Edges
<1>12. SharedInv' /\ MscInv'
  BY <1>2, <1>10 DEF ChainInv, SharedInv, MscInv
<1>13. FicInv'
  <2>1. Tags(touched, Fresh, Rest(toFic, w.used))
    BY <1>1, <1>9, TagsSplit DEF ChainInv, FicInv, Known
  <2>2. Rest(toFic, w.used) \o hist \o toEqualize = Rest(toFic, w.used) \o more
    <3>1. Rest(toFic, w.used) \in Seq(Vectors)
      BY <1>1, <1>9, RestFacts DEF Known
    <3>2. Grouped(Rest(toFic, w.used), hist, toEqualize)
      BY <1>1, <3>1, Associative DEF Known
    <3> QED
      BY <1>3, <3>2 DEF Grouped
  <2> QED
    BY <1>2, <1>4, <1>9, <1>10, <2>1, <2>2 DEF FicInv
<1> QED
  BY <1>11, <1>12, <1>13 DEF ChainInv

LEMMA SelectMscInv ==
    ASSUME ChainInv, SelectMsc
    PROVE  ChainInv'
<1>1. Known
  BY KnownFacts
<1>2. PICK room \in 1..Room(toMscUnits) :
         LET w == Select(msc_index, toMsc, room, NumMsc, NumFic)
         IN  /\ msc_index' = w.index
             /\ toMsc' = Rest(toMsc, w.used)
             /\ toMscUnits' = toMscUnits \o w.out
             /\ UNCHANGED <<frame, sym_nr, d_start, d_add_at, hist, fic_index, fic_synced,
                            msc_synced, toRemove, toEqualize, toFic, toFicUnits, fic, msc,
                            restarts, touched>>
  BY DEF SelectMsc
<1>3. PICK w, more : /\ w = Select(msc_index, toMsc, room, NumMsc, NumFic)
                     /\ more = hist \o toEqualize
  OBVIOUS
<1>4. /\ msc_index' = w.index /\ toMsc' = Rest(toMsc, w.used)
      /\ toMscUnits' = toMscUnits \o w.out
  BY <1>2, <1>3
<1>5. room \in Nat /\ room <= Room(toMscUnits)
  BY <1>1, EdgeFacts, Sizes DEF Known, Edges, Room
<1>6. more \in Seq(Vectors)
  BY <1>1, <1>3, JoinedLines DEF Known, IsJoined
<1>7. /\ Window(NumMsc, NumFic) /\ WindowEnd(NumMsc, NumFic) = NumFic + NumMsc
      /\ NumMsc \in Nat /\ NumFic \in Nat
  BY Sizes DEF Window, WindowEnd
<1>8. Selecting(touched, Fresh, msc, toMscUnits, toMsc, more, Coming, room, NumMsc, NumFic, w)
  <2>1. Half(touched, Fresh, msc, toMscUnits, msc_index, toMsc \o more, Coming, NumMsc, NumFic)
    <3>1. Grouped(toMsc, hist, toEqualize)
      BY <1>1, Associative DEF Known
    <3> QED
      BY <1>3, <3>1 DEF ChainInv, MscInv, Grouped
  <2>2. msc_index \in 0..WindowEnd(NumMsc, NumFic)
    BY <1>7 DEF ChainInv, TypeOK
  <2>3. SelectReady(touched, Fresh, msc_index, msc, toMscUnits, toMsc, more, Coming, room,
                    NumMsc, NumFic)
    BY <1>1, <1>5, <1>6, <1>7, <2>1, <2>2 DEF SelectReady, Known, ChainInv, MscInv
  <2> QED
    BY <1>3, <2>3, SelectFacts
<1>9. /\ w.index \in 0..(NumFic + NumMsc) /\ w.used \in 0..Len(toMsc) /\ w.out \in Seq(Vectors)
      /\ Len(w.out) <= room
      /\ Half(touched, Fresh, msc, toMscUnits \o w.out, w.index, Rest(toMsc, w.used) \o more,
              Coming, NumMsc, NumFic)
  BY <1>7, <1>8 DEF Selecting, SelectState
<1>10. b0' = b0 /\ Coming' = Coming /\ Fresh' = Fresh
  BY <1>2 DEF b0, Coming, Fresh
<1>11. TypeOK'
  <2>1. IsEdge(toMsc') /\ IsEdge(toMscUnits')
    BY <1>1, <1>4, <1>5, <1>9, EdgeJoined, EdgeRest DEF Known, Edges
  <2>2. Edges'
    BY <1>1, <1>2, <2>1 DEF Known, Edges
  <2> QED
    BY <1>2, <1>4, <1>9, <2>2 DEF ChainInv, TypeOK, Edges
<1>12. SharedInv' /\ FicInv'
  BY <1>2, <1>10 DEF ChainInv, SharedInv, FicInv
<1>13. MscInv'
  <2>1. Tags(touched, Fresh, Rest(toMsc, w.used))
    BY <1>1, <1>9, TagsSplit DEF ChainInv, MscInv, Known
  <2>2. Rest(toMsc, w.used) \o hist \o toEqualize = Rest(toMsc, w.used) \o more
    <3>1. Rest(toMsc, w.used) \in Seq(Vectors)
      BY <1>1, <1>9, RestFacts DEF Known
    <3>2. Grouped(Rest(toMsc, w.used), hist, toEqualize)
      BY <1>1, <3>1, Associative DEF Known
    <3> QED
      BY <1>3, <3>2 DEF Grouped
  <2> QED
    BY <1>2, <1>4, <1>9, <1>10, <2>1, <2>2 DEF MscInv
<1> QED
  BY <1>11, <1>12, <1>13 DEF ChainInv

LEMMA RepartitionFicInv ==
    ASSUME ChainInv, RepartitionFic
    PROVE  ChainInv'
<1>1. Known
  BY KnownFacts
<1>2. PICK room \in 1..(EdgeCap \div NumFic) :
         LET w == Repartition(fic_synced, toFicUnits, room, NumFic)
         IN  /\ fic_synced' = w.synced
             /\ toFicUnits' = Rest(toFicUnits, w.used)
             /\ fic' = fic \o w.out
             /\ UNCHANGED <<frame, sym_nr, d_start, d_add_at, hist, fic_index, msc_index,
                            msc_synced, toRemove, toEqualize, toFic, toMsc, toMscUnits, msc,
                            restarts, touched>>
  BY DEF RepartitionFic
<1>3. PICK w, line : /\ w = Repartition(fic_synced, toFicUnits, room, NumFic)
                     /\ line = toFic \o hist \o toEqualize
  OBVIOUS
<1>4. /\ fic_synced' = w.synced /\ toFicUnits' = Rest(toFicUnits, w.used)
      /\ fic' = fic \o w.out
  BY <1>2, <1>3
<1>5. room \in Nat
  OBVIOUS
<1>6. line \in Seq(Vectors)
  <2>1. toFic \o hist \in Seq(Vectors)
    BY <1>1, JoinedLines DEF Known, IsJoined
  <2> QED
    BY <1>1, <1>3, <2>1, JoinedLines DEF Known, IsJoined
<1>7. Delivered(touched, Fresh, fic, toFicUnits, fic_index, line, Coming, NumFic, 0, w)
  <2>1. Half(touched, Fresh, fic, toFicUnits, fic_index, line, Coming, NumFic, 0)
    BY <1>3 DEF ChainInv, FicInv
  <2>2. fic_synced \in BOOLEAN
    BY DEF ChainInv, TypeOK
  <2>3. DeliverReady(touched, Fresh, fic, toFicUnits, fic_index, line, Coming, NumFic, 0,
                     fic_synced, room)
    BY <1>1, <1>5, <1>6, <2>1, <2>2, Sizes DEF DeliverReady, Known
  <2> QED
    BY <1>3, <2>3, HalfDelivered
<1>8. /\ w.synced \in BOOLEAN /\ fic \o w.out \in Seq(Units(NumFic))
      /\ Rest(toFicUnits, w.used) \in Seq(Vectors)
      /\ Len(Rest(toFicUnits, w.used)) <= Len(toFicUnits)
      /\ Half(touched, Fresh, fic \o w.out, Rest(toFicUnits, w.used), fic_index, line, Coming,
              NumFic, 0)
  BY <1>7 DEF Delivered
<1>9. b0' = b0 /\ Coming' = Coming /\ Fresh' = Fresh
  BY <1>2 DEF b0, Coming, Fresh
<1>10. TypeOK'
  <2>1. IsEdge(toFicUnits')
    <3>1. PICK rest : rest = Rest(toFicUnits, w.used)
      OBVIOUS
    <3>2. Len(rest) \in Nat /\ Len(toFicUnits) \in Nat /\ Len(toFicUnits) <= EdgeCap
      BY <1>1, <1>8, <3>1, EdgeFacts, LineFacts DEF Known, Edges
    <3> QED
      BY <1>4, <1>8, <3>1, <3>2, Sizes DEF IsEdge
  <2>2. Edges'
    BY <1>1, <1>2, <2>1 DEF Known, Edges
  <2> QED
    BY <1>2, <1>4, <1>8, <2>2 DEF ChainInv, TypeOK, Edges
<1>11. SharedInv' /\ MscInv'
  BY <1>2, <1>9 DEF ChainInv, SharedInv, MscInv
<1>12. FicInv'
  BY <1>2, <1>3, <1>4, <1>8, <1>9 DEF ChainInv, FicInv
<1> QED
  BY <1>10, <1>11, <1>12 DEF ChainInv

LEMMA RepartitionMscInv ==
    ASSUME ChainInv, RepartitionMsc
    PROVE  ChainInv'
<1>1. Known
  BY KnownFacts
<1>2. PICK room \in 1..(EdgeCap \div NumMsc) :
         LET w == Repartition(msc_synced, toMscUnits, room, NumMsc)
         IN  /\ msc_synced' = w.synced
             /\ toMscUnits' = Rest(toMscUnits, w.used)
             /\ msc' = msc \o w.out
             /\ UNCHANGED <<frame, sym_nr, d_start, d_add_at, hist, msc_index, fic_index,
                            fic_synced, toRemove, toEqualize, toMsc, toFic, toFicUnits, fic,
                            restarts, touched>>
  BY DEF RepartitionMsc
<1>3. PICK w, line : /\ w = Repartition(msc_synced, toMscUnits, room, NumMsc)
                     /\ line = toMsc \o hist \o toEqualize
  OBVIOUS
<1>4. /\ msc_synced' = w.synced /\ toMscUnits' = Rest(toMscUnits, w.used)
      /\ msc' = msc \o w.out
  BY <1>2, <1>3
<1>5. room \in Nat
  OBVIOUS
<1>6. line \in Seq(Vectors)
  <2>1. toMsc \o hist \in Seq(Vectors)
    BY <1>1, JoinedLines DEF Known, IsJoined
  <2> QED
    BY <1>1, <1>3, <2>1, JoinedLines DEF Known, IsJoined
<1>7. Delivered(touched, Fresh, msc, toMscUnits, msc_index, line, Coming, NumMsc, NumFic, w)
  <2>1. Half(touched, Fresh, msc, toMscUnits, msc_index, line, Coming, NumMsc, NumFic)
    BY <1>3 DEF ChainInv, MscInv
  <2>2. msc_synced \in BOOLEAN
    BY DEF ChainInv, TypeOK
  <2>3. DeliverReady(touched, Fresh, msc, toMscUnits, msc_index, line, Coming, NumMsc, NumFic,
                     msc_synced, room)
    BY <1>1, <1>5, <1>6, <2>1, <2>2, Sizes DEF DeliverReady, Known
  <2> QED
    BY <1>3, <2>3, HalfDelivered
<1>8. /\ w.synced \in BOOLEAN /\ msc \o w.out \in Seq(Units(NumMsc))
      /\ Rest(toMscUnits, w.used) \in Seq(Vectors)
      /\ Len(Rest(toMscUnits, w.used)) <= Len(toMscUnits)
      /\ Half(touched, Fresh, msc \o w.out, Rest(toMscUnits, w.used), msc_index, line, Coming,
              NumMsc, NumFic)
  BY <1>7 DEF Delivered
<1>9. b0' = b0 /\ Coming' = Coming /\ Fresh' = Fresh
  BY <1>2 DEF b0, Coming, Fresh
<1>10. TypeOK'
  <2>1. IsEdge(toMscUnits')
    <3>1. PICK rest : rest = Rest(toMscUnits, w.used)
      OBVIOUS
    <3>2. Len(rest) \in Nat /\ Len(toMscUnits) \in Nat /\ Len(toMscUnits) <= EdgeCap
      BY <1>1, <1>8, <3>1, EdgeFacts, LineFacts DEF Known, Edges
    <3> QED
      BY <1>4, <1>8, <3>1, <3>2, Sizes DEF IsEdge
  <2>2. Edges'
    BY <1>1, <1>2, <2>1 DEF Known, Edges
  <2> QED
    BY <1>2, <1>4, <1>8, <2>2 DEF ChainInv, TypeOK, Edges
<1>11. SharedInv' /\ FicInv'
  BY <1>2, <1>9 DEF ChainInv, SharedInv, FicInv
<1>12. MscInv'
  BY <1>2, <1>3, <1>4, <1>8, <1>9 DEF ChainInv, MscInv
<1> QED
  BY <1>10, <1>11, <1>12 DEF ChainInv

LEMMA RestartInv ==
    ASSUME ChainInv, Restart
    PROVE  ChainInv'
<1>1. Known
  BY KnownFacts
<1>2. /\ hist' = [i \in 1..(NumEq - 1) |-> Blank]
      /\ toRemove' = <<>> /\ toEqualize' = <<>> /\ toFic' = <<>> /\ toMsc' = <<>>
      /\ toFicUnits' = <<>> /\ toMscUnits' = <<>>
      /\ UNCHANGED <<blocks, fic, msc>>
  BY DEF Restart
<1>3. PICK new : new = hist'
  OBVIOUS
<1>4. /\ new \in Seq(Vectors) /\ Len(new) = NumEq - 1
      /\ \A i \in 1..Len(new) : new[i].id = Blank.id
  <2>1. Blank \in Vectors
    BY DEF Blank, Vectors, Ids
  <2>2. new \in [1..(NumEq - 1) -> Vectors] /\ \A i \in 1..(NumEq - 1) : new[i] = Blank
    BY <1>2, <1>3, <2>1
  <2>3. new \in Seq(Vectors) /\ Len(new) = NumEq - 1
    BY <2>2, Sizes, SeqDef, LenProperties
  <2> QED
    BY <2>2, <2>3
<1>5. /\ Fresh' = FALSE /\ restarts' \in 0..MaxRestarts
      /\ b0' = b0 /\ Coming' = b0'
  <2>1. Fresh' = FALSE /\ restarts' \in 0..MaxRestarts
    BY Sizes DEF ChainInv, TypeOK, Restart, Fresh
  <2>2. b0' = b0
    BY <1>2 DEF b0, blocks
  <2>3. Coming' = b0'
    BY <1>2, EmptySeq DEF Coming, Trail
  <2> QED
    BY <2>1, <2>2, <2>3
<1>6. touched \subseteq touched' /\ (b0[1] \notin touched' => b0[2] = 0)
  BY DEF Restart, b0
<1>7. touched' \subseteq 1..MaxFrames
  <2>1. ASSUME NEW e \in Seq(Vectors)
        PROVE  \A i \in 1..Len(e) : e[i].id[1] \in 0..MaxFrames
    <3>1. \A i \in 1..Len(e) : e[i].id \in Ids
      BY <2>1, LineFacts
    <3>2. \A id \in Ids : id[1] \in 0..MaxFrames
      BY IdFacts, Sizes
    <3> QED
      BY <3>1, <3>2
  <2>2. UnderWay \subseteq 0..MaxFrames
    <3> SUFFICES ASSUME NEW x \in UnderWay
                 PROVE  x \in 0..MaxFrames
      OBVIOUS
    <3>1. PICK e \in {hist, toRemove, toEqualize, toFic, toMsc, toFicUnits, toMscUnits} :
             \E i \in 1..Len(e) : x = e[i].id[1]
      BY DEF UnderWay
    <3>2. e \in Seq(Vectors)
      BY <1>1 DEF Known
    <3> QED
      BY <2>1, <3>1, <3>2
  <2>3. sym_nr # 0 => frame \in 1..MaxFrames
    BY Sizes DEF ChainInv, TypeOK, SharedInv
  <2>4. touched \subseteq 1..MaxFrames
    BY DEF ChainInv, TypeOK
  <2>5. UnderWay \ {0} \subseteq 1..MaxFrames
    BY <2>2, Sizes
  <2> QED
    BY <2>3, <2>4, <2>5 DEF Restart
<1>8. TypeOK'
  <2>1. IsEdge(<<>>)
    BY EmptySeq, Sizes DEF IsEdge
  <2>2. Edges'
    BY <1>2, <2>1 DEF Edges
  <2> QED
    BY <1>2, <1>3, <1>4, <1>5, <1>7, <2>2 DEF ChainInv, TypeOK, Edges, blocks
<1>9. SharedInv'
  <2>1. Source(toRemove', b0')
    BY <1>1, <1>2, <1>5, EmptySeq DEF Source, Known
  <2>2. StartRight(touched', d_start', Coming')
    <3>1. b0[2] >= 1 => b0[2] # 0
      OBVIOUS
    <3> QED
      BY <1>5, <1>6, <3>1 DEF StartRight
  <2>3. Tags(touched', Fresh', toEqualize')
    BY <1>2, EmptySeq DEF Tags
  <2>4. HistTags(touched', Fresh', hist', d_add_at')
    <3>1. \A i \in 1..Len(new) : new[i].id[1] = 0
      BY <1>4 DEF Blank
    <3> QED
      BY <1>3, <1>5, <3>1 DEF HistTags, TagRight
  <2>5. frame' = MaxFrames + 1 => sym_nr' = 0
    BY <1>2 DEF ChainInv, SharedInv, blocks
  <2> QED
    BY <1>5, <2>1, <2>2, <2>3, <2>4, <2>5 DEF SharedInv
<1>10. <<>> \o new \o <<>> = new
  BY <1>4, ConcatEmptySeq
<1>11. FicInv'
  <2>1. PICK line : line = toFic \o hist \o toEqualize
    OBVIOUS
  <2>2. line \in Seq(Vectors)
    <3>1. toFic \o hist \in Seq(Vectors)
      BY <1>1, JoinedLines DEF Known, IsJoined
    <3> QED
      BY <1>1, <2>1, <3>1, JoinedLines DEF Known, IsJoined
  <2>3. Half(touched, Fresh, fic, toFicUnits, fic_index, line, Coming, NumFic, 0)
    BY <2>1 DEF ChainInv, FicInv
  <2>4. Half(touched', FALSE, fic, <<>>, fic_index, new, b0, NumFic, 0)
    <3>1. PICK gone : gone = touched'
      OBVIOUS
    <3>2. /\ Fresh \in BOOLEAN /\ NumFic \in Nat /\ 0 \in Nat /\ fic \in Seq(Units(NumFic))
          /\ toFicUnits \in Seq(Vectors) /\ Coming \in Pairs /\ Symbol(Coming)
          /\ b0 \in Pairs /\ Symbol(b0) /\ (b0 = Coming \/ Before(Coming, b0))
      BY <1>1, Sizes DEF Known
    <3>3. touched \subseteq gone /\ (b0[1] \notin gone => b0[2] = 0)
      BY <1>6, <3>1
    <3>4. Losing(touched, gone, new, Coming, b0)
      BY <1>4, <3>2, <3>3 DEF Losing
    <3>5. Half(gone, FALSE, fic, <<>>, fic_index, new, b0, NumFic, 0)
      BY <2>2, <2>3, <3>2, <3>4, HalfLost
    <3> QED
      BY <3>1, <3>5
  <2>5. Tags(touched', Fresh', toFic')
    BY <1>2, EmptySeq DEF Tags
  <2> QED
    BY <1>2, <1>3, <1>5, <1>10, <2>4, <2>5 DEF FicInv, blocks
<1>12. MscInv'
  <2>1. PICK line : line = toMsc \o hist \o toEqualize
    OBVIOUS
  <2>2. line \in Seq(Vectors)
    <3>1. toMsc \o hist \in Seq(Vectors)
      BY <1>1, JoinedLines DEF Known, IsJoined
    <3> QED
      BY <1>1, <2>1, <3>1, JoinedLines DEF Known, IsJoined
  <2>3. Half(touched, Fresh, msc, toMscUnits, msc_index, line, Coming, NumMsc, NumFic)
    BY <2>1 DEF ChainInv, MscInv
  <2>4. Half(touched', FALSE, msc, <<>>, msc_index, new, b0, NumMsc, NumFic)
    <3>1. PICK gone : gone = touched'
      OBVIOUS
    <3>2. /\ Fresh \in BOOLEAN /\ NumMsc \in Nat /\ NumFic \in Nat /\ msc \in Seq(Units(NumMsc))
          /\ toMscUnits \in Seq(Vectors) /\ Coming \in Pairs /\ Symbol(Coming)
          /\ b0 \in Pairs /\ Symbol(b0) /\ (b0 = Coming \/ Before(Coming, b0))
      BY <1>1, Sizes DEF Known
    <3>3. touched \subseteq gone /\ (b0[1] \notin gone => b0[2] = 0)
      BY <1>6, <3>1
    <3>4. Losing(touched, gone, new, Coming, b0)
      BY <1>4, <3>2, <3>3 DEF Losing
    <3>5. Half(gone, FALSE, msc, <<>>, msc_index, new, b0, NumMsc, NumFic)
      BY <2>2, <2>3, <3>2, <3>4, HalfLost
    <3> QED
      BY <3>1, <3>5
  <2>5. Tags(touched', Fresh', toMsc')
    BY <1>2, EmptySeq DEF Tags
  <2> QED
    BY <1>2, <1>3, <1>5, <1>10, <2>4, <2>5 DEF MscInv, blocks
<1> QED
  BY <1>8, <1>9, <1>11, <1>12 DEF ChainInv

LEMMA ChainInitInv ==
    ASSUME Init
    PROVE  ChainInv
<1> USE DEF Init
<1>1. hist \in Seq(Vectors) /\ Len(hist) = NumEq - 1 /\ \A i \in 1..Len(hist) : hist[i] = Blank
  <2>1. Blank \in Vectors
    BY DEF Blank, Vectors, Ids
  <2>2. hist \in [1..(NumEq - 1) -> Vectors] /\ \A i \in 1..(NumEq - 1) : hist[i] = Blank
    BY <2>1
  <2>3. hist \in Seq(Vectors) /\ Len(hist) = NumEq - 1
    BY <2>2, Sizes, SeqDef, LenProperties
  <2> QED
    BY <2>2, <2>3
<1>2. /\ b0 = <<1, 0>> /\ b0 \in Pairs /\ Symbol(b0) /\ Coming = b0 /\ Fresh = TRUE
      /\ First(Coming) = <<1, 1>> /\ First(Coming) \in Pairs
  <2>1. b0 = <<1, 0>> /\ b0 \in Pairs /\ Symbol(b0)
    BY Sizes DEF b0, Pairs, Symbol
  <2>2. Coming = b0
    BY EmptySeq DEF Coming, Trail
  <2>3. Fresh = TRUE
    BY DEF Fresh
  <2>4. First(<<1, 0>>) = <<1, 1>> /\ <<1, 1>> \in Pairs
    BY DEF First, Pairs
  <2> QED
    BY <2>1, <2>2, <2>3, <2>4
<1>3. TypeOK
  <2>1. IsEdge(<<>>)
    BY EmptySeq, Sizes DEF IsEdge
  <2>2. Edges
    BY <2>1 DEF Edges
  <2>3. fic \in Seq(Units(NumFic)) /\ msc \in Seq(Units(NumMsc))
    BY EmptySeq
  <2>4. /\ frame \in 1..(MaxFrames + 1) /\ sym_nr \in 0..(PerFrame - 1)
        /\ d_add_at \in -1..(NumEq - 2)
        /\ fic_index \in 0..NumFic /\ msc_index \in 0..(NumFic + NumMsc)
    BY Sizes
  <2>5. restarts \in 0..MaxRestarts /\ touched \subseteq 1..MaxFrames
    BY Sizes
  <2>6. d_start \in BOOLEAN /\ fic_synced \in BOOLEAN /\ msc_synced \in BOOLEAN
    OBVIOUS
  <2>7. \A e \in {toRemove, toEqualize, toFic, toMsc, toFicUnits, toMscUnits} : IsEdge(e)
    BY <2>2 DEF Edges
  <2> HIDE DEF Init
  <2> QED
    BY <1>1, <2>3, <2>4, <2>5, <2>6, <2>7 DEF TypeOK
<1>4. SharedInv
  <2>1. Source(toRemove, b0)
    BY <1>2, EmptySeq DEF Source
  <2>2. StartRight(touched, d_start, Coming)
    BY <1>2 DEF StartRight
  <2>3. Tags(touched, Fresh, toEqualize)
    BY EmptySeq DEF Tags
  <2>4. HistTags(touched, Fresh, hist, d_add_at)
    <3>1. \A i \in 1..Len(hist) : d_add_at # i - 1 /\ hist[i].id[2] # 1
      BY <1>1, Sizes DEF Blank
    <3> QED
      BY <3>1 DEF HistTags, TagRight
  <2>5. frame = MaxFrames + 1 => sym_nr = 0
    OBVIOUS
  <2> QED
    BY <2>1, <2>2, <2>3, <2>4, <2>5 DEF SharedInv
<1>5. <<>> \o hist \o <<>> = hist
  BY <1>1, ConcatEmptySeq
<1>6. PICK n \in Nat : n = Len(hist)
  BY <1>1, LineFacts
<1>7. PICK E : E = Trail(hist, First(Coming))
  OBVIOUS
<1>8. /\ E \in [1..(n + 1) -> Pairs] /\ E[n + 1] = <<1, 1>>
      /\ \A i \in 1..n : E[i] = Blank.id
  BY <1>1, <1>2, <1>6, <1>7, TrailFacts
<1>9. Blank.id = <<0, 0>> /\ Blank.id[1] = 0 /\ Blank.id[2] = 0
  BY DEF Blank
<1>10. LineIds(hist)
  BY <1>1 DEF LineIds
<1>11. Run(touched, E)
  <2> SUFFICES ASSUME NEW i \in 1..(n + 1), NEW j \in 1..(n + 1)
               PROVE  InPlace(touched, E, i, j)
    BY <1>8 DEF Run
  <2>1. CASE j \in 1..n
    BY <1>8, <1>9, <2>1 DEF InPlace
  <2>2. CASE j = n + 1
    <3>1. E[j][1] = 1 /\ E[j][2] = 1
      BY <1>8, <2>2
    <3>2. 1 + (i - j) >= 1 => i = j
      BY <2>2
    <3> QED
      BY <3>1, <3>2 DEF InPlace
  <2> QED
    BY <2>1, <2>2
<1>12. Linked(E)
  <2> SUFFICES ASSUME NEW i \in 1..n
               PROVE  E[i] = Blank.id /\ E[i + 1] \in {Blank.id, <<1, 1>>}
    BY <1>8 DEF Linked
  <2>1. i + 1 \in 1..n \/ i + 1 = n + 1
    OBVIOUS
  <2> QED
    BY <1>8, <2>1
<1>13. E[1] = Blank.id \/ E[1] = <<1, 1>>
  <2>1. 1 \in 1..n \/ 1 = n + 1
    OBVIOUS
  <2> QED
    BY <1>8, <2>1
<1>14. ASSUME NEW num \in Nat, num >= 1, NEW skip \in Nat
       PROVE  Half(touched, Fresh, <<>>, <<>>, skip + num, hist, Coming, num, skip)
  <2>1. IndexRight(touched, Fresh, skip + num, E[1], skip + num)
    <3>1. E[1][2] = 0 \/ E[1][2] = 1
      BY <1>9, <1>13
    <3>2. ~ (E[1][2] >= 2)
      BY <3>1
    <3> QED
      BY <3>2 DEF IndexRight
  <2>2. InWindow(touched, <<>>, num, skip) /\ UnitsInWindow(touched, <<>>, num, skip)
    BY EmptySeq DEF InWindow, UnitsInWindow
  <2>3. Ordered(<<>>, <<>>, hist, Coming)
    <3>1. \A id : Precedes(Blank.id, id) /\ Precedes(id, Blank.id)
      BY DEF Precedes
    <3>2. \A id : UnitsBefore(<<>>, id) /\ AllBefore(<<>>, id)
      BY EmptySeq DEF UnitsBefore, AllBefore
    <3>3. UnitsInOrder(<<>>) /\ Ascending(<<>>)
      BY EmptySeq DEF UnitsInOrder, Ascending
    <3>4. Ascending(hist) /\ AllBefore(hist, Coming)
      BY <1>1, <3>1 DEF Ascending, AllBefore
    <3> QED
      BY <3>2, <3>3, <3>4, EmptySeq DEF Ordered
  <2>4. Framed(<<>>, <<>>, E[1], num, skip)
    <3>1. WholeFrames(<<>>, skip + 1)
      BY EmptySeq DEF WholeFrames
    <3>2. Upcoming(E[1], num, skip) = <<1, skip + 1>>
      <4>1. CASE E[1] = Blank.id
        BY <4>1 DEF Upcoming
      <4>2. CASE E[1] = <<1, 1>>
        <5>1. E[1] # Blank.id /\ E[1][1] = 1 /\ E[1][2] = 1
          BY <1>9, <4>2
        <5>2. CASE 1 <= skip
          BY <5>1, <5>2 DEF Upcoming
        <5>3. CASE skip = 0
          <6>1. ~(1 <= skip) /\ 1 <= skip + num /\ skip + 1 = 1
            BY <1>14, <5>3
          <6> QED
            BY <4>2, <5>1, <6>1 DEF Upcoming
        <5> QED
          BY <5>2, <5>3
      <4> QED
        BY <1>13, <4>1, <4>2
    <3>3. PICK F : F = Trail(<<>>, <<1, skip + 1>>)
      OBVIOUS
    <3>4. DOMAIN F = 1..1 /\ F[1] = <<1, skip + 1>>
      BY <3>3, EmptySeq DEF Trail
    <3>5. ASSUME NEW u \in Nat, NEW i \in 1..num
          PROVE  Due(<<>>, F, num, skip, u, i)
      <4> SUFFICES ASSUME u * num + i \in 1..1
                   PROVE  F[u * num + i] = <<0 + 1 + u, skip + i>>
        BY <3>4, EmptySeq DEF Due
      <4>1. u * num \in Nat
        BY Times
      <4>2. i = 1 /\ u * num = 0
        BY <4>1
      <4>3. u = 0
        BY <4>2, Times
      <4>4. u * num + i = 1
        BY <4>2
      <4> QED
        BY <3>4, <4>2, <4>3, <4>4
    <3> QED
      BY <3>1, <3>2, <3>3, <3>5, EmptySeq DEF Framed
  <2> QED
    BY <1>10, <1>11, <1>7, <1>12, <2>1, <2>2, <2>3, <2>4 DEF Half
<1>15. FicInv
  <2>1. Half(touched, Fresh, <<>>, <<>>, 0 + NumFic, hist, Coming, NumFic, 0)
    BY <1>14, Sizes
  <2>2. 0 + NumFic = NumFic
    BY Sizes
  <2>3. Tags(touched, Fresh, toFic)
    BY EmptySeq DEF Tags
  <2> QED
    BY <1>5, <2>1, <2>2, <2>3 DEF FicInv
<1>16. MscInv
  <2>1. Half(touched, Fresh, <<>>, <<>>, NumFic + NumMsc, hist, Coming, NumMsc, NumFic)
    BY <1>14, Sizes
  <2>2. Tags(touched, Fresh, toMsc)
    BY EmptySeq DEF Tags
  <2> QED
    BY <1>5, <2>1, <2>2 DEF MscInv
<1> QED
  BY <1>3, <1>4, <1>15, <1>16 DEF ChainInv

LEMMA ChainNextInv ==
    ASSUME ChainInv, [Next]_vars
    PROVE  ChainInv'
<1>1. CASE UNCHANGED vars
  <2>1. b0' = b0 /\ Coming' = Coming /\ Fresh' = Fresh
    BY <1>1 DEF vars, blocks, edges, b0, Coming, Fresh
  <2>2. TypeOK'
    BY <1>1 DEF ChainInv, TypeOK, vars, blocks, edges
  <2>3. SharedInv'
    BY <1>1, <2>1 DEF ChainInv, SharedInv, vars, blocks, edges
  <2>4. FicInv' /\ MscInv'
    BY <1>1, <2>1 DEF ChainInv, FicInv, MscInv, vars, blocks, edges
  <2> QED
    BY <2>2, <2>3, <2>4 DEF ChainInv
<1>2. CASE Sample
  BY <1>2, SampleInv
<1>3. CASE RemoveFirstSymbol
  BY <1>3, RemoveFirstSymbolInv
<1>4. CASE EqualizeMagnitude
  BY <1>4, EqualizeMagnitudeInv
<1>5. CASE SelectFic
  BY <1>5, SelectFicInv
<1>6. CASE SelectMsc
  BY <1>6, SelectMscInv
<1>7. CASE RepartitionFic
  BY <1>7, RepartitionFicInv
<1>8. CASE RepartitionMsc
  BY <1>8, RepartitionMscInv
<1>9. CASE Restart
  BY <1>9, RestartInv
<1> QED
  BY <1>1, <1>2, <1>3, <1>4, <1>5, <1>6, <1>7, <1>8, <1>9 DEF Next

\* The invariant of the whole chain.
THEOREM ChainInvariant == Spec => []ChainInv
<1>1. Init => ChainInv
  BY ChainInitInv
<1>2. ChainInv /\ [Next]_vars => ChainInv'
  BY ChainNextInv
<1> QED
  BY <1>1, <1>2, PTL DEF Spec

\* No edge ever holds more than its buffer, the counters stay within a frame and a
\* tag is never remembered for a place behind the history, whatever the sizes of
\* the calls, the edges and the frame.
THEOREM ChainTypes == Spec => []TypeOK
<1>1. ChainInv => TypeOK
  BY DEF ChainInv
<1> QED
  BY <1>1, ChainInvariant, PTL

\* As long as the flowgraph is not restarted, unit number j of either decoder
\* holds the symbols of frame j that are meant for it, one by one.
THEOREM FramesDelivered == Spec => []DeliversFrames
<1>1. ChainInv => DeliversFrames
  <2> SUFFICES ASSUME ChainInv, restarts = 0
               PROVE  WholeFrames(fic, 1) /\ WholeFrames(msc, 1 + NumFic)
    BY DEF DeliversFrames
  <2>1. Fresh
    BY DEF Fresh
  <2>2. WholeFrames(fic, 0 + 1)
    BY <2>1 DEF ChainInv, FicInv, Half, Framed
  <2>3. WholeFrames(msc, NumFic + 1)
    BY <2>1 DEF ChainInv, MscInv, Half, Framed
  <2>4. NumFic + 1 = 1 + NumFic /\ 0 + 1 = 1
    BY Sizes
  <2> QED
    BY <2>2, <2>3, <2>4
<1> QED
  BY <1>1, ChainInvariant, PTL

\* Whatever was lost in restarts, the symbols of a frame that lost nothing go to
\* their own decoder only.
THEOREM SelectionsRight == Spec => []SelectsRight
<1>1. ChainInv => SelectsRight
  <2> SUFFICES ASSUME ChainInv, NEW id \in Ids, id[1] \notin touched, id[1] # 0
               PROVE  /\ (\E j \in 1..Len(fic) : id \in Range(fic[j].ids))
                            => id[2] \in 1..NumFic
                      /\ (\E j \in 1..Len(msc) : id \in Range(msc[j].ids))
                            => id[2] \in (1 + NumFic)..(PerFrame - 1)
    BY DEF SelectsRight
  <2>1. id[2] \in Nat
    BY IdFacts
  <2>2. ASSUME NEW j \in 1..Len(fic), id \in Range(fic[j].ids)
        PROVE  id[2] \in 1..NumFic
    <3>1. PICK i \in DOMAIN fic[j].ids : fic[j].ids[i] = id
      BY <2>2 DEF Range
    <3>2. Selected(touched, id, NumFic, 0)
      BY <3>1 DEF ChainInv, FicInv, Half, UnitsInWindow
    <3> QED
      BY <2>1, <3>2, Sizes DEF Selected
  <2>3. ASSUME NEW j \in 1..Len(msc), id \in Range(msc[j].ids)
        PROVE  id[2] \in (1 + NumFic)..(PerFrame - 1)
    <3>1. PICK i \in DOMAIN msc[j].ids : msc[j].ids[i] = id
      BY <2>3 DEF Range
    <3>2. Selected(touched, id, NumMsc, NumFic)
      BY <3>1 DEF ChainInv, MscInv, Half, UnitsInWindow
    <3> QED
      BY <2>1, <3>2, Sizes DEF Selected
  <2> QED
    BY <2>2, <2>3
<1> QED
  BY <1>1, ChainInvariant, PTL

\* Over any number of restarts, nothing is delivered twice or before what was
\* sent earlier.
THEOREM UnitsOrdered == Spec => []InOrder
<1>1. ChainInv => InOrder
  BY DEF ChainInv, FicInv, MscInv, Half, Ordered, InOrder
<1> QED
  BY <1>1, ChainInvariant, PTL
=============================================================================
