------------------------- MODULE FrequencySyncProofs ------------------------
(***************************************************************************)
(* Proofs about the fine frequency synchronisation: for all symbol lengths *)
(* and numbers of symbols, and however the samples are cut into calls, a   *)
(* frame is corrected by what was measured on it.                          *)
(***************************************************************************)
EXTENDS FrequencySync, TLAPS

-----------------------------------------------------------------------------
(* The inductive invariant *)

\* How far work() is behind the last tag, after y symbols and x samples.
Since(y, x) == y * SymbolLength + x

\* Of the tags S, T is the last one before sample h.
LastOf(T, S, h) == T \in S /\ T < h /\ \A u \in S : T < u => h <= u

\* None of the tags S disturbs the frame that begins at T.
Quiet(T, S) == \A u \in S : T < u => T + Delay < u

\* That frame's estimate is one of E.
EstimatedIn(T, E) == \E k \in 1..Len(E) :
                        E[k].at = T + Delay /\ E[k].on = SymbolsFrom(T)

\* None of the restarts C came between T and x.
NoCut(C, T, x) == \A c \in C : c.to <= T \/ x < c.from

\* The first y symbols of the frame that begins at T.
FirstSymbols(T, y) == [k \in 1..y |-> T + (k - 1) * SymbolLength]

Start == Here - Since(d_cur_symbol, d_cur_sample)

\* The next tag is known to a call ...
TagKnown == noutput > 0 => IsNextTag(next_tag_position, Here, noutput)

\* ... restarts and estimates lie behind it, the latter in their order ...
Behind ==
    /\ \A c \in cuts : c.from <= c.to /\ c.to <= read
    /\ \A k \in 1..Len(estimates) : estimates[k].at < Here
    /\ \A k \in 1..Len(estimates) : \A j \in 1..(k - 1) : estimates[j].at < estimates[k].at

\* ... a measurement in progress is one of the last tag's frame ...
Measuring ==
    whole /\ d_cur_symbol < NumSymbols =>
        LastOf(Start, tags, Here) /\ d_ffs_error_sum = FirstSymbols(Start, d_cur_symbol)

\* ... and none is forgotten, unless a restart came after the tag ...
Tracked ==
    \A T \in tags :
        LastOf(T, tags, Here) /\ (\A c \in cuts : c.to <= T) =>
            /\ whole
            /\ d_cur_symbol < NumSymbols => T = Start
            /\ d_cur_symbol >= NumSymbols => EstimatedIn(T, estimates)

\* ... so that every undisturbed frame has been measured ...
Complete ==
    \A T \in tags :
        Quiet(T, tags) /\ T + Delay < Here /\ NoCut(cuts, T, T + Delay)
        => EstimatedIn(T, estimates)

\* ... and a measurement that a restart has spoiled began before it.
Spoiled ==
    ~whole /\ d_cur_symbol < NumSymbols =>
        \E c \in cuts : \A j \in 1..Len(estimates) : estimates[j].at < c.from

IInv == /\ TypeOK /\ TagKnown /\ Behind /\ Measuring /\ Tracked /\ Complete
        /\ Spoiled /\ MeasuresOneFrame /\ SpoiledOnce

-----------------------------------------------------------------------------
(* Numbers *)

LEMMA Products ==
    ASSUME NEW a \in Nat, NEW b \in Nat, a < b
    PROVE  /\ a * SymbolLength \in Nat /\ b * SymbolLength \in Nat
           /\ a * SymbolLength + SymbolLength <= b * SymbolLength
           /\ (a + 1) * SymbolLength = a * SymbolLength + SymbolLength
<1>1. SymbolLength \in Nat
  BY FrequencyAssumption
<1>2. PICK d \in Nat : b = a + 1 + d
  <2>1. b - (a + 1) \in Nat
    OBVIOUS
  <2> QED BY <2>1
<1>3. (a + 1) * SymbolLength = a * SymbolLength + SymbolLength
  BY <1>1
<1>4. b * SymbolLength = (a + 1) * SymbolLength + d * SymbolLength
  BY <1>1, <1>2
<1>5. d * SymbolLength \in Nat /\ a * SymbolLength \in Nat
  BY <1>1
<1> QED BY <1>1, <1>3, <1>4, <1>5

LEMMA Numbers ==
    ASSUME TypeOK
    PROVE  /\ SymbolLength \in Nat /\ 1 <= SymbolLength
           /\ NumSymbols \in Nat /\ 1 <= NumSymbols
           /\ Delay \in Nat /\ 1 <= Delay /\ Since(d_cur_symbol, d_cur_sample) \in Nat
           /\ Here \in Nat /\ Start \in Int
           /\ written \in Nat /\ read \in Nat /\ noutput \in Nat /\ i \in Nat
           /\ i <= noutput /\ read + noutput <= written /\ Here <= written
           /\ d_cur_symbol \in Nat /\ d_cur_sample \in Nat
           /\ d_cur_sample <= SymbolLength
           /\ next_tag_position \in Int
           /\ \A u \in tags : u \in Nat /\ u < written
           /\ \A c \in cuts : c.from \in Nat /\ c.to \in Nat
           /\ Len(estimates) \in Nat
           /\ \A k \in 1..Len(estimates) : estimates[k] \in Estimate /\ estimates[k].at \in Nat
<1>1. SymbolLength \in Nat /\ 1 <= SymbolLength /\ NumSymbols \in Nat /\ 1 <= NumSymbols
  BY FrequencyAssumption
<1>2. /\ written \in Nat /\ read \in Nat /\ noutput \in Nat /\ i \in Nat
      /\ i <= noutput /\ read + noutput <= written
      /\ d_cur_symbol \in Nat /\ d_cur_sample \in Nat
      /\ d_cur_sample <= SymbolLength /\ next_tag_position \in Int
      /\ \A u \in tags : u \in Nat /\ u < written
  BY <1>1 DEF TypeOK
<1>3. \A c \in cuts : c.from \in Nat /\ c.to \in Nat
  BY <1>2 DEF TypeOK
<1>4. NumSymbols * SymbolLength \in Nat /\ d_cur_symbol * SymbolLength \in Nat
  BY <1>1, <1>2
<1>7. 1 <= NumSymbols * SymbolLength
  BY <1>1, Products, 0 \in Nat, 0 < NumSymbols
<1>5. Len(estimates) \in Nat /\ \A k \in 1..Len(estimates) : estimates[k] \in Estimate
  <2>1. estimates \in Seq(Estimate)
    BY DEF TypeOK
  <2> QED BY <2>1
<1>6. \A k \in 1..Len(estimates) : estimates[k].at \in Nat
  BY <1>5 DEF Estimate
<1> QED BY <1>1, <1>2, <1>3, <1>4, <1>5, <1>6, <1>7 DEF Delay, Since, Here, Start

\* Whether the first tag of the call from here on is the one here.
LEMMA TagHere ==
    ASSUME TypeOK, TagKnown, Looping
    PROVE  /\ AtTag <=> Here \in tags
           /\ ~AtTag => IsNextTag(next_tag_position, Here + 1, noutput)
<1>1. /\ IsNextTag(next_tag_position, Here, noutput) /\ i < noutput
      /\ read \in Nat /\ i \in Nat /\ noutput \in Nat /\ next_tag_position \in Int
      /\ \A u \in tags : u \in Nat
  BY Numbers DEF TagKnown, Looping
<1>2. AtTag <=> Here \in tags
  BY <1>1 DEF AtTag, IsNextTag, Here
<1>3. ~AtTag => IsNextTag(next_tag_position, Here + 1, noutput)
  BY <1>1, <1>2 DEF AtTag, IsNextTag, Here
<1> QED BY <1>2, <1>3

\* What the properties say, in the words of this module.
LEMMA InWords ==
    /\ \A T : Undisturbed(T) <=> Quiet(T, tags)
    /\ MeasuresOneFrame <=>
          \A k \in 1..Len(estimates) :
             estimates[k].whole =>
                \E T \in tags : /\ Quiet(T, tags)
                                /\ estimates[k].at = T + Delay
                                /\ estimates[k].on = SymbolsFrom(T)
BY DEF Undisturbed, Quiet, MeasuresOneFrame

-----------------------------------------------------------------------------
(* The steps *)

LEMMA ArriveStep == IInv /\ Arrive => IInv'
<1> SUFFICES ASSUME IInv, Arrive PROVE IInv' OBVIOUS
<1> USE DEF IInv
<1>1. /\ written' = written + 1
      /\ tags' = tags \/ tags' = tags \cup {written}
      /\ UNCHANGED <<read, d_cur_symbol, d_cur_sample, d_ffs_error_sum, noutput, i>>
      /\ UNCHANGED <<next_tag_position, estimates, whole, cuts>>
  BY DEF Arrive, block, local
<1>2. Here' = Here /\ Start' = Start
  BY <1>1 DEF Here, Start
<1>3. /\ Delay \in Nat /\ Here <= written /\ written \in Nat /\ Here \in Nat
      /\ \A u \in tags : u \in Nat
  BY Numbers
<1>4. tags \subseteq tags' /\ \A u \in tags' : u \in tags \/ u = written
  BY <1>1
<1>5. TypeOK'
  <2>1. cuts \in SUBSET [from : 0..(written + 1), to : 0..(written + 1)]
    <3>1. 0..written \subseteq 0..(written + 1)
      BY <1>3
    <3>2. cuts \in SUBSET [from : 0..written, to : 0..written]
      BY DEF TypeOK
    <3> QED BY <3>1, <3>2
  <2>2. tags' \in SUBSET (0..written)
    BY <1>1, Numbers
  <2>3. read \in 0..(written + 1) /\ noutput \in 0..(written + 1 - read)
    BY Numbers
  <2>4. written + 1 \in Nat /\ (written + 1) - 1 = written
    BY <1>3
  <2> QED BY <1>1, <2>1, <2>2, <2>3, <2>4 DEF TypeOK
<1>6. TagKnown'
  <2> SUFFICES ASSUME noutput > 0
               PROVE  IsNextTag(next_tag_position, Here, noutput)'
    BY <1>1, <1>2 DEF TagKnown
  <2>1. IsNextTag(next_tag_position, Here, noutput)
    BY DEF TagKnown
  <2>2. /\ next_tag_position \in Int /\ read \in Nat /\ noutput \in Nat
        /\ read + noutput <= written
    BY Numbers
  <2>3. CASE next_tag_position = -1
    <3>1. \A u \in tags' : Here <= u => read + noutput <= u
      BY <1>4, <2>1, <2>2, <2>3 DEF IsNextTag
    <3> QED BY <1>1, <1>2, <2>3, <3>1 DEF IsNextTag
  <2>4. CASE next_tag_position # -1
    <3>1. /\ next_tag_position >= 0 /\ next_tag_position < noutput
          /\ read + next_tag_position \in tags' /\ Here <= read + next_tag_position
      BY <1>4, <2>1, <2>4 DEF IsNextTag
    <3>2. \A u \in tags : Here <= u => read + next_tag_position <= u
      BY <2>1, <2>4 DEF IsNextTag
    <3>3. read + next_tag_position <= written
      BY <1>3, <2>2, <3>1
    <3>4. \A u \in tags' : Here <= u => read + next_tag_position <= u
      BY <1>4, <3>2, <3>3
    <3> QED BY <1>1, <1>2, <3>1, <3>4 DEF IsNextTag
  <2> QED BY <2>3, <2>4
<1>7. Behind'
  BY <1>1, <1>2 DEF Behind
<1>8. \A T \in tags : /\ LastOf(T, tags, Here) => LastOf(T, tags', Here)
                      /\ LastOf(T, tags', Here) => LastOf(T, tags, Here)
                      /\ Quiet(T, tags') => Quiet(T, tags)
                      /\ Quiet(T, tags) /\ T + Delay < Here => Quiet(T, tags')
  BY <1>3, <1>4 DEF LastOf, Quiet
<1>9. \A T \in tags' : LastOf(T, tags', Here) \/ T + Delay < Here => T \in tags
  BY <1>3, <1>4 DEF LastOf
<1>10. Measuring'
  <2>1. LastOf(Start, tags, Here) => Start \in tags
    BY DEF LastOf
  <2>2. LastOf(Start, tags, Here) => LastOf(Start, tags', Here)
    BY <1>8, <2>1, Zenon
  <2> QED BY <1>1, <1>2, <2>2 DEF Measuring
<1>11. Tracked'
  <2> SUFFICES ASSUME NEW T \in tags', LastOf(T, tags', Here), \A c \in cuts : c.to <= T
               PROVE  /\ whole
                      /\ d_cur_symbol < NumSymbols => T = Start
                      /\ d_cur_symbol >= NumSymbols => EstimatedIn(T, estimates)
    BY <1>1, <1>2 DEF Tracked
  <2>1. T \in tags
    BY <1>9
  <2>2. LastOf(T, tags, Here)
    BY <1>8, <2>1, Zenon
  <2> QED BY <2>1, <2>2 DEF Tracked
<1>12. Complete'
  <2> SUFFICES ASSUME NEW T \in tags', Quiet(T, tags'), T + Delay < Here,
                      NoCut(cuts, T, T + Delay)
               PROVE  EstimatedIn(T, estimates)
    BY <1>1, <1>2 DEF Complete
  <2>1. T \in tags
    BY <1>9
  <2>2. Quiet(T, tags)
    BY <1>8, <2>1, Zenon
  <2> QED BY <2>1, <2>2 DEF Complete
<1>13. Spoiled' /\ SpoiledOnce'
  BY <1>1 DEF Spoiled, SpoiledOnce
<1>14. MeasuresOneFrame'
  <2> SUFFICES ASSUME NEW k \in 1..Len(estimates), estimates[k].whole
               PROVE  \E T \in tags' : /\ Quiet(T, tags')
                                       /\ estimates[k].at = T + Delay
                                       /\ estimates[k].on = SymbolsFrom(T)
    BY <1>1 DEF MeasuresOneFrame, Undisturbed, Quiet
  <2>1. PICK T \in tags : /\ Quiet(T, tags)
                          /\ estimates[k].at = T + Delay
                          /\ estimates[k].on = SymbolsFrom(T)
    BY InWords
  <2>2. T + Delay < Here
    BY <2>1 DEF Behind
  <2>3. T \in tags' /\ Quiet(T, tags')
    BY <1>4, <1>8, <2>1, <2>2, Zenon
  <2> QED BY <2>1, <2>3
<1> QED BY <1>5, <1>6, <1>7, <1>10, <1>11, <1>12, <1>13, <1>14

LEMMA RestartStep == IInv /\ Restart => IInv'
<1> SUFFICES ASSUME IInv, Restart PROVE IInv' OBVIOUS
<1> USE DEF IInv
<1> DEFINE new == [from |-> read, to |-> written]
<1>1. /\ noutput = 0 /\ read' = written /\ whole' = FALSE
      /\ cuts' = cuts \cup {new}
      /\ UNCHANGED <<written, tags, d_cur_symbol, d_cur_sample, d_ffs_error_sum>>
      /\ UNCHANGED <<noutput, i, next_tag_position, estimates>>
  BY DEF Restart, block, local
<1>2. i = 0 /\ Here = read /\ Here' = written /\ read <= written /\ written \in Nat /\ read \in Nat
  BY <1>1, Numbers DEF Here
<1>3. new.from = read /\ new.to = written /\ new \in cuts' /\ cuts \subseteq cuts'
  BY <1>1
<1>4. TypeOK'
  <2>1. cuts' \in SUBSET [from : 0..written, to : 0..written]
    BY <1>1, <1>2 DEF TypeOK
  <2>2. written \in 0..written /\ noutput \in 0..(written - written) /\ i \in 0..noutput
    BY <1>1, <1>2
  <2>3. next_tag_position \in -1..(noutput - 1)
    BY DEF TypeOK
  <2> QED BY <1>1, <2>1, <2>2, <2>3 DEF TypeOK
<1>5. TagKnown' /\ Measuring'
  BY <1>1 DEF TagKnown, Measuring
<1>6. Behind'
  <2>1. \A c \in cuts' : c.from <= c.to /\ c.to <= written
    BY <1>1, <1>2, <1>3, Numbers DEF Behind
  <2>2. \A k \in 1..Len(estimates) : estimates[k].at < written
    BY <1>2, Numbers DEF Behind
  <2> QED BY <1>1, <1>2, <2>1, <2>2 DEF Behind
<1>7. Tracked'
  <2>1. \A T \in tags : ~(new.to <= T)
    BY <1>3, Numbers
  <2> QED BY <1>1, <1>3, <2>1 DEF Tracked
<1>8. Complete'
  <2> SUFFICES ASSUME NEW T \in tags, Quiet(T, tags), NoCut(cuts', T, T + Delay)
               PROVE  EstimatedIn(T, estimates)
    BY <1>1 DEF Complete
  <2>1. T < written /\ T \in Nat /\ Delay \in Nat
    BY Numbers
  <2>2. T + Delay < read
    BY <1>2, <1>3, <2>1 DEF NoCut
  <2>3. NoCut(cuts, T, T + Delay)
    BY <1>3 DEF NoCut
  <2> QED BY <1>2, <2>2, <2>3 DEF Complete
<1>9. Spoiled'
  <2>1. \A j \in 1..Len(estimates) : estimates[j].at < new.from
    BY <1>2, <1>3 DEF Behind
  <2> QED BY <1>1, <1>3, <2>1 DEF Spoiled
<1>10. MeasuresOneFrame' /\ SpoiledOnce'
  BY <1>1, <1>3 DEF MeasuresOneFrame, SpoiledOnce, Undisturbed
<1> QED BY <1>4, <1>5, <1>6, <1>7, <1>8, <1>9, <1>10
LEMMA WorkBeginStep == IInv /\ WorkBegin => IInv'
<1> SUFFICES ASSUME IInv, WorkBegin PROVE IInv' OBVIOUS
<1> USE DEF IInv
<1>1. PICK n \in 1..(written - read), t \in -1..(written - read - 1) :
         noutput' = n /\ IsNextTag(t, read, n) /\ next_tag_position' = t
  BY DEF WorkBegin
<1>2. /\ noutput = 0 /\ i' = 0
      /\ UNCHANGED <<written, tags, read, d_cur_symbol, d_cur_sample, d_ffs_error_sum>>
      /\ UNCHANGED <<estimates, whole, cuts>>
  BY DEF WorkBegin, block
<1>3. i = 0 /\ read \in Nat /\ written \in Nat
  BY <1>2, Numbers
<1>4. Here' = Here /\ Here = read /\ Start' = Start
  BY <1>2, <1>3 DEF Here, Start
<1>5. t \in -1..(n - 1)
  BY <1>1, <1>3 DEF IsNextTag
<1>6. n \in 0..(written - read) /\ 0 \in 0..n
  BY <1>1, <1>3
<1>7. TypeOK'
  BY <1>1, <1>2, <1>5, <1>6 DEF TypeOK
<1>8. TagKnown'
  BY <1>1, <1>2, <1>4 DEF TagKnown, IsNextTag
<1>9. Behind' /\ Measuring' /\ Tracked' /\ Complete' /\ Spoiled'
  BY <1>2, <1>4 DEF Behind, Measuring, Tracked, Complete, Spoiled
<1>10. MeasuresOneFrame' /\ SpoiledOnce'
  BY <1>2 DEF MeasuresOneFrame, SpoiledOnce, Undisturbed
<1> QED BY <1>7, <1>8, <1>9, <1>10

LEMMA WorkEndStep == IInv /\ WorkEnd => IInv'
<1> SUFFICES ASSUME IInv, WorkEnd PROVE IInv' OBVIOUS
<1> USE DEF IInv
<1>1. /\ i = noutput /\ read' = read + noutput
      /\ noutput' = 0 /\ i' = 0 /\ next_tag_position' = -1
      /\ UNCHANGED <<written, tags, d_cur_symbol, d_cur_sample, d_ffs_error_sum>>
      /\ UNCHANGED <<estimates, whole, cuts>>
  BY DEF WorkEnd, block
<1>2. /\ read \in Nat /\ noutput \in Nat /\ written \in Nat
      /\ read + noutput <= written
  BY Numbers
<1>3. Here' = Here /\ Start' = Start /\ read <= read'
  BY <1>1, <1>2 DEF Here, Start
<1>4. TypeOK'
  <2>1. read' \in 0..written /\ 0 \in 0..(written - read') /\ 0 \in 0..0
    BY <1>1, <1>2
  <2>2. -1 \in -1..(0 - 1)
    OBVIOUS
  <2> QED BY <1>1, <2>1, <2>2 DEF TypeOK
<1>5. TagKnown' /\ Measuring' /\ Tracked' /\ Complete' /\ Spoiled'
  BY <1>1, <1>3 DEF TagKnown, Measuring, Tracked, Complete, Spoiled
<1>6. Behind'
  <2>1. \A c \in cuts : c.from <= c.to /\ c.to <= read'
    BY <1>1, <1>2, Numbers DEF Behind
  <2> QED BY <1>1, <1>3, <2>1 DEF Behind
<1>7. MeasuresOneFrame' /\ SpoiledOnce'
  BY <1>1 DEF MeasuresOneFrame, SpoiledOnce, Undisturbed
<1> QED BY <1>4, <1>5, <1>6, <1>7

\* The last tag, one sample further.
LEMMA LastMoves ==
    ASSUME TypeOK, NEW T \in tags
    PROVE  /\ Here \notin tags => (LastOf(T, tags, Here + 1) <=> LastOf(T, tags, Here))
           /\ Here \in tags => (LastOf(T, tags, Here + 1) <=> T = Here)
<1>1. Here \in Nat /\ \A u \in tags : u \in Nat
  BY Numbers
<1> QED BY <1>1 DEF LastOf

\* The tag of an undisturbed frame is the last one until the frame is measured.
LEMMA QuietIsLast ==
    ASSUME NEW S, NEW T \in S, NEW h \in Nat, NEW d \in Nat, \A u \in S : u \in Nat,
           1 <= d, Delay = d, T + d = h, Quiet(T, S)
    PROVE  LastOf(T, S, h + 1)
BY DEF LastOf, Quiet

\* With symbols left to measure, the frame's first sample is less than Delay ago.
LEMMA NotSoLong ==
    ASSUME NEW y \in Nat, NEW x \in Nat, NEW h \in Nat, NEW t \in Nat, NEW g,
           y < NumSymbols, x <= SymbolLength, t + Delay = h,
           g = h + 1, t = g - Since(y, x)
    PROVE  FALSE
<1>1. NumSymbols \in Nat /\ SymbolLength \in Nat
  BY FrequencyAssumption
<1>2. PICK p \in Nat : p = y * SymbolLength /\ p + SymbolLength <= NumSymbols * SymbolLength
  BY <1>1, Products
<1>3. PICK d \in Nat : d = NumSymbols * SymbolLength
  BY <1>1
<1>4. t = h + 1 - (p + x) /\ t + d = h /\ p + SymbolLength <= d
  BY <1>2, <1>3 DEF Since, Delay
<1> QED BY <1>1, <1>4

\* An undisturbed frame is complete when it has been measured.
LEMMA CompleteAfter ==
    ASSUME IInv, TypeOK', Behind', Tracked', UNCHANGED <<tags, cuts, read>>, Here' = Here + 1,
           \A T \in tags : EstimatedIn(T, estimates) => EstimatedIn(T, estimates')
    PROVE  Complete'
<1> USE DEF IInv
<1> SUFFICES ASSUME NEW T \in tags, Quiet(T, tags), T + Delay < Here + 1,
                    NoCut(cuts, T, T + Delay)
             PROVE  EstimatedIn(T, estimates')
  BY DEF Complete
<1>1. /\ T \in Nat /\ Delay \in Nat /\ 1 <= Delay /\ Here \in Nat
      /\ \A u \in tags : u \in Nat
  BY Numbers
<1>4. \A c \in cuts : c.from \in Nat /\ c.to \in Nat /\ c.from <= c.to /\ c.to <= Here
  <2>1. read \in Nat /\ i \in Nat /\ Here = read + i
    BY Numbers DEF Here
  <2>2. \A c \in cuts : c.from \in Nat /\ c.to \in Nat
    BY Numbers
  <2> QED BY <2>1, <2>2 DEF Behind
<1>2. CASE T + Delay < Here
  BY <1>2 DEF Complete
<1>3. CASE T + Delay = Here
  <2>1. LastOf(T, tags, Here + 1)
    BY <1>1, <1>3, QuietIsLast
  <2>2. \A c \in cuts : c.to <= T
    BY <1>1, <1>3, <1>4 DEF NoCut
  <2>3. /\ d_cur_symbol' < NumSymbols => T = Start'
        /\ d_cur_symbol' >= NumSymbols => EstimatedIn(T, estimates')
    BY <2>1, <2>2 DEF Tracked
  <2>4. d_cur_symbol' \in Nat /\ NumSymbols \in Nat /\ SymbolLength \in Nat
        /\ d_cur_sample' \in Nat /\ d_cur_sample' <= SymbolLength
    BY Numbers DEF TypeOK
  <2>5. ASSUME d_cur_symbol' < NumSymbols PROVE FALSE
    <3>1. T = Here' - Since(d_cur_symbol', d_cur_sample')
      BY <2>3, <2>5 DEF Start
    <3> QED BY <1>1, <1>3, <2>4, <2>5, <3>1, NotSoLong
  <2> QED BY <2>3, <2>4, <2>5
<1> QED BY <1>1, <1>2, <1>3

LEMMA NewFrameStep == IInv /\ NewFrame => IInv'
<1> SUFFICES ASSUME IInv, NewFrame PROVE IInv' OBVIOUS
<1> USE DEF IInv
<1>1. /\ Looping /\ AtTag
      /\ d_cur_symbol' = 0 /\ d_cur_sample' = 1 /\ d_ffs_error_sum' = <<>>
      /\ i' = i + 1 /\ whole' = TRUE
      /\ UNCHANGED <<written, tags, read, noutput, estimates, cuts>>
  BY DEF NewFrame
<1>2. PICK t \in -1..(noutput - 1) :
         IsNextTag(t, Here + 1, noutput) /\ next_tag_position' = t
  BY DEF NewFrame
<1>3. /\ SymbolLength \in Nat /\ 1 <= SymbolLength /\ NumSymbols \in Nat /\ 1 <= NumSymbols
      /\ read \in Nat /\ i \in Nat /\ noutput \in Nat /\ i < noutput /\ Here \in Nat
  BY <1>1, Numbers DEF Looping
<1>4. Here \in tags
  BY <1>1, TagHere
<1>5. Here' = Here + 1 /\ Start' = Here
  <2>1. 0 * SymbolLength = 0
    BY <1>3
  <2> QED BY <1>1, <1>3, <2>1 DEF Here, Start, Since
<1>6. TypeOK'
  <2>1. 0 \in Nat /\ 1 \in 0..SymbolLength /\ i + 1 \in 0..noutput /\ <<>> \in Seq(Int)
    BY <1>3
  <2> QED BY <1>1, <1>2, <2>1 DEF TypeOK
<1>7. TagKnown'
  BY <1>1, <1>2, <1>5 DEF TagKnown, IsNextTag
<1>8. Behind'
  BY <1>1, <1>3, <1>5, Numbers DEF Behind
<1>9. Measuring'
  <2>1. LastOf(Here, tags, Here + 1)
    BY <1>4, LastMoves
  <2>2. <<>> = FirstSymbols(Here, 0)
    BY DEF FirstSymbols
  <2> QED BY <1>1, <1>5, <2>1, <2>2 DEF Measuring
<1>10. Tracked'
  <2>1. \A T \in tags : LastOf(T, tags, Here + 1) => T = Here
    BY <1>4, LastMoves
  <2> QED BY <1>1, <1>3, <1>5, <2>1 DEF Tracked
<1>11. Complete'
  BY <1>1, <1>5, <1>6, <1>8, <1>10, CompleteAfter
<1>12. Spoiled' /\ MeasuresOneFrame' /\ SpoiledOnce'
  BY <1>1 DEF Spoiled, MeasuresOneFrame, SpoiledOnce, Undisturbed
<1> QED BY <1>6, <1>7, <1>8, <1>9, <1>10, <1>11, <1>12

LEMMA NextSampleStep == IInv /\ NextSample => IInv'
<1> SUFFICES ASSUME IInv, NextSample PROVE IInv' OBVIOUS
<1> USE DEF IInv
<1>1. /\ Looping /\ ~AtTag /\ d_cur_sample # SymbolLength
      /\ d_cur_sample' = d_cur_sample + 1 /\ i' = i + 1
      /\ UNCHANGED <<written, tags, read, d_cur_symbol, d_ffs_error_sum, noutput>>
      /\ UNCHANGED <<next_tag_position, estimates, whole, cuts>>
  BY DEF NextSample, SymbolEnds
<1>2. /\ SymbolLength \in Nat /\ d_cur_sample \in Nat /\ d_cur_sample <= SymbolLength
      /\ read \in Nat /\ i \in Nat /\ noutput \in Nat /\ i < noutput /\ Here \in Nat
      /\ d_cur_symbol \in Nat /\ Since(d_cur_symbol, d_cur_sample) \in Nat
  BY <1>1, Numbers DEF Looping
<1>3. Here \notin tags /\ IsNextTag(next_tag_position, Here + 1, noutput)
  BY <1>1, TagHere
<1>4. Here' = Here + 1 /\ Start' = Start
  <2>1. d_cur_symbol * SymbolLength \in Nat
    BY <1>2
  <2> QED BY <1>1, <1>2, <2>1 DEF Here, Start, Since
<1>5. TypeOK'
  <2>1. d_cur_sample + 1 \in 0..SymbolLength /\ i + 1 \in 0..noutput
    BY <1>1, <1>2
  <2> QED BY <1>1, <2>1 DEF TypeOK
<1>6. TagKnown'
  BY <1>1, <1>3, <1>4 DEF TagKnown, IsNextTag
<1>7. Behind'
  BY <1>1, <1>2, <1>4, Numbers DEF Behind
<1>8. Measuring'
  <2>1. LastOf(Start, tags, Here) => Start \in tags
    BY DEF LastOf
  <2>2. LastOf(Start, tags, Here) => LastOf(Start, tags, Here + 1)
    BY <1>3, <2>1, LastMoves
  <2> QED BY <1>1, <1>4, <2>2 DEF Measuring
<1>9. Tracked'
  <2>1. \A T \in tags : LastOf(T, tags, Here + 1) => LastOf(T, tags, Here)
    BY <1>3, LastMoves
  <2> QED BY <1>1, <1>4, <2>1 DEF Tracked
<1>10. Complete'
  BY <1>1, <1>4, <1>5, <1>7, <1>9, CompleteAfter
<1>11. Spoiled' /\ MeasuresOneFrame' /\ SpoiledOnce'
  BY <1>1 DEF Spoiled, MeasuresOneFrame, SpoiledOnce, Undisturbed
<1> QED BY <1>5, <1>6, <1>7, <1>8, <1>9, <1>10, <1>11

\* One symbol more.
LEMMA AppendSymbol ==
    ASSUME NEW T \in Int, NEW y \in Nat, NEW e, e = T + y * SymbolLength
    PROVE  Append(FirstSymbols(T, y), e) = FirstSymbols(T, y + 1)
<1> DEFINE f == FirstSymbols(T, y)
           g == FirstSymbols(T, y + 1)
<1>1. SymbolLength \in Nat
  BY FrequencyAssumption
<1>2. \A k \in 1..(y + 1) : T + (k - 1) * SymbolLength \in Int
  BY <1>1
<1>3. f \in Seq(Int) /\ Len(f) = y /\ g \in Seq(Int) /\ Len(g) = y + 1
  <2>1. f \in [1..y -> Int] /\ g \in [1..(y + 1) -> Int]
    BY <1>2 DEF FirstSymbols
  <2> QED BY <2>1
<1>4. e \in Int /\ y * SymbolLength \in Nat
  BY <1>1
<1>5. Append(f, e) \in Seq(Int) /\ Len(Append(f, e)) = y + 1
  BY <1>3, <1>4
<1>6. \A k \in 1..(y + 1) : Append(f, e)[k] = g[k]
  <2> SUFFICES ASSUME NEW k \in 1..(y + 1) PROVE Append(f, e)[k] = g[k]
    OBVIOUS
  <2>1. g[k] = T + (k - 1) * SymbolLength
    BY DEF FirstSymbols
  <2>2. CASE k = y + 1
    <3>1. Append(f, e)[k] = e
      BY <1>3, <1>4, <2>2
    <3>2. k - 1 = y
      BY <2>2
    <3> QED BY <2>1, <3>1, <3>2
  <2>3. CASE k # y + 1
    <3>1. k \in 1..y
      BY <2>3
    <3>2. f[k] = T + (k - 1) * SymbolLength
      BY <3>1 DEF FirstSymbols
    <3>3. Append(f, e)[k] = f[k]
      BY <1>3, <1>4, <3>1
    <3> QED BY <2>1, <3>2, <3>3
  <2> QED BY <2>2, <2>3
<1> HIDE DEF f, g
<1>7. Append(f, e) = g
  BY <1>3, <1>5, <1>6
<1> QED BY <1>7 DEF f, g

LEMMA NewSymbolStep == IInv /\ NewSymbol => IInv'
<1> SUFFICES ASSUME IInv, NewSymbol PROVE IInv' OBVIOUS
<1> USE DEF IInv
<1> DEFINE made == [at |-> Here, on |-> d_ffs_error_sum', whole |-> whole]
<1>1. /\ Looping /\ ~AtTag /\ d_cur_sample = SymbolLength
      /\ d_cur_sample' = 1 /\ d_cur_symbol' = d_cur_symbol + 1 /\ i' = i + 1
      /\ UNCHANGED <<written, tags, read, noutput, next_tag_position, whole, cuts>>
  BY DEF NewSymbol, SymbolEnds
<1>1a. /\ d_cur_symbol < NumSymbols =>
             d_ffs_error_sum' = Append(d_ffs_error_sum, Here - SymbolLength)
       /\ ~(d_cur_symbol < NumSymbols) => d_ffs_error_sum' = d_ffs_error_sum
  BY Zenon DEF NewSymbol, Measured
<1>2. /\ d_cur_symbol = NumSymbols - 1 => estimates' = Append(estimates, made)
      /\ d_cur_symbol # NumSymbols - 1 => estimates' = estimates
  BY DEF NewSymbol, LastMeasured
<1>3. /\ SymbolLength \in Nat /\ 1 <= SymbolLength /\ NumSymbols \in Nat /\ 1 <= NumSymbols
      /\ read \in Nat /\ i \in Nat /\ noutput \in Nat /\ i < noutput /\ Here \in Nat
      /\ d_cur_symbol \in Nat /\ d_cur_symbol * SymbolLength \in Nat
  <2>1. i < noutput
    BY <1>1 DEF Looping
  <2>2. /\ SymbolLength \in Nat /\ 1 <= SymbolLength /\ NumSymbols \in Nat /\ 1 <= NumSymbols
        /\ read \in Nat /\ i \in Nat /\ noutput \in Nat /\ Here \in Nat /\ d_cur_symbol \in Nat
    BY Numbers
  <2>3. d_cur_symbol * SymbolLength \in Nat
    BY <2>2
  <2> QED BY <2>1, <2>2, <2>3
<1>4. Here \notin tags /\ IsNextTag(next_tag_position, Here + 1, noutput)
  BY <1>1, TagHere
<1>5. Start = Here - (d_cur_symbol * SymbolLength + SymbolLength) /\ Start \in Int
  BY <1>1, <1>3 DEF Start, Since
<1>6. Here' = Here + 1 /\ Start' = Start
  <2>1. (d_cur_symbol + 1) * SymbolLength = d_cur_symbol * SymbolLength + SymbolLength
    BY <1>3
  <2>2. Here' = Here + 1
    BY <1>1, <1>3 DEF Here
  <2>3. Start' = Here' - ((d_cur_symbol + 1) * SymbolLength + 1)
    BY <1>1 DEF Start, Since
  <2> QED BY <1>3, <1>5, <2>1, <2>2, <2>3
<1>7. /\ d_ffs_error_sum \in Seq(Int) /\ estimates \in Seq(Estimate)
      /\ whole \in BOOLEAN
  BY DEF TypeOK
<1>8. d_ffs_error_sum' \in Seq(Int)
  <2>1. Here - SymbolLength \in Int
    BY <1>3
  <2>2. Append(d_ffs_error_sum, Here - SymbolLength) \in Seq(Int)
    BY <1>7, <2>1
  <2> QED BY <1>1a, <1>7, <2>2, Zenon
<1>9. made \in Estimate /\ made.at = Here /\ made.on = d_ffs_error_sum' /\ made.whole = whole
  BY <1>3, <1>7, <1>8 DEF Estimate
<1> HIDE DEF made
\* The estimates, with the new one if there is one.
<1>10. /\ estimates' \in Seq(Estimate) /\ Len(estimates) \in Nat
       /\ Len(estimates) <= Len(estimates')
       /\ \A k \in 1..Len(estimates) : k \in 1..Len(estimates') /\ estimates'[k] = estimates[k]
       /\ \A k \in 1..Len(estimates') : k \in 1..Len(estimates) \/
             (d_cur_symbol = NumSymbols - 1 /\ k = Len(estimates) + 1 /\ estimates'[k] = made)
       /\ d_cur_symbol = NumSymbols - 1 =>
             Len(estimates) + 1 \in 1..Len(estimates') /\ estimates'[Len(estimates) + 1] = made
  <2>1. CASE d_cur_symbol = NumSymbols - 1
    <3>1. estimates' = Append(estimates, made)
      BY <1>2, <2>1
    <3> QED BY <1>7, <1>9, <2>1, <3>1
  <2>2. CASE d_cur_symbol # NumSymbols - 1
    BY <1>2, <1>7, <2>2
  <2> QED BY <2>1, <2>2
<1>11. \A T \in tags : EstimatedIn(T, estimates) => EstimatedIn(T, estimates')
  <2> SUFFICES ASSUME NEW T \in tags, EstimatedIn(T, estimates) PROVE EstimatedIn(T, estimates')
    OBVIOUS
  <2>1. PICK k \in 1..Len(estimates) :
           estimates[k].at = T + Delay /\ estimates[k].on = SymbolsFrom(T)
    BY DEF EstimatedIn
  <2> QED BY <1>10, <2>1 DEF EstimatedIn
<1>12. TypeOK'
  <2>1. 1 \in 0..SymbolLength /\ i + 1 \in 0..noutput /\ d_cur_symbol + 1 \in Nat
    BY <1>3
  <2> QED BY <1>1, <1>8, <1>10, <2>1 DEF TypeOK
<1>13. TagKnown'
  BY <1>1, <1>4, <1>6 DEF TagKnown, IsNextTag
<1>14. \A k \in 1..Len(estimates) : estimates[k].at \in Nat /\ estimates[k].at < Here
  BY Numbers DEF Behind
<1>15. Behind'
  <2>1. \A k \in 1..Len(estimates') : estimates'[k].at < Here + 1
    <3> SUFFICES ASSUME NEW k \in 1..Len(estimates') PROVE estimates'[k].at < Here + 1
      OBVIOUS
    <3>1. CASE k \in 1..Len(estimates)
      <4>1. estimates[k].at \in Nat /\ estimates[k].at < Here
        BY <1>14, <3>1
      <4>2. estimates'[k] = estimates[k]
        BY <1>10, <3>1
      <4> QED BY <1>3, <4>1, <4>2
    <3>2. CASE k \notin 1..Len(estimates)
      <4>1. estimates'[k] = made
        BY <1>10, <3>2
      <4>2. estimates'[k].at = Here
        BY <1>9, <4>1
      <4> QED BY <1>3, <4>2
    <3> QED BY <3>1, <3>2
  <2>2. ASSUME NEW k \in 1..Len(estimates'), NEW j \in 1..(k - 1)
        PROVE  estimates'[j].at < estimates'[k].at
    <3>1. j \in 1..Len(estimates) /\ estimates'[j] = estimates[j]
      BY <1>10
    <3>2. CASE k \in 1..Len(estimates)
      <4>1. estimates[j].at < estimates[k].at
        BY <3>2 DEF Behind
      <4> QED BY <1>10, <3>1, <3>2, <4>1
    <3>3. CASE k \notin 1..Len(estimates)
      BY <1>9, <1>10, <1>14, <3>1, <3>3
    <3> QED BY <3>2, <3>3
  <2>3. \A c \in cuts' : c.from <= c.to /\ c.to <= read'
    BY <1>1 DEF Behind
  <2> QED BY <1>6, <2>1, <2>2, <2>3 DEF Behind
\* The measurements are those of the first symbols, this one included.
<1>16. ASSUME whole, d_cur_symbol < NumSymbols
       PROVE  /\ Start \in tags /\ LastOf(Start, tags, Here + 1)
              /\ d_ffs_error_sum' = FirstSymbols(Start, d_cur_symbol + 1)
  <2>1. LastOf(Start, tags, Here) /\ d_ffs_error_sum = FirstSymbols(Start, d_cur_symbol)
    BY <1>16 DEF Measuring
  <2>2. Here - SymbolLength = Start + d_cur_symbol * SymbolLength
    BY <1>3, <1>5
  <2>3. Start \in tags /\ LastOf(Start, tags, Here + 1)
    BY <1>4, <2>1, LastMoves DEF LastOf
  <2>4. d_ffs_error_sum' = Append(FirstSymbols(Start, d_cur_symbol), Here - SymbolLength)
    BY <1>16, <1>1a, <2>1
  <2> QED BY <1>3, <1>5, <2>2, <2>3, <2>4, AppendSymbol
<1>17. Measuring'
  <2>1. d_cur_symbol + 1 < NumSymbols => d_cur_symbol < NumSymbols
    BY <1>3
  <2> QED BY <1>1, <1>6, <1>16, <2>1 DEF Measuring
\* With the last one, the frame is measured.
<1>18. ASSUME whole, d_cur_symbol = NumSymbols - 1
       PROVE  /\ Start \in tags /\ Quiet(Start, tags)
              /\ made.at = Start + Delay /\ made.on = SymbolsFrom(Start)
  <2>1. d_cur_symbol < NumSymbols /\ d_cur_symbol + 1 = NumSymbols
    BY <1>3, <1>18
  <2>2. NumSymbols * SymbolLength = d_cur_symbol * SymbolLength + SymbolLength
    BY <1>3, <2>1
  <2>3. Here = Start + Delay
    BY <1>3, <1>5, <2>2 DEF Delay
  <2>4. d_ffs_error_sum' = SymbolsFrom(Start)
    BY <1>16, <1>18, <2>1 DEF FirstSymbols, SymbolsFrom
  <2>5. Quiet(Start, tags)
    BY <1>3, <1>16, <1>18, <2>1, <2>3, Numbers DEF LastOf, Quiet
  <2> QED BY <1>9, <1>16, <1>18, <2>1, <2>3, <2>4, <2>5
<1>19. Tracked'
  <2> SUFFICES ASSUME NEW T \in tags, LastOf(T, tags, Here + 1), \A c \in cuts : c.to <= T
               PROVE  /\ whole
                      /\ d_cur_symbol + 1 < NumSymbols => T = Start
                      /\ d_cur_symbol + 1 >= NumSymbols => EstimatedIn(T, estimates')
    BY <1>1, <1>6 DEF Tracked
  <2>1. LastOf(T, tags, Here)
    BY <1>4, LastMoves
  <2>2. /\ whole
        /\ d_cur_symbol < NumSymbols => T = Start
        /\ d_cur_symbol >= NumSymbols => EstimatedIn(T, estimates)
    BY <2>1 DEF Tracked
  <2>3. CASE d_cur_symbol = NumSymbols - 1
    <3>1. T = Start /\ ~(d_cur_symbol + 1 < NumSymbols)
      BY <1>3, <2>2, <2>3
    <3>2. EstimatedIn(T, estimates')
      BY <1>10, <1>18, <2>2, <2>3, <3>1 DEF EstimatedIn
    <3> QED BY <2>2, <3>1, <3>2
  <2>4. CASE d_cur_symbol # NumSymbols - 1
    BY <1>3, <1>11, <2>2, <2>4
  <2> QED BY <2>3, <2>4
<1>20. Complete'
  BY <1>1, <1>6, <1>11, <1>12, <1>15, <1>19, CompleteAfter
<1>21. Spoiled'
  <2> SUFFICES ASSUME ~whole, d_cur_symbol + 1 < NumSymbols
               PROVE  \E c \in cuts : \A j \in 1..Len(estimates') : estimates'[j].at < c.from
    BY <1>1 DEF Spoiled
  <2>1. estimates' = estimates /\ d_cur_symbol < NumSymbols
    BY <1>2, <1>3
  <2> QED BY <2>1 DEF Spoiled
<1>22. MeasuresOneFrame'
  <2> SUFFICES ASSUME NEW k \in 1..Len(estimates'), estimates'[k].whole
               PROVE  \E T \in tags : /\ Quiet(T, tags)
                                      /\ estimates'[k].at = T + Delay
                                      /\ estimates'[k].on = SymbolsFrom(T)
    BY <1>1 DEF MeasuresOneFrame, Undisturbed, Quiet
  <2>1. CASE k \in 1..Len(estimates)
    BY <1>10, <2>1, InWords
  <2>2. CASE k \notin 1..Len(estimates)
    <3>1. d_cur_symbol = NumSymbols - 1 /\ estimates'[k] = made
      BY <1>10, <2>2
    <3>2. whole
      BY <1>9, <3>1
    <3> QED BY <1>18, <3>1, <3>2
  <2> QED BY <2>1, <2>2
<1>23. SpoiledOnce'
  <2> SUFFICES ASSUME NEW k \in 1..Len(estimates'), ~estimates'[k].whole
               PROVE  \E c \in cuts : /\ c.to <= estimates'[k].at
                                      /\ \A j \in 1..(k - 1) : estimates'[j].at < c.from
    BY <1>1 DEF SpoiledOnce
  <2>1. \A j \in 1..(k - 1) : j \in 1..Len(estimates) /\ estimates'[j] = estimates[j]
    BY <1>10
  <2>2. CASE k \in 1..Len(estimates)
    <3>1. PICK c \in cuts : /\ c.to <= estimates[k].at
                            /\ \A j \in 1..(k - 1) : estimates[j].at < c.from
      BY <1>10, <2>2 DEF SpoiledOnce
    <3> QED BY <1>10, <2>1, <2>2, <3>1
  <2>3. CASE k \notin 1..Len(estimates)
    <3>1. d_cur_symbol = NumSymbols - 1 /\ estimates'[k] = made
      BY <1>10, <2>3
    <3>2. ~whole /\ d_cur_symbol < NumSymbols
      BY <1>3, <1>9, <3>1
    <3>3. PICK c \in cuts : \A j \in 1..Len(estimates) : estimates[j].at < c.from
      BY <3>2 DEF Spoiled
    <3>4. read \in Nat /\ i \in Nat /\ c.to \in Nat /\ c.to <= read
      BY <1>3, Numbers DEF Behind
    <3>5. c.to <= estimates'[k].at
      BY <1>9, <3>1, <3>4 DEF Here
    <3> QED BY <2>1, <3>3, <3>5
  <2> QED BY <2>2, <2>3
<1> QED BY <1>12, <1>13, <1>15, <1>17, <1>19, <1>20, <1>21, <1>22, <1>23

-----------------------------------------------------------------------------
(* The theorems *)

LEMMA InitInv == Init => IInv
<1> SUFFICES ASSUME Init PROVE IInv OBVIOUS
<1>1. /\ written = 0 /\ tags = {} /\ read = 0 /\ d_cur_symbol = NumSymbols
      /\ d_cur_sample = 0 /\ d_ffs_error_sum = <<>> /\ noutput = 0 /\ i = 0
      /\ next_tag_position = -1 /\ estimates = <<>> /\ whole = TRUE /\ cuts = {}
  BY DEF Init
<1>2. SymbolLength \in Nat /\ NumSymbols \in Nat
  BY FrequencyAssumption
<1>3. TypeOK
  <2>1. 0 \in 0..0 /\ 0 \in 0..SymbolLength /\ 0 \in 0..(0 - 0) /\ -1 \in -1..(0 - 1)
    BY <1>2
  <2>2. <<>> \in Seq(Int) /\ <<>> \in Seq(Estimate)
    OBVIOUS
  <2> QED BY <1>1, <1>2, <2>1, <2>2 DEF TypeOK
<1>4. TagKnown /\ Behind
  BY <1>1 DEF TagKnown, Behind
<1>5. Measuring /\ Tracked /\ Complete /\ Spoiled
  BY <1>1, <1>2 DEF Measuring, Tracked, Complete, Spoiled
<1>6. MeasuresOneFrame /\ SpoiledOnce
  BY <1>1 DEF MeasuresOneFrame, SpoiledOnce
<1> QED BY <1>3, <1>4, <1>5, <1>6 DEF IInv

LEMMA NextInv == IInv /\ [Next]_vars => IInv'
<1> SUFFICES ASSUME IInv, [Next]_vars PROVE IInv' OBVIOUS
<1>1. CASE Arrive BY <1>1, ArriveStep
<1>2. CASE Restart BY <1>2, RestartStep
<1>3. CASE WorkBegin BY <1>3, WorkBeginStep
<1>4. CASE NewFrame BY <1>4, NewFrameStep
<1>5. CASE NewSymbol BY <1>5, NewSymbolStep
<1>6. CASE NextSample BY <1>6, NextSampleStep
<1>7. CASE WorkEnd BY <1>7, WorkEndStep
<1>8. CASE UNCHANGED vars
  <2>1. /\ UNCHANGED <<written, tags, read, d_cur_symbol, d_cur_sample, d_ffs_error_sum>>
        /\ UNCHANGED <<noutput, i, next_tag_position, estimates, whole, cuts>>
    BY <1>8 DEF vars, block, local
  <2>2. Here' = Here /\ Start' = Start
    BY <2>1 DEF Here, Start
  <2>3. TypeOK' /\ TagKnown' /\ Behind'
    BY <2>1, <2>2 DEF IInv, TypeOK, TagKnown, IsNextTag, Behind
  <2>4. Measuring' /\ Tracked' /\ Complete' /\ Spoiled'
    BY <2>1, <2>2 DEF IInv, Measuring, Tracked, Complete, Spoiled
  <2>5. MeasuresOneFrame' /\ SpoiledOnce'
    BY <2>1 DEF IInv, MeasuresOneFrame, SpoiledOnce, Undisturbed
  <2> QED BY <2>3, <2>4, <2>5 DEF IInv
<1> QED BY <1>1, <1>2, <1>3, <1>4, <1>5, <1>6, <1>7, <1>8 DEF Next, Work

LEMMA Invariant == Spec => []IInv
<1>1. Init => IInv
  BY InitInv
<1>2. IInv /\ [Next]_vars => IInv'
  BY NextInv
<1> QED BY <1>1, <1>2, PTL DEF Spec

\* The indices and counters of work() stay in their ranges, whatever the tags.
THEOREM Types == Spec => []TypeOK
<1>1. IInv => TypeOK
  BY DEF IInv
<1> QED BY <1>1, Invariant, PTL

\* A correction is the average over the first symbols of one frame, for every
\* symbol length and number of symbols, and however the stream is cut into calls.
THEOREM OneFrameMeasured == Spec => []MeasuresOneFrame
<1>1. IInv => MeasuresOneFrame
  BY DEF IInv
<1> QED BY <1>1, Invariant, PTL

\* A restart spoils at most one correction.
THEOREM OnlyOnceSpoiled == Spec => []SpoiledOnce
<1>1. IInv => SpoiledOnce
  BY DEF IInv
<1> QED BY <1>1, Invariant, PTL

LEMMA Corrects == IInv => CorrectsItsFrame
<1> SUFFICES ASSUME IInv, NEW s \in 0..(Here - Delay - 1), NEW T \in tags, FrameOf(T, s),
                    \A c \in cuts : c.to <= T \/ s + Delay < c.from
             PROVE  \E k \in 1..Len(estimates) :
                       InForce(k, s + Delay) /\ estimates[k].on = SymbolsFrom(T)
  BY Zenon DEF CorrectsItsFrame
<1>1. /\ Delay \in Nat /\ Here \in Nat /\ T \in Nat /\ \A u \in tags : u \in Nat
      /\ \A k \in 1..Len(estimates) : estimates[k].at \in Nat
      /\ Len(estimates) \in Nat
  BY Numbers DEF IInv
<1>2. /\ \A c \in cuts : c.from \in Nat /\ c.to \in Nat
      /\ \A c \in cuts : c.from <= c.to
  BY Numbers DEF IInv, Behind
<1>3. s \in Nat /\ s + Delay < Here
  BY <1>1
<1>4. T <= s /\ Quiet(T, tags) /\ \A u \in tags : T < u /\ u <= s => ~Quiet(u, tags)
  BY InWords DEF FrameOf
<1>5. NoCut(cuts, T, T + Delay)
  <2> SUFFICES ASSUME NEW c \in cuts, ~(c.to <= T) PROVE T + Delay < c.from
    BY DEF NoCut
  <2>1. s + Delay < c.from
    OBVIOUS
  <2> QED BY <1>1, <1>2, <1>3, <1>4, <2>1
<1>6. T + Delay < Here
  BY <1>1, <1>3, <1>4
<1>7. PICK k \in 1..Len(estimates) :
         estimates[k].at = T + Delay /\ estimates[k].on = SymbolsFrom(T)
  BY <1>4, <1>5, <1>6 DEF IInv, Complete, EstimatedIn
\* An estimate that came later than this one, but not later than the sample.
<1>8. ASSUME NEW j \in (k + 1)..Len(estimates), ~(s + Delay < estimates[j].at)
      PROVE  FALSE
  <2>1. j \in 1..Len(estimates) /\ k \in 1..(j - 1)
    BY <1>1
  <2>2. estimates[k].at < estimates[j].at
    BY <2>1 DEF IInv, Behind
  <2>3. CASE estimates[j].whole
    <3>1. PICK u \in tags : Quiet(u, tags) /\ estimates[j].at = u + Delay
      BY <2>1, <2>3, InWords DEF IInv
    <3>2. T < u /\ u <= s
      BY <1>1, <1>3, <1>7, <1>8, <2>2, <3>1
    <3> QED BY <1>4, <3>1, <3>2
  <2>4. CASE ~estimates[j].whole
    <3>1. PICK c \in cuts : /\ c.to <= estimates[j].at
                            /\ \A l \in 1..(j - 1) : estimates[l].at < c.from
      BY <2>1, <2>4 DEF IInv, SpoiledOnce
    <3>2. T + Delay < c.from
      BY <1>7, <2>1, <3>1
    <3>3. c.to <= s + Delay
      BY <1>1, <1>2, <1>3, <1>8, <2>1, <3>1
    <3>4. c.to <= T \/ s + Delay < c.from
      OBVIOUS
    <3> QED BY <1>1, <1>2, <1>3, <3>2, <3>3, <3>4
  <2> QED BY <2>3, <2>4
<1>9. estimates[k].at <= s + Delay
  BY <1>1, <1>3, <1>4, <1>7
<1>10. InForce(k, s + Delay)
  BY <1>8, <1>9 DEF InForce
<1> QED BY <1>7, <1>10

\* Every sample of a frame is corrected by what was measured on this frame.
THEOREM FramesCorrected == Spec => []CorrectsItsFrame
<1>1. IInv => CorrectsItsFrame
  BY Corrects
<1> QED BY <1>1, Invariant, PTL
=============================================================================
