---------------------------- MODULE ChannelCoding ---------------------------
(***************************************************************************)
(* The numbers behind msc_decode.py: how the settings of a channel become  *)
(* the lengths that each stage of its decoder takes and gives.  Stages     *)
(* that do not fit do not fail: the stream slips from frame to frame and   *)
(* no superframe is ever found.                                            *)
(*                                                                         *)
(* A channel is a record as in channels.yaml, its frequency in kHz.  Only  *)
(* the equal error protection of option A is modelled (option B is taken   *)
(* for it by the code, with fractions for n).                              *)
(***************************************************************************)
EXTENDS Integers, Sequences, FiniteSets

Settings ==
    [frequency : Nat, address : Nat, subch_size : Nat, protect_level : 0..3,
     bit_rate : Nat, classic : BOOLEAN]

\* Capacity units of a common interleaved frame, and the bits of one.
NumCus == 864
CuSize == 64

\* The 32 bits of a block in the order in which the puncturing vectors let
\* them through, from vector to vector one more.
KeptOrder == << 0,  1,  4,  8, 12, 16, 20, 24,
               28, 17,  9, 25,  5, 21, 13, 29,
                2, 18, 10, 26,  6, 22, 14, 30,
                3, 19, 11, 27,  7, 23, 15, 31 >>
PuncturingVector(pi) == {KeptOrder[k] : k \in 1..(8 + pi)}

\* ... and what is kept of the 24 bits of the tail.
TailVector == {0, 1, 4, 5, 8, 9, 12, 13, 16, 17, 20, 21}

\* The capacity units of a sub-channel are a multiple of this.
SizeMultiple(protect) == <<12, 8, 6, 4>>[protect + 1]

\* n, the multiple of 8 kbit/s.
Multiples(ch) == ch.subch_size \div SizeMultiple(ch.protect_level)

\* L1 blocks of four are punctured with the vector PI1, L2 with PI2.
\* Variant: L1 and L2 of the two lower levels swapped.
PuncturingSwapped(n, protect) ==
    << [L1 |-> 6 * n - 3, L2 |-> 3,         PI1 |-> 24, PI2 |-> 23],
       [L1 |-> 4 * n + 3, L2 |-> 2 * n - 3, PI1 |-> 14, PI2 |-> 13],
       [L1 |-> 6 * n - 3, L2 |-> 3,         PI1 |-> 8,  PI2 |-> 7],
       [L1 |-> 4 * n - 3, L2 |-> 2 * n + 3, PI1 |-> 3,  PI2 |-> 2] >>[protect + 1]
Puncturing(n, protect) ==
    << [L1 |-> 6 * n - 3, L2 |-> 3,         PI1 |-> 24, PI2 |-> 23],
       [L1 |-> 2 * n - 3, L2 |-> 4 * n + 3, PI1 |-> 14, PI2 |-> 13],
       [L1 |-> 6 * n - 3, L2 |-> 3,         PI1 |-> 8,  PI2 |-> 7],
       [L1 |-> 4 * n - 3, L2 |-> 2 * n + 3, PI1 |-> 3,  PI2 |-> 2] >>[protect + 1]

\* unpuncture_ff takes as many bits as its sequence has ones ...
SequenceOnes(n, protect) ==
    LET p == Puncturing(n, protect)
    IN  4 * (p.L1 * Cardinality(PuncturingVector(p.PI1))
             + p.L2 * Cardinality(PuncturingVector(p.PI2))) + Cardinality(TailVector)

\* ... and gives as many as it is long.
SequenceLength(n, protect) ==
    LET p == Puncturing(n, protect) IN 4 * 32 * (p.L1 + p.L2) + 24

\* The bits of a logical frame.
InfoBits(n) == 192 * n

\* The steps of the Viterbi decoder: the bits, and as many as clear its register.
AddBits == 6
ViterbiSteps(n) == InfoBits(n) + AddBits

\* The bytes that the DAB+ blocks take for a logical frame.
FrameBytes(bit_rate) == 24 * (bit_rate \div 8)

-----------------------------------------------------------------------------
\* The constructors raise no exception: dab_audio_decoder_ff passes a float for
\* an int; of an A2 sub-channel of up to one multiple L1 and L2 are not set; the
\* sub-channel must lie within the frame; and below 8 kbit/s firecode_check_bb
\* and reed_solomon_decode_bb come to an output multiple of zero, which GNU
\* Radio refuses, as it does for stages of a sub-channel without any units.
Constructs(ch) ==
    /\ ~ch.classic
    /\ ch.subch_size > 0
    /\ ch.protect_level = 1 => ch.subch_size > SizeMultiple(1)
    /\ ch.address + ch.subch_size <= NumCus
    /\ FrameBytes(ch.bit_rate) > 0

\* Every stage gives what the next one takes.
Fits(ch) ==
    LET n == Multiples(ch)
    IN  /\ SequenceOnes(n, ch.protect_level) = CuSize * ch.subch_size
        /\ SequenceLength(n, ch.protect_level) = 4 * ViterbiSteps(n)
        /\ InfoBits(n) = 8 * FrameBytes(ch.bit_rate)

\* Whole multiples, with the bit rate that belongs to them.
WholeMultiples(ch) == SizeMultiple(ch.protect_level) * Multiples(ch) = ch.subch_size
Regular(ch) == WholeMultiples(ch) /\ ch.bit_rate = 8 * Multiples(ch)

\* The bit rate that "grdab info" prints for a sub-channel.
PrintedBitRate(ch) == (ch.subch_size * 8) \div <<128, 8, 6, 5>>[ch.protect_level + 1]
=============================================================================
