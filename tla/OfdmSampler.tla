----------------------------- MODULE OfdmSampler ----------------------------
(***************************************************************************)
(* The block ofdm_sampler (lib/ofdm_sampler_impl.cc): it cuts the symbols  *)
(* of a DAB frame out of the stream of samples, starting at a "dab_sync"   *)
(* tag and leaving out the cyclic prefixes.  GNU Radio's scheduler calls   *)
(* general_work() whenever enough samples are pending, so the block meets  *)
(* the same samples in pieces of any length.                               *)
(*                                                                         *)
(* A sample is its absolute offset in the stream; a symbol is the offset   *)
(* of its first sample and whether it is tagged "first".                   *)
(***************************************************************************)
EXTENDS Integers, Sequences

CONSTANTS FftLength,        \* d_fft_length
          CpLength,         \* d_cp_length
          SymbolsPerFrame,  \* d_symbols_per_frame
          Gap               \* d_gap: how much earlier a symbol is cut

\* The last conjunct is the constructor's assertion; a gap is a part of a
\* cyclic prefix and that is always shorter than a symbol (parameters.py).
ASSUME SamplerAssumption ==
    /\ FftLength \in Nat \ {0} /\ CpLength \in Nat /\ SymbolsPerFrame \in Nat \ {0}
    /\ Gap \in Nat /\ CpLength < FftLength
    /\ Gap <= CpLength

VARIABLES d_state,     \* "NS", "CP" or "SYM"
          d_pos,       \* samples of the prefix skipped so far
          d_sym_nr,    \* symbols of the frame cut so far
          d_gap_left,  \* samples of the last gap still to skip
          read,        \* nitems_read(0)
          written,     \* how many samples have arrived
          tags,        \* the offsets that carry a "dab_sync" tag
          symbols      \* what was cut: a sequence of [start, first] records

block == <<d_state, d_pos, d_sym_nr, d_gap_left>>
samplerVars == <<block, read, written, tags, symbols>>

\* The part of the prefix that is skipped before a symbol.
Prefix == CpLength - Gap

LeastOf(a, b) == IF a <= b THEN a ELSE b

SamplerTypeOK ==
    /\ d_state \in {"NS", "CP", "SYM"}
    /\ d_pos \in 0..Prefix
    /\ d_sym_nr \in 0..SymbolsPerFrame
    /\ d_gap_left \in 0..Gap
    /\ written \in Nat /\ read \in 0..written
    /\ tags \in SUBSET (0..(written - 1))
    /\ symbols \in Seq([start : Nat, first : BOOLEAN])

-----------------------------------------------------------------------------
\* A sample arrives; the synchronisation may have tagged it.
Arrive ==
    /\ written' = written + 1
    /\ tags' = tags \/ tags' = tags \cup {written}
    /\ UNCHANGED <<block, read, symbols>>

\* forecast(): the input general_work() is called with, at least.
Required == FftLength + CpLength - Gap

Pending == {t \in tags : read <= t}

\* Variant: the last of the pending tags is taken.
Latest(t) == t \in Pending /\ \A u \in Pending : u <= t

Earliest(t) == t \in Pending /\ \A u \in Pending : t <= u

\* Variant: the gap of the last symbol is not made up for.
SkipNoGap(at, pos, gap_left) ==
    LET c == LeastOf(Prefix - pos, written - at)
    IN  [at |-> at + c, pos |-> pos + c, gap_left |-> 0]

\* State CP from the sample `at': first the gap left over from the previous
\* symbol is skipped, then the prefix, as far as there are samples.
SkipPrefix(at, pos, gap_left) ==
    LET g == LeastOf(gap_left, written - at)
        c == LeastOf(Prefix - pos, written - (at + g))
    IN  [at |-> at + g + c, pos |-> pos + c, gap_left |-> gap_left - g]

\* State SYM at the sample `at': a symbol is cut if all of it is there.
Whole(at) == at + FftLength <= written

\* Variant: the frame ends a symbol early.
CutShort(at, nr, gap_left) ==
    /\ symbols' = Append(symbols, [start |-> at, first |-> nr = 0])
    /\ read' = at + FftLength
    /\ d_pos' = 0 /\ d_sym_nr' = nr + 1
    /\ IF nr + 2 >= SymbolsPerFrame
       THEN d_state' = "NS" /\ d_gap_left' = gap_left
       ELSE d_state' = "CP" /\ d_gap_left' = Gap

Cut(at, nr, gap_left) ==
    /\ symbols' = Append(symbols, [start |-> at, first |-> nr = 0])
    /\ read' = at + FftLength
    /\ d_pos' = 0 /\ d_sym_nr' = nr + 1
    /\ IF nr + 1 = SymbolsPerFrame
       THEN d_state' = "NS" /\ d_gap_left' = gap_left
       ELSE d_state' = "CP" /\ d_gap_left' = Gap

\* States CP and SYM of one call, from the sample `at' on.
FromPrefix(at, pos, gap_left, nr) ==
    LET s == SkipPrefix(at, pos, gap_left)
    IN  IF s.pos = Prefix /\ Whole(s.at)
        THEN Cut(s.at, nr, s.gap_left)
        ELSE /\ d_state' = IF s.pos = Prefix THEN "SYM" ELSE "CP"
             /\ d_pos' = s.pos /\ d_gap_left' = s.gap_left /\ d_sym_nr' = nr
             /\ read' = s.at
             /\ UNCHANGED symbols

\* general_work() while no frame has begun: everything up to the first tag is
\* skipped, and the frame begins in the same call.
WorkSearch ==
    /\ d_state = "NS"
    /\ IF Pending = {}
       THEN /\ read' = written
            /\ d_pos' = 0 /\ d_sym_nr' = 0 /\ d_gap_left' = 0
            /\ UNCHANGED <<d_state, symbols>>
       ELSE \E t \in tags : Earliest(t) /\ FromPrefix(t, 0, 0, 0)

\* ... within a frame, before a symbol.
WorkPrefix ==
    /\ d_state = "CP"
    /\ FromPrefix(read, d_pos, d_gap_left, d_sym_nr)

\* ... at the start of a symbol.
WorkSymbol ==
    /\ d_state = "SYM"
    /\ IF Whole(read) THEN Cut(read, d_sym_nr, d_gap_left)
       ELSE UNCHANGED <<block, read, symbols>>

GeneralWork ==
    /\ written - read >= Required
    /\ WorkSearch \/ WorkPrefix \/ WorkSymbol
    /\ UNCHANGED <<written, tags>>

SamplerInit ==
    /\ d_state = "NS"
    /\ d_pos = 0 /\ d_sym_nr = 0 /\ d_gap_left = 0
    /\ read = 0 /\ written = 0 /\ tags = {}
    /\ symbols = <<>>

SamplerNext == Arrive \/ GeneralWork

SamplerSpec == SamplerInit /\ [][SamplerNext]_samplerVars

-----------------------------------------------------------------------------
\* Where a symbol ends.
End(s) == s.start + FftLength

\* Whatever pieces the samples came in, a frame's first symbol lies a prefix
\* behind a tag and each other symbol a whole symbol length behind the one
\* before it: gap, prefix and symbol are made up for across calls.
SymbolsInPlace ==
    \A j \in 1..Len(symbols) :
        IF symbols[j].first
        THEN symbols[j].start - Prefix \in tags
        ELSE /\ j > 1
             /\ symbols[j].start = symbols[j - 1].start + FftLength + CpLength

\* No frame is passed over: a frame begins at the first tag behind the end of
\* the frame before it (tags within a frame are false ones and are ignored).
NoFrameMissed ==
    \A j \in 1..Len(symbols) :
        symbols[j].first =>
            \A t \in tags :
                t < symbols[j].start - Prefix =>
                    j > 1 /\ t < End(symbols[j - 1])

\* Every frame has all its symbols before the next one begins: the first
\* symbols come SymbolsPerFrame apart, beginning with the very first.
FramesWhole ==
    \A j \in 1..Len(symbols) :
        symbols[j].first <=>
            \/ j = 1
            \/ j > SymbolsPerFrame /\ symbols[j - SymbolsPerFrame].first
=============================================================================
