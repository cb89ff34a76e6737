---------------------------- MODULE FrequencySync ---------------------------
(***************************************************************************)
(* Fine frequency synchronisation (ofdm_sync_dab2.py).                     *)
(* ofdm_ffe_all_in_one counts the samples from a "dab_sync" tag on,        *)
(* measures the offset on each of the frame's first symbols as soon as it  *)
(* has passed, and passes on the average of NumSymbols of them as the      *)
(* correction of every sample from then on.  The samples themselves are    *)
(* delayed by as many symbols, so that each frame is corrected by what was *)
(* measured on itself.                                                     *)
(*                                                                         *)
(* A sample is its offset in the stream.  An offset in frequency is known  *)
(* by the symbols it was measured on: the offsets of their first samples.  *)
(* How measurements are averaged, unwrapped and smoothed is left out.      *)
(***************************************************************************)
EXTENDS Integers, Sequences, FiniteSets

CONSTANTS SymbolLength,  \* d_symbol_length
          NumSymbols     \* d_num_symbols

ASSUME FrequencyAssumption ==
    SymbolLength \in Nat \ {0} /\ NumSymbols \in Nat \ {0}

VARIABLES written,      \* how many samples have arrived
          tags,         \* the offsets that carry a "dab_sync" tag
          read,         \* nitems_read(0), and what is written as well
          d_cur_symbol, d_cur_sample,
          d_ffs_error_sum,  \* the symbols measured since the tag
          noutput,      \* noutput_items of the call in progress, or 0
          i, next_tag_position,  \* local variables of work()
          estimates,    \* what was passed on: [at, on, whole] records
          whole,        \* no restart since the tag
          cuts          \* what restarts lost: the samples from .from to before .to

local == <<noutput, i, next_tag_position>>
block == <<d_cur_symbol, d_cur_sample, d_ffs_error_sum>>
vars == <<written, tags, read, block, local, estimates, whole, cuts>>

Init ==
    /\ written = 0 /\ tags = {} /\ read = 0
    /\ d_cur_symbol = NumSymbols /\ d_cur_sample = 0 /\ d_ffs_error_sum = <<>>
    /\ noutput = 0 /\ i = 0 /\ next_tag_position = -1
    /\ estimates = <<>> /\ whole = TRUE /\ cuts = {}

\* A sample arrives; the null symbol search may have tagged it.
Arrive ==
    /\ written' = written + 1
    /\ tags' = tags \/ tags' = tags \cup {written}
    /\ UNCHANGED <<read, block, local, estimates, whole, cuts>>

\* The flowgraph stops and starts again (curses_app.py): what is pending is
\* lost, the block keeps its state.
Restart ==
    /\ noutput = 0
    /\ read' = written /\ cuts' = cuts \cup {[from |-> read, to |-> written]}
    /\ whole' = FALSE
    /\ UNCHANGED <<written, tags, block, local, estimates>>

-----------------------------------------------------------------------------
\* The sample that work() is at, as an offset of the stream.
Here == read + i

\* t is the position of the first tag in the call from sample a on, -1 if none.
IsNextTag(t, a, n) ==
    \/ t = -1 /\ \A u \in tags : a <= u => read + n <= u
    \/ t >= 0 /\ t < n /\ read + t \in tags /\ a <= read + t
       /\ \A u \in tags : a <= u => read + t <= u

\* work() is called with as many of the pending samples as the scheduler likes.
WorkBegin ==
    /\ noutput = 0
    /\ \E n \in 1..(written - read), t \in -1..(written - read - 1) :
          noutput' = n /\ IsNextTag(t, read, n) /\ next_tag_position' = t
    /\ i' = 0
    /\ UNCHANGED <<written, tags, read, block, estimates, whole, cuts>>

Looping == noutput > 0 /\ i < noutput
AtTag == next_tag_position = i

\* Variant: one sample more belongs to the symbol.
SymbolEndsLate == d_cur_sample > SymbolLength
SymbolEnds == d_cur_sample = SymbolLength

\* A new frame starts here, whatever came of the one before.
\* Variant: the measurements of the frame before are kept.
NewFrameKeeping ==
    /\ Looping /\ AtTag
    /\ d_cur_symbol' = 0 /\ d_cur_sample' = 1 /\ UNCHANGED d_ffs_error_sum
    /\ \E t \in -1..(noutput - 1) :
          IsNextTag(t, Here + 1, noutput) /\ next_tag_position' = t
    /\ i' = i + 1 /\ whole' = TRUE
    /\ UNCHANGED <<written, tags, read, noutput, estimates, cuts>>
NewFrame ==
    /\ Looping /\ AtTag
    /\ d_cur_symbol' = 0 /\ d_cur_sample' = 1 /\ d_ffs_error_sum' = <<>>
    /\ \E t \in -1..(noutput - 1) :
          IsNextTag(t, Here + 1, noutput) /\ next_tag_position' = t
    /\ i' = i + 1 /\ whole' = TRUE
    /\ UNCHANGED <<written, tags, read, noutput, estimates, cuts>>

\* A symbol has passed.  set_history() makes the block see a whole symbol
\* before the current sample: that symbol is measured.
Measured == Append(d_ffs_error_sum, Here - SymbolLength)

\* The average is complete.  Variants: a symbol more is waited for; it is taken
\* for complete from there on.
LastMeasuredLate == d_cur_symbol = NumSymbols
LastMeasuredOften == d_cur_symbol >= NumSymbols - 1
LastMeasured == d_cur_symbol = NumSymbols - 1

NewSymbol ==
    /\ Looping /\ ~AtTag /\ SymbolEnds
    /\ d_cur_sample' = 1 /\ d_cur_symbol' = d_cur_symbol + 1
    /\ d_ffs_error_sum' = IF d_cur_symbol < NumSymbols THEN Measured
                          ELSE d_ffs_error_sum
    /\ estimates' = IF LastMeasured
                    THEN Append(estimates, [at |-> Here, on |-> d_ffs_error_sum',
                                            whole |-> whole])
                    ELSE estimates
    /\ i' = i + 1
    /\ UNCHANGED <<written, tags, read, noutput, next_tag_position, whole, cuts>>

\* Within a symbol.
NextSample ==
    /\ Looping /\ ~AtTag /\ ~SymbolEnds
    /\ d_cur_sample' = d_cur_sample + 1 /\ i' = i + 1
    /\ UNCHANGED <<written, tags, read, d_cur_symbol, d_ffs_error_sum, noutput,
                   next_tag_position, estimates, whole, cuts>>

WorkEnd ==
    /\ noutput > 0 /\ i = noutput
    /\ read' = read + noutput /\ noutput' = 0 /\ i' = 0 /\ next_tag_position' = -1
    /\ UNCHANGED <<written, tags, block, estimates, whole, cuts>>

Work == WorkBegin \/ NewFrame \/ NewSymbol \/ NextSample \/ WorkEnd
Next == Arrive \/ Restart \/ Work
Spec == Init /\ [][Next]_vars

-----------------------------------------------------------------------------
\* By how much the samples are delayed before they are corrected
\* (ffs_delay_input_for_correction).
Delay == NumSymbols * SymbolLength

\* The symbols that a frame beginning at sample T is measured on.
SymbolsFrom(T) == [k \in 1..NumSymbols |-> T + (k - 1) * SymbolLength]

\* A tag that no other one follows before its frame has been measured.
Undisturbed(T) == \A u \in tags : T < u => T + Delay < u

Estimate == [at : Nat, on : Seq(Int), whole : BOOLEAN]
TypeOK ==
    /\ written \in Nat /\ tags \in SUBSET (0..(written - 1)) /\ read \in 0..written
    /\ d_cur_symbol \in Nat /\ d_cur_sample \in 0..SymbolLength
    /\ d_ffs_error_sum \in Seq(Int)
    /\ noutput \in 0..(written - read) /\ i \in 0..noutput
    /\ next_tag_position \in -1..(noutput - 1)
    /\ estimates \in Seq(Estimate)
    /\ whole \in BOOLEAN /\ cuts \in SUBSET [from : 0..written, to : 0..written]

\* However the stream is cut into calls, and whatever false tags it carries, a
\* correction is the average over whole symbols of one frame, the first ones,
\* and over as many as it is divided by (ofdm_ffe_all_in_one_impl::work()).
MeasuresOneFrame ==
    \A k \in 1..Len(estimates) :
        estimates[k].whole =>
            \E T \in tags : /\ Undisturbed(T)
                            /\ estimates[k].at = T + Delay
                            /\ estimates[k].on = SymbolsFrom(T)

\* The estimate in force at item t of the output.
InForce(k, t) ==
    /\ estimates[k].at <= t
    /\ \A j \in (k + 1)..Len(estimates) : t < estimates[j].at

\* Sample s belongs to the frame that begins at T.
FrameOf(T, s) ==
    /\ T \in tags /\ T <= s /\ Undisturbed(T)
    /\ \A u \in tags : T < u /\ u <= s => ~Undisturbed(u)

\* Every sample of a frame, from the first one on, is corrected by what was
\* measured on this frame: the delay of the samples, the count of symbols and
\* the moment of the update fit together (ofdm_sync_dab2.py:82).
CorrectsItsFrame ==
    \A s \in 0..(Here - Delay - 1), T \in tags :
        FrameOf(T, s) /\ (\A c \in cuts : c.to <= T \/ s + Delay < c.from) =>
            \E k \in 1..Len(estimates) :
                InForce(k, s + Delay) /\ estimates[k].on = SymbolsFrom(T)

\* A restart within a frame spoils at most one correction, the first that
\* comes after it (the block keeps its counters, not its samples).
SpoiledOnce ==
    \A k \in 1..Len(estimates) :
        ~estimates[k].whole =>
            \E c \in cuts : /\ c.to <= estimates[k].at
                            /\ \A j \in 1..(k - 1) : estimates[j].at < c.from
=============================================================================
