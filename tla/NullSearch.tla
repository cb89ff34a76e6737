----------------------------- MODULE NullSearch -----------------------------
(***************************************************************************)
(* The search for the null symbol (detect_null.py): peak_detector_fb marks *)
(* the maximum of every excursion of the inverted energy above a threshold *)
(* that follows its average, and control_stream_to_tag_cc turns the marks  *)
(* into the tags "dab_sync" of ofdm_sync_dab2.py.                          *)
(*                                                                         *)
(* As long as an excursion goes on, work() returns only what lies before   *)
(* its maximum, and sees the rest again in the next call.  Items are the   *)
(* energies themselves; that they are counted from 1 is the only           *)
(* difference to the code's indices.  The floating point average is a      *)
(* level that an item may draw nearer to itself.                           *)
(***************************************************************************)
EXTENDS Integers, Sequences, FiniteSets

CONSTANTS Energies,   \* the inverted energies: no item is above zero
          NegInfinity,  \* d_peak_val where there is no peak
          Levels,     \* values of the average
          Rise, Fall  \* d_threshold_factor_rise and _fall, in tenths

ASSUME NullAssumption ==
    /\ Energies \subseteq Int /\ Levels \subseteq Int
    /\ NegInfinity \in Int /\ \A e \in Energies : NegInfinity < e
    /\ Rise \in Nat /\ Fall \in Nat
    /\ 0 \in Levels

VARIABLES in,          \* the items that have arrived
          read,        \* nitems_read(0), and what is written as well
          d_state,     \* 1 during an excursion, else 0
          d_peak_val, d_avg,
          noutput,     \* noutput_items of the call in progress, or 0
          i, peak_ind, \* local variables of work()
          from,        \* the first item of the excursion
          whole,       \* no restart has cut the excursion
          peaks,       \* what was marked: [from, mark, to, whole] records
          restarts

local == <<noutput, i, peak_ind>>
history == <<from, whole, peaks, restarts>>
vars == <<in, read, d_state, d_peak_val, d_avg, local, history>>

Init ==
    /\ in = <<>> /\ read = 0
    /\ d_state = 0 /\ d_peak_val = NegInfinity /\ d_avg = 0
    /\ noutput = 0 /\ i = 0 /\ peak_ind = 0
    /\ from = 1 /\ whole = TRUE /\ peaks = <<>> /\ restarts = 0

\* An item arrives from moving_sum_ff.
Arrive ==
    /\ \E e \in Energies : in' = Append(in, e)
    /\ UNCHANGED <<read, d_state, d_peak_val, d_avg, local, history>>

\* The flowgraph stops and starts again (curses_app.py): what is pending is
\* lost, the block keeps its state.
Restart ==
    /\ noutput = 0
    /\ read' = Len(in) /\ whole' = (d_state = 0) /\ restarts' = restarts + 1
    /\ UNCHANGED <<in, d_state, d_peak_val, d_avg, local, from, peaks>>

-----------------------------------------------------------------------------
\* work() is called with all that is pending.
WorkBegin ==
    /\ noutput = 0 /\ Len(in) > read
    /\ noutput' = Len(in) - read /\ i' = 0 /\ peak_ind' = 0
    /\ UNCHANGED <<in, read, d_state, d_peak_val, d_avg, history>>

\* A position of the call as an item of the stream.
Item(p) == read + p + 1
x == in[Item(i)]

\* d_avg = alpha * x + (1 - alpha) * d_avg
Averaged(avg, e) ==
    {l \in Levels : (avg <= l /\ l <= e) \/ (e <= l /\ l <= avg)} \cup {avg}

AboveRise == 10 * x > Rise * d_avg
AboveFall == 10 * x > Fall * d_avg

Looping == noutput > 0 /\ i < noutput

\* Below the threshold: stay there, or an excursion begins with this item.
Below ==
    /\ Looping /\ d_state = 0 /\ ~AboveRise
    /\ i' = i + 1 /\ d_avg' \in Averaged(d_avg, x)
    /\ UNCHANGED <<in, read, d_state, d_peak_val, noutput, peak_ind, history>>
Rises ==
    /\ Looping /\ d_state = 0 /\ AboveRise
    /\ d_state' = 1
    /\ from' = Item(i) /\ whole' = TRUE
    /\ UNCHANGED <<in, read, d_peak_val, d_avg, local, peaks, restarts>>

\* Above the threshold: a new maximum, or not, but still above.
\* Variant: an item as high as the maximum replaces it.
IsHigherOrEqual == x >= d_peak_val
IsHigher == x > d_peak_val
NewPeak ==
    /\ Looping /\ d_state = 1 /\ IsHigher
    /\ d_peak_val' = x /\ peak_ind' = i
    /\ i' = i + 1 /\ d_avg' \in Averaged(d_avg, x)
    /\ UNCHANGED <<in, read, d_state, noutput, history>>
StaysAbove ==
    /\ Looping /\ d_state = 1 /\ ~IsHigher /\ AboveFall
    /\ i' = i + 1 /\ d_avg' \in Averaged(d_avg, x)
    /\ UNCHANGED <<in, read, d_state, d_peak_val, noutput, peak_ind, history>>

\* The mark that the end of the excursion leaves.  The first item of a call
\* does not keep its mark: it is looked at again, and that clears it.
Marked == IF peak_ind = i THEN peaks
          ELSE Append(peaks, [from |-> from, mark |-> Item(peak_ind),
                              to |-> Item(i), whole |-> whole])

\* The excursion ends: its maximum is marked.  The item is looked at again.
\* Variant: the old maximum is kept.  Variant: the state is kept.
FallsStaying ==
    /\ Looping /\ d_state = 1 /\ ~IsHigher /\ ~AboveFall
    /\ d_state' = d_state /\ d_peak_val' = NegInfinity
    /\ peaks' = Marked
    /\ UNCHANGED <<in, read, d_avg, local, from, whole, restarts>>
FallsKeeping ==
    /\ Looping /\ d_state = 1 /\ ~IsHigher /\ ~AboveFall
    /\ d_state' = 0 /\ d_peak_val' = d_peak_val
    /\ peaks' = Marked
    /\ UNCHANGED <<in, read, d_avg, local, from, whole, restarts>>
Falls ==
    /\ Looping /\ d_state = 1 /\ ~IsHigher /\ ~AboveFall
    /\ d_state' = 0 /\ d_peak_val' = NegInfinity
    /\ peaks' = Marked
    /\ UNCHANGED <<in, read, d_avg, local, from, whole, restarts>>

\* work() returns all items, or those before the maximum.
\* Variant: it returns a position in the stream.
ReturnsAbsolute == IF d_state = 0 THEN noutput ELSE Item(peak_ind)
Returns == IF d_state = 0 THEN noutput ELSE peak_ind
WorkEnd ==
    /\ noutput > 0 /\ i = noutput
    /\ read' = read + Returns /\ noutput' = 0 /\ i' = 0 /\ peak_ind' = 0
    /\ UNCHANGED <<in, d_state, d_peak_val, d_avg, history>>

Work == WorkBegin \/ Below \/ Rises \/ NewPeak \/ StaysAbove \/ Falls \/ WorkEnd
Next == Arrive \/ Restart \/ Work
Spec == Init /\ [][Next]_vars

-----------------------------------------------------------------------------
Peak == [from : Nat \ {0}, mark : Nat, to : Nat, whole : BOOLEAN]
TypeOK ==
    /\ in \in Seq(Energies) /\ read \in 0..Len(in)
    /\ d_state \in {0, 1} /\ d_peak_val \in Energies \cup {NegInfinity} /\ d_avg \in Levels
    /\ noutput \in 0..(Len(in) - read) /\ i \in 0..noutput /\ peak_ind \in 0..i
    /\ from \in 1..(Len(in) + 1) /\ whole \in BOOLEAN /\ restarts \in Nat
    /\ peaks \in Seq(Peak)

\* However the stream is cut into calls, what is marked is the first of the
\* maxima of an excursion, all of it, even of what earlier calls saw
\* (peak_detector_fb::work()).
IsFirstMaximum(m, a, b) == /\ m \in a..b
                           /\ \A j \in a..b : in[j] <= in[m]
                           /\ \A j \in a..(m - 1) : in[j] < in[m]
MarksMaxima == \A k \in 1..Len(peaks) :
                  peaks[k].whole => IsFirstMaximum(peaks[k].mark, peaks[k].from, peaks[k].to - 1)

\* Excursions follow one another and hold their marks: no item is marked twice,
\* not even after work() has seen it again in a later call.
ExcursionsFollow ==
    /\ \A k \in 1..Len(peaks) : /\ peaks[k].from <= peaks[k].mark
                                /\ peaks[k].mark < peaks[k].to
    /\ \A k \in 1..(Len(peaks) - 1) : peaks[k].to <= peaks[k + 1].from

\* Only a restart makes the search mark what need not be a maximum, since it
\* keeps d_state and d_peak_val, and then it does so once.
FewFalseMarks == Cardinality({k \in 1..Len(peaks) : ~peaks[k].whole}) <= restarts
=============================================================================
