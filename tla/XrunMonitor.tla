---------------------------- MODULE XrunMonitor -----------------------------
(***************************************************************************)
(* The block xrun_monitor_cc (lib/xrun_monitor_cc_impl.cc): a ring buffer  *)
(* in the audio path that hides the burstiness of the decoder.  Its thread *)
(* is GNU Radio's block executor, which samples the pending input, asks    *)
(* forecast() with ever smaller requests, and then calls general_work().   *)
(* The decoder, the audio sink and the user interface run beside it; only  *)
(* general_work() and stop_until_tag() hold the block's mutex, so the      *)
(* user interface can get between a forecast() and its general_work().     *)
(*                                                                         *)
(* d_n, d_first, d_produce_per and d_report_fill only steer log lines and  *)
(* are left out.                                                           *)
(***************************************************************************)
EXTENDS Integers, Sequences

CONSTANTS Length,        \* d_length: slots of the ring buffer
          InCap,         \* capacity of the input edge's buffer
          OutCap,        \* capacity of the output edge's buffer
          SmallRequest,  \* forecast()'s threshold, 10 items in the code
          Items,         \* the sample values the decoder delivers
          Silence        \* the zero sample

\* The ring must be able to reach three quarters with one slot kept empty.
ASSUME LengthAssumption == Length \in Nat /\ Length >= 4
ASSUME CapAssumption == InCap \in Nat \ {0} /\ OutCap \in Nat \ {0}
ASSUME RequestAssumption == SmallRequest \in Nat \ {0}

VARIABLES d_buffer,          \* the ring
          d_read_index,
          d_write_index,
          d_starting,        \* prebuffering
          d_drop_when_full,
          d_stop_until_tag,
          in,                \* input edge: pending [smp, tag] records
          out,               \* output edge: pending samples
          fresh,             \* the decoder has not delivered a sample yet
          phase,             \* executor: "idle", "forecast" or "work"
          ask,               \* executor: the noutput_items of this round
          avail              \* executor: the ninput_items of this round

ring == <<d_buffer, d_read_index, d_write_index>>
flags == <<d_starting, d_drop_when_full, d_stop_until_tag>>
executor == <<phase, ask, avail>>
vars == <<ring, flags, in, out, fresh, executor>>

Slots == 0..(Length - 1)
Edge == [smp : Items, tag : BOOLEAN]
Minimum(a, b) == IF a <= b THEN a ELSE b
After(s, n) == SubSeq(s, n + 1, Len(s))

TypeOK ==
    /\ d_buffer \in [Slots -> Items \cup {Silence}]
    /\ d_read_index \in Slots /\ d_write_index \in Slots
    /\ d_starting \in BOOLEAN
    /\ d_drop_when_full \in BOOLEAN
    /\ d_stop_until_tag \in BOOLEAN
    /\ in \in Seq(Edge) /\ Len(in) <= InCap
    /\ out \in Seq(Items \cup {Silence}) /\ Len(out) <= OutCap
    /\ fresh \in BOOLEAN
    /\ phase \in {"idle", "forecast", "work"}
    /\ ask \in 0..OutCap /\ avail \in 0..InCap

-----------------------------------------------------------------------------
(* The ring *)

\* current_fill, for a read index rd and a write index wr.
Fill(rd, wr) ==
    IF rd < wr THEN wr - rd
    ELSE IF rd = wr THEN 0
    ELSE Length - rd + wr

CurrentFill == Fill(d_read_index, d_write_index)

\* How many samples general_work copies out of the ring for a request of n:
\* in one piece, or in two when the stored samples wrap around.
Taken(n) ==
    IF d_read_index < d_write_index
    THEN Minimum(d_write_index - d_read_index, n)
    ELSE IF d_read_index = d_write_index THEN 0
    ELSE LET toread == Minimum(Length - d_read_index, n)
         IN  IF n > toread THEN toread + Minimum(d_write_index, n - toread)
             ELSE toread

ReadIndexAfter(n) ==
    IF d_read_index < d_write_index
    THEN d_read_index + Minimum(d_write_index - d_read_index, n)
    ELSE IF d_read_index = d_write_index THEN d_read_index
    ELSE LET toread == Minimum(Length - d_read_index, n)
         IN  IF n > toread THEN Minimum(d_write_index, n - toread)
             ELSE IF d_read_index + toread < Length THEN d_read_index + toread
             ELSE 0

\* The slot of the stored sample number j, the oldest being number 0.
Slot(j) == IF d_read_index + j < Length THEN d_read_index + j
           ELSE d_read_index + j - Length

\* The samples copied out of the ring.
FromRing(n) == [i \in 1..Taken(n) |-> d_buffer[Slot(i - 1)]]

\* Variant: the slot that tells a full ring from an empty one is used too.
ToSaveAll(m, f) == IF m >= Length - f THEN Length - f ELSE m

\* How much of m left over input samples is stored, with f slots in use.
ToSave(m, f) == IF m >= Length - f THEN Length - f - 1 ELSE m

\* The ring after m samples from position p of the input were stored.
Stored(p, m) ==
    [k \in Slots |->
        IF d_write_index <= k /\ k < d_write_index + m
        THEN in[p + 1 + k - d_write_index].smp
        ELSE IF k < d_write_index + m - Length
        THEN in[p + 1 + (Length - d_write_index) + k].smp
        ELSE d_buffer[k]]

\* Variant: the index may come to stand behind the last slot.
WriteIndexLate(m) ==
    IF d_write_index + m <= Length THEN d_write_index + m
    ELSE m - (Length - d_write_index)

WriteIndexAfter(m) ==
    IF d_write_index + m < Length THEN d_write_index + m
    ELSE m - (Length - d_write_index)

-----------------------------------------------------------------------------
(* The actors around the block *)

\* The decoder delivers a sample; it tags the first one it ever delivers
\* ("audio_start", set once by mp4_decode_bs and mp2_decode_bs).
DecoderWrite(item) ==
    /\ Len(in) < InCap
    /\ in' = Append(in, [smp |-> item, tag |-> fresh])
    /\ fresh' = FALSE
    /\ UNCHANGED <<ring, flags, out, executor>>

\* The sound card takes pending samples.
SinkRead ==
    /\ \E n \in 1..Len(out) : out' = After(out, n)
    /\ UNCHANGED <<ring, flags, in, fresh, executor>>

SetDropWhenFull ==
    /\ d_drop_when_full' \in BOOLEAN
    /\ UNCHANGED <<ring, d_starting, d_stop_until_tag, in, out, fresh, executor>>

\* stop_until_tag(), under the mutex: everything stored is forgotten.
ForgetAll ==
    /\ d_stop_until_tag' = TRUE
    /\ d_starting' = TRUE
    /\ d_read_index' = 0
    /\ d_write_index' = 0
    /\ UNCHANGED <<d_buffer, d_drop_when_full>>

StopUntilTag ==
    /\ ForgetAll
    /\ UNCHANGED <<in, out, fresh, executor>>

\* The channel switch of the curses application: the flowgraph is stopped and
\* its threads joined, stop_until_tag() called, the decoder and the audio sink
\* replaced by new ones, and the flowgraph started with new, empty edges.
SwitchChannel ==
    /\ ForgetAll
    /\ in' = <<>> /\ out' = <<>>
    /\ fresh' = TRUE
    /\ phase' = "idle" /\ ask' = 0 /\ avail' = 0

-----------------------------------------------------------------------------
(* The block's own thread *)

\* A round of the executor: all the output space is asked for, and the input
\* that is pending now is what general_work will be given.
Begin ==
    /\ phase = "idle"
    /\ Len(out) < OutCap
    /\ phase' = "forecast"
    /\ ask' = OutCap - Len(out)
    /\ avail' = Len(in)
    /\ UNCHANGED <<ring, flags, in, out, fresh>>

\* forecast(), without the mutex: a small request needs no input while the
\* ring is more than a tenth full or being filled; otherwise it starts over.
StartsOver(n) ==
    n < SmallRequest /\ ~d_starting /\ ~(100 * CurrentFill > 10 * Length)

Required(n) == IF n >= SmallRequest \/ StartsOver(n) THEN n ELSE 0

Forecast ==
    /\ phase = "forecast"
    /\ d_starting' = (d_starting \/ StartsOver(ask))
    /\ \/ /\ Required(ask) <= avail
          /\ phase' = "work" /\ UNCHANGED <<ask, avail>>
       \/ /\ Required(ask) > avail /\ ask > 1
          /\ ask' = ask \div 2 /\ UNCHANGED <<phase, avail>>
       \/ /\ Required(ask) > avail /\ ask = 1
          /\ phase' = "idle" /\ ask' = 0 /\ avail' = 0
    /\ UNCHANGED <<ring, d_drop_when_full, d_stop_until_tag, in, out, fresh>>

EndRound ==
    /\ phase = "work"
    /\ phase' = "idle" /\ ask' = 0 /\ avail' = 0

Zeros(n) == [i \in 1..n |-> Silence]

Tags == {i \in 1..avail : in[i].tag}

\* general_work while stopped, no tag in sight: the input is thrown away.
WorkSkip ==
    /\ EndRound
    /\ d_stop_until_tag
    /\ Tags = {}
    /\ in' = After(in, avail)
    /\ out' = out \o Zeros(ask)
    /\ UNCHANGED <<ring, flags, fresh>>

\* ... the tag is further on: what comes before it is thrown away.
WorkFindTag ==
    /\ EndRound
    /\ d_stop_until_tag
    /\ Tags # {} /\ ~in[1].tag
    /\ d_stop_until_tag' = FALSE
    /\ \E i \in Tags : /\ \A j \in Tags : i <= j
                       /\ in' = After(in, i - 1)
    /\ UNCHANGED <<ring, d_starting, d_drop_when_full, out, fresh>>

\* Variant: waits for a full ring, which the empty slot forbids.
PrebufferingFull == d_starting /\ CurrentFill < Length

\* General_work sends silence until the ring is three quarters full.
Prebuffering == d_starting /\ 100 * CurrentFill < 75 * Length

\* What is taken for the sound card this round, from the ring or the input ...
Request == IF Prebuffering THEN 0 ELSE ask

\* ... how much of it comes straight from the input (to_produce) ...
Passed == Minimum(avail, Request - Taken(Request))

\* ... and how much of the rest of the input is stored (tosave).
Saved == ToSave(avail - Passed, Fill(ReadIndexAfter(Request), d_write_index))

\* The rest of general_work: first out of the ring, then straight from the
\* input, and what is left of the input into the ring.
WorkCopy ==
    /\ EndRound
    /\ d_stop_until_tag => 1 \in Tags
    /\ d_stop_until_tag' = FALSE
    /\ d_starting' = Prebuffering
    /\ out' = out \o FromRing(Request)
                  \o [i \in 1..Passed |-> in[i].smp]
                  \o Zeros(IF Prebuffering THEN ask ELSE 0)
    /\ d_read_index' = ReadIndexAfter(Request)
    /\ d_buffer' = Stored(Passed, Saved)
    /\ d_write_index' = WriteIndexAfter(Saved)
    /\ in' = After(in, IF d_drop_when_full THEN avail ELSE Passed + Saved)
    /\ UNCHANGED <<d_drop_when_full, fresh>>

-----------------------------------------------------------------------------
Init ==
    /\ d_buffer = [k \in Slots |-> Silence]
    /\ d_read_index = 0 /\ d_write_index = 0
    /\ d_starting = TRUE
    /\ d_drop_when_full = FALSE
    /\ d_stop_until_tag = FALSE
    /\ in = <<>> /\ out = <<>>
    /\ fresh = TRUE
    /\ phase = "idle" /\ ask = 0 /\ avail = 0

Work == WorkSkip \/ WorkFindTag \/ WorkCopy

Next ==
    \/ \E item \in Items : DecoderWrite(item)
    \/ SinkRead
    \/ SetDropWhenFull
    \/ StopUntilTag
    \/ SwitchChannel
    \/ Begin
    \/ Forecast
    \/ Work

Spec == Init /\ [][Next]_vars

-----------------------------------------------------------------------------
\* What is stored, oldest first.
Queue == [i \in 1..CurrentFill |-> d_buffer[Slot(i - 1)]]

Mode == IF d_stop_until_tag THEN "skip"
        ELSE IF d_starting THEN "fill" ELSE "play"

Abstract == INSTANCE AudioQueue WITH
    Capacity <- Length - 1, queue <- Queue, mode <- Mode,
    lossy <- d_drop_when_full

\* The ring with its indices, chunked copies and thresholds behaves as the
\* abstract queue: samples leave in the order they came, each once and none
\* invented; none is dropped unless dropping is on and the ring is full; what
\* was stored or pending before the tag is never played after a stop.
ImplementsQueue == Abstract!Spec

\* A stopped block has nothing stored and prebuffers (stop_until_tag resets
\* all four fields; no later step undoes only a part of it).
StoppedIsEmpty ==
    d_stop_until_tag => d_starting /\ d_read_index = d_write_index
=============================================================================
