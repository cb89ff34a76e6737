--------------------------- MODULE MCXrunMonitor ----------------------------
(***************************************************************************)
(* XrunMonitor for TLC.  The decoder's samples are numbered modulo Wrap,   *)
(* so that a lost, repeated or swapped sample is seen and no counter grows *)
(* without bound.  MaxStops bounds how often playing is interrupted.       *)
(***************************************************************************)
EXTENDS XrunMonitor

CONSTANTS Wrap, MaxStops

VARIABLES serial,  \* the next sample's number
          stops,   \* interruptions so far
          late     \* history: stopped when the decoder's tag had gone by

mcvars == <<vars, serial, stops, late>>

MCItems == 0..(Wrap - 1)

MCInit == Init /\ serial = 0 /\ stops = 0 /\ late = FALSE

MCWrite == DecoderWrite(serial) /\ serial' = (serial + 1) % Wrap
           /\ UNCHANGED <<stops, late>>

Interrupt == /\ stops < MaxStops
             /\ stops' = stops + 1
             /\ \/ StopUntilTag /\ late' = (~fresh /\ \A i \in 1..Len(in) : ~in[i].tag)
                \/ SwitchChannel /\ late' = FALSE
             /\ UNCHANGED serial

\* Whether input may be dropped is set before a decoder has started.
Configure == fresh /\ stops = 0 /\ SetDropWhenFull /\ UNCHANGED <<serial, stops, late>>

Others == /\ SinkRead \/ Begin \/ Forecast \/ Work
          /\ UNCHANGED <<serial, stops, late>>

MCNext == MCWrite \/ Interrupt \/ Configure \/ Others

\* The block's thread, the decoder and the sound card keep running.
MCSpec == /\ MCInit /\ [][MCNext]_mcvars
          /\ WF_mcvars(MCWrite)
          /\ WF_mcvars(SinkRead /\ UNCHANGED <<serial, stops, late>>)
          /\ WF_mcvars((Begin \/ Forecast \/ Work)
                        /\ UNCHANGED <<serial, stops, late>>)

\* However the threads interleave, the listener hears the programme again and
\* again: prebuffering always ends, running dry is recovered from, the executor
\* and the decoder never wait for each other, and after a switch the tag of the
\* new decoder (mp4_decode_bs_impl.cc:302) ends the stop.  Only a decoder that
\* has sent its one tag already when stop_until_tag() comes stays unheard.
AudioKeepsComing ==
    []<>(late \/ \E i \in 1..Len(out) : out[i] # Silence)
=============================================================================
