----------------------------- MODULE MCDabPlus ------------------------------
(* A small instance of the DAB+ decoder: a station of 192 kbit/s, so that a *)
(* call of mp4_decode_bs needs three superframes, and few damaged frames.   *)
EXTENDS DabPlus, FiniteSets

CONSTANTS MaxFrames,    \* logical frames received
          MaxDamaged    \* of these, frames about which the fire code is wrong

\* 48 kHz with spectral band replication: three AUs of 110 bytes times eight.
MCSent == [dac |-> 1, sbr |-> 1, surround |-> 0, middle |-> <<882, 1762>>]
\* A header of noise whose addresses decrease, one with an AU that is too
\* long, and one that makes sense.
MCNoise == {[dac |-> 0, sbr |-> 0, surround |-> 5, middle |-> <<700, 300, 1400>>],
            [dac |-> 0, sbr |-> 1, surround |-> 0, middle |-> <<900>>],
            [dac |-> 1, sbr |-> 0, surround |-> 0,
             middle |-> <<440, 880, 1320, 1760, 2200>>]}

Damaged == {n \in 1..Len(fed) : fed[n].head # fed[n].pass}
MCReceive == /\ Len(fed) < MaxFrames /\ Receive
             /\ Cardinality(Damaged') <= MaxDamaged
MCNext == MCReceive \/ Check \/ Repair \/ Decode

\* Every block runs as long as it can; the transmitter goes on.
MCSpec == /\ Init /\ [][MCNext]_vars
          /\ WF_vars(Check) /\ WF_vars(Repair) /\ WF_vars(Decode)

\* When the last frame has come, or earlier if an exception ends decoding,
\* every whole superframe has been searched for, repaired and decoded, but for
\* those that mp4_decode_bs holds back until it gets more.
CaughtUp == /\ Len(fed) - fcRead < 5 /\ request = 0
            /\ rsRead = fcWritten
            /\ au = 0 /\ ~EnoughInput
KeepsDecoding == <>[](dead \/ CaughtUp)
=============================================================================
