--------------------------- MODULE MCFrequencySync --------------------------
(* A small instance of the frequency synchronisation. *)
EXTENDS FrequencySync

CONSTANTS MaxSamples,  \* samples that arrive
          MaxTags,     \* tags among them
          MaxRestarts

\* A call works on what was pending when it began; that more arrives meanwhile
\* makes no difference to it.
MCNext ==
    \/ noutput = 0 /\ written < MaxSamples /\ Arrive /\ Cardinality(tags') <= MaxTags
    \/ Restart /\ Cardinality(cuts') <= MaxRestarts
    \/ Work

MCSpec == Init /\ [][MCNext]_vars
=============================================================================
