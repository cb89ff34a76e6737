---------------------------- MODULE MCOfdmSampler ---------------------------
(* A small instance of the sampler: few samples, few tags. *)
EXTENDS OfdmSampler, FiniteSets

CONSTANTS MaxSamples,  \* samples that arrive
          MaxTags      \* tags among them

MCNext ==
    \/ Arrive /\ written' <= MaxSamples /\ Cardinality(tags') <= MaxTags
    \/ GeneralWork

MCSpec == SamplerInit /\ [][MCNext]_samplerVars
=============================================================================
