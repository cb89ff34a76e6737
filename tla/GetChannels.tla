----------------------------- MODULE GetChannels ----------------------------
(***************************************************************************)
(* `grdab info' (python/app/get_channels.py) on top of the FIB sink: every *)
(* second it reads three of the sink's lists from its own thread, merges   *)
(* them into a dictionary of channels, and prints the channels once all of *)
(* them have a label, or at the last attempt.                              *)
(*                                                                         *)
(* The entry of a label is keyed by its service's reference; a service     *)
(* component's by its sub-channel, and `about' is the reference; that of a *)
(* sub-channel by its ID, and `about' is its address, size and protection. *)
(***************************************************************************)
EXTENDS ChannelLists, Functions, SequencesExt

CONSTANTS MaxAttempts, \* maxattempts
          LongestList, \* bound of the published lists
          MaxPartial   \* lists for which FIBs were damaged

ASSUME AttemptsAssumption == MaxAttempts \in Nat \ {0}
ASSUME PartialAssumption == MaxPartial \in Nat

VARIABLES unlabelled, \* the services that the ensemble sends no label of
          partial,  \* lists published so far for which FIBs were damaged
          pc,       \* where the loop is
          attempt,
          channels, \* the dictionary's keys, in the order of their insertion
          label,    \* channels with a label
          id,       \* channel -> the 'id' it has
          subch,    \* channel -> the 'subch_info' it has
          printed   \* channels that were printed

searchVars == <<pc, attempt, channels, label, id, subch, printed>>
vars == <<listVars, unlabelled, partial, searchVars>>

\* The services that may have a label.
Labelled == {e.key : e \in Readable["label"]}

Refs == Keys \cup Abouts \cup {Garbled}

TypeOK ==
    /\ json \in [Kinds -> Seq(Entry)] /\ publishing \in Kinds \cup {None}
    /\ unlabelled \subseteq Labelled /\ partial \in 0..MaxPartial
    /\ pc \in {"labels", "services", "subch", "decide", "done", "failed"}
    /\ attempt \in 0..MaxAttempts
    /\ channels \in Seq(Refs) /\ IsInjective(channels)
    /\ label \subseteq Range(channels)
    /\ DOMAIN id \subseteq Range(channels) /\ Range(id) \subseteq Keys
    /\ DOMAIN subch \subseteq DOMAIN id /\ Range(subch) \subseteq Entry
    /\ printed \subseteq DOMAIN subch

\* Insert the references that are new, in the order of the list.
Insert(refs) ==
    LET after[n \in 0..Len(refs)] ==
            IF n = 0 THEN channels
            ELSE IF refs[n] \in Range(after[n - 1]) THEN after[n - 1]
            ELSE Append(after[n - 1], refs[n])
    IN  after[Len(refs)]

Keyed(list) == [i \in 1..Len(list) |-> list[i].key]
Refers(list) == [i \in 1..Len(list) |-> list[i].about]

\* dict.update: what is learnt now takes the place of what was known.
Updated(known, learnt) ==
    [c \in DOMAIN known \cup DOMAIN learnt |->
        IF c \in DOMAIN learnt THEN learnt[c] ELSE known[c]]

\* json.loads fails on a list that does not begin with '['.
Malformed(kind) == publishing = kind

-----------------------------------------------------------------------------
ReadLabels ==
    /\ pc = "labels"
    /\ IF Malformed("label")
       THEN pc' = "failed" /\ UNCHANGED <<channels, label>>
       ELSE /\ pc' = "services"
            /\ channels' = Insert(Keyed(json["label"]))
            /\ label' = label \cup Range(Keyed(json["label"]))
    /\ UNCHANGED <<attempt, id, subch, printed>>

\* The IDs that a list sets: an entry overwrites those before it.
Ids(list) ==
    [c \in Range(Refers(list)) |->
        list[Max({i \in 1..Len(list) : list[i].about = c})].key]

ReadServices ==
    /\ pc = "services"
    /\ IF Malformed("service")
       THEN pc' = "failed" /\ UNCHANGED <<channels, id>>
       ELSE /\ pc' = "subch"
            /\ channels' = Insert(Refers(json["service"]))
            /\ id' = Updated(id, Ids(json["service"]))
    /\ UNCHANGED <<attempt, label, subch, printed>>

\* Variant: the sub-channel is given to the first channel, whatever its ID.
AttachAny(e) == {channels[n] : n \in {m \in 1..Len(channels) : m = 1}}

\* The first channel with the sub-channel's ID gets it, and only that one.
Having(e) ==
    {n \in 1..Len(channels) : channels[n] \in DOMAIN id /\ id[channels[n]] = e.key}
Attach(e) ==
    {channels[n] : n \in {m \in Having(e) : \A k \in Having(e) : m <= k}}

\* The sub-channels that a list attaches, the last one of a channel's.
Attached(list) ==
    LET For(c) == {i \in 1..Len(list) : c \in Attach(list[i])}
    IN  [c \in {d \in Range(channels) : For(d) # {}} |-> list[Max(For(c))]]

ReadSubch ==
    /\ pc = "subch"
    /\ IF Malformed("subch")
       THEN pc' = "failed" /\ UNCHANGED subch
       ELSE pc' = "decide" /\ subch' = Updated(subch, Attached(json["subch"]))
    /\ UNCHANGED <<attempt, channels, label, id, printed>>

\* Variant: the labels are read before the loop only.
DecideOnce ==
    /\ pc = "decide"
    /\ IF channels # <<>>
          /\ (Range(channels) \subseteq label \/ attempt = MaxAttempts - 1)
       THEN /\ printed' = DOMAIN subch
            /\ pc' = "done"
            /\ attempt' = attempt
       ELSE /\ attempt' = IF attempt = MaxAttempts THEN attempt ELSE attempt + 1
            /\ pc' = "services"
            /\ printed' = printed
    /\ UNCHANGED <<channels, label, id, subch>>

\* `attempt' is compared for equality only, so it need not count on.
Decide ==
    /\ pc = "decide"
    /\ IF channels # <<>>
          /\ (Range(channels) \subseteq label \/ attempt = MaxAttempts - 1)
       THEN /\ printed' = DOMAIN subch
            /\ pc' = "done"
            /\ attempt' = attempt
       ELSE /\ attempt' = IF attempt = MaxAttempts THEN attempt ELSE attempt + 1
            /\ pc' = "labels"
            /\ printed' = printed
    /\ UNCHANGED <<channels, label, id, subch>>

Search == ReadLabels \/ ReadServices \/ ReadSubch \/ Decide

SearchInit ==
    /\ pc = "labels" /\ attempt = 0
    /\ channels = <<>> /\ label = {}
    /\ id = <<>> /\ subch = <<>>
    /\ printed = {}

-----------------------------------------------------------------------------
\* What this ensemble sends of a kind.
Available(kind) ==
    {e \in Readable[kind] : kind = "label" => e.key \notin unlabelled}

\* The sink's thread.  While FIBs are damaged a list may be any round.
PublishPartial(kind) ==
    /\ partial < MaxPartial
    /\ partial' = partial + 1
    /\ \E list \in BoundedSeq(Available(kind), LongestList) : Publish(kind, list)
    /\ UNCHANGED <<unlabelled, searchVars>>

PublishWhole(kind) ==
    /\ \E list \in SetToSeqs(Available(kind)) : Publish(kind, list)
    /\ UNCHANGED <<unlabelled, partial, searchVars>>

SinkOpens == Open /\ UNCHANGED <<unlabelled, partial, searchVars>>

SearchStep == Search /\ UNCHANGED <<unlabelled, partial, listVars>>

Init ==
    /\ ListsInit /\ SearchInit
    /\ unlabelled \in SUBSET Labelled /\ partial = 0

Next ==
    \/ \E kind \in Kinds : PublishPartial(kind) \/ PublishWhole(kind)
    \/ SinkOpens
    \/ SearchStep

\* The sink publishes complete lists again and again, and in the end only those
\* (FibSink's ListsKeepComing, where no key is sent twice); its thread and the
\* search go on.
Fairness ==
    /\ \A k \in Kinds : SF_vars(PublishWhole(k))
    /\ WF_vars(SinkOpens)
    /\ WF_vars(SearchStep)

Spec == Init /\ [][Next]_vars /\ Fairness

-----------------------------------------------------------------------------
\* A printed channel is one that the ensemble has: its service is sent with
\* this sub-channel, whose parameters are printed.  It has a label unless the
\* attempts ran out.
PrintedChannelsExist ==
    \A c \in printed :
        /\ [key |-> subch[c].key, about |-> c] \in Readable["service"]
        /\ subch[c] \in Readable["subch"]
        /\ c \in label \/ attempt = MaxAttempts - 1

\* When complete lists keep coming, and in the end only those, the search comes
\* to an end, with or without labels for all services, but for one case: no
\* channel was known at the only attempt that counts as the last
\* (get_channels.py:125), and one that became known later never gets a label.
SearchEnds ==
    \/ <>(pc \in {"done", "failed"})
    \/ <>[](attempt = MaxAttempts /\ Range(channels) \cap unlabelled # {})
=============================================================================
