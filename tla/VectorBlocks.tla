---------------------------- MODULE VectorBlocks ----------------------------
(***************************************************************************)
(* The blocks between the OFDM demodulator's FFT and the channel decoders  *)
(* that count vectors from a "first" tag: ofdm_remove_first_symbol_vcc,    *)
(* magnitude_equalizer_vcc, select_vectors and repartition_vectors (all in *)
(* lib/).  An operator here is one call of work(): from the block's state, *)
(* the pending input and the output room to its new state, how much input  *)
(* it consumed and what it produced.                                       *)
(*                                                                         *)
(* A vector is a record with a tag `first' and an identity `id'; what is   *)
(* computed from its samples is left out.                                  *)
(***************************************************************************)
EXTENDS Integers, Sequences, FiniteSets, Functions

\* The vector a new edge's history is filled with.
Blank == [id |-> <<0, 0>>, first |-> FALSE]

Tagged(s) == {i \in 1..Len(s) : s[i].first}

Retag(v, first) == [v EXCEPT !.first = first]

Least(S) == CHOOSE x \in S : \A y \in S : x <= y

-----------------------------------------------------------------------------
\* Variant: the tag is set on every vector until the next call.
DropRoundSticky(w, v, room) ==
    IF Len(w.out) = room THEN w
    ELSE IF v.first
    THEN [start |-> TRUE, used |-> w.used + 1, out |-> w.out]
    ELSE [start |-> w.start, used |-> w.used + 1,
          out |-> Append(w.out, Retag(v, w.start))]

\* ofdm_remove_first_symbol_vcc, one round of its loop, if there is room for
\* another: a tagged vector is dropped and its tag set on the vector behind it.
DropRound(w, v, room) ==
    IF Len(w.out) = room THEN w
    ELSE IF v.first
    THEN [start |-> TRUE, used |-> w.used + 1, out |-> w.out]
    ELSE [start |-> FALSE, used |-> w.used + 1,
          out |-> Append(w.out, Retag(v, w.start))]

DropTagged(start, s, room) ==
    LET after[k \in 0..Len(s)] ==
            IF k = 0 THEN [start |-> start, used |-> 0, out |-> <<>>]
            ELSE DropRound(after[k - 1], s[k], room)
    IN  after[Len(s)]

\* Variant: the due place of a remembered tag is off by one.
EqualizeOff(add_at, hist, s, num) ==
    LET n == Len(s)
        due == {i + num - 1 : i \in Tagged(s)}
               \cup (IF add_at >= 0 THEN {add_at + 1} ELSE {})
        late == {d \in due : d > n}
        line == hist \o s
    IN  [add_at |-> IF late = {} THEN -1
                    ELSE (CHOOSE d \in late : \A e \in late : e <= d) - n,
         hist |-> SubSeq(line, n + 1, Len(line)),
         out |-> [i \in 1..n |-> Retag(line[i], i \in due)]]

\* magnitude_equalizer_vcc: the output runs num - 1 vectors behind the input,
\* by the history `hist', and so must the tags.  A tag due after the end of the
\* call is remembered in add_at, counted from the start of the next call.
Equalize(add_at, hist, s, num) ==
    LET n == Len(s)
        due == {i + num - 1 : i \in Tagged(s)}
               \cup (IF add_at >= 0 THEN {add_at + 1} ELSE {})
        late == {d \in due : d > n}
        line == hist \o s
    IN  [add_at |-> IF late = {} THEN -1
                    ELSE (CHOOSE d \in late : \A e \in late : e <= d) - n - 1,
         hist |-> SubSeq(line, n + 1, Len(line)),
         out |-> [i \in 1..n |-> Retag(line[i], i \in due)]]

\* Variant: one vector too many is skipped.
SelectRoundLate(w, v, room, num_select, num_skip) ==
    IF Len(w.out) = room THEN w
    ELSE LET place == IF v.first THEN 0 ELSE w.index
             end == num_skip + num_select
         IN  [index |-> IF place < end THEN place + 1 ELSE place,
              used |-> w.used + 1,
              out |-> IF num_skip < place /\ place < end
                      THEN Append(w.out, Retag(v, place = num_skip + 1))
                      ELSE w.out]

\* select_vectors, one round of its loop, if there is room for another: `place'
\* counts the vectors since the last tag, and num_select vectors of each frame
\* are selected after num_skip others.  (The index stops counting behind the
\* selected vectors; d_index goes on, which makes no difference before it wraps
\* around after 2^32 untagged vectors.)
SelectRound(w, v, room, num_select, num_skip) ==
    IF Len(w.out) = room THEN w
    ELSE LET place == IF v.first THEN 0 ELSE w.index
             end == num_skip + num_select
         IN  [index |-> IF place < end THEN place + 1 ELSE place,
              used |-> w.used + 1,
              out |-> IF num_skip <= place /\ place < end
                      THEN Append(w.out, Retag(v, place = num_skip))
                      ELSE w.out]

Select(index, s, room, num_select, num_skip) ==
    LET after[k \in 0..Len(s)] ==
            IF k = 0 THEN [index |-> index, used |-> 0, out |-> <<>>]
            ELSE SelectRound(after[k - 1], s[k], room, num_select, num_skip)
    IN  after[Len(s)]

\* Variant: the unit that a tag cuts short is delivered before it is given up.
RepartitionBoth(synced, s, room, multiply) ==
    LET T == Tagged(s)
        from == IF synced THEN 1
                ELSE IF T = {} THEN Len(s) + 1 ELSE Least(T)
        left == IF synced THEN T ELSE T \ {from}
        whole == (Len(s) - (from - 1)) \div multiply
        units == IF whole <= room THEN whole ELSE room
        start(k) == from + (k - 1) * multiply
        split == {k \in 1..units : \E t \in left : start(k) < t /\ t < start(k + 1)}
        cut == split # {}
        made == IF cut THEN Least(split) ELSE units
    IN  [synced |-> synced \/ T # {},
         used |-> IF cut THEN Least({t \in left : start(made) < t}) - 1
                  ELSE start(units + 1) - 1,
         out |-> [k \in 1..made |->
                    [ids |-> [i \in 1..multiply |-> s[start(k) + i - 1].id],
                     first |-> start(k) \in left]]]

\* repartition_vectors: `multiply' vectors make a unit.  Unsynchronised, what
\* comes before the first tag is skipped, and that tag is used up by it.  Then
\* units follow one another.  The first unit with a tag inside settles the rest
\* of the call: if its own start is untagged it is given up and the call ends
\* at the tag; else the search for tags has fallen behind for good, and the
\* other units of the call come out as they lie, untagged.
Repartition(synced, s, room, multiply) ==
    LET T == Tagged(s)
        from == IF synced THEN 1
                ELSE IF T = {} THEN Len(s) + 1 ELSE Least(T)
        left == IF synced THEN T ELSE T \ {from}
        whole == (Len(s) - (from - 1)) \div multiply
        units == IF whole <= room THEN whole ELSE room
        start(k) == from + (k - 1) * multiply
        inside(k) == {t \in left : start(k) < t /\ t < start(k + 1)}
        split == {k \in 1..units : inside(k) # {}}
        cut == split # {} /\ start(Least(split)) \notin left
        made == IF cut THEN Least(split) - 1 ELSE units
        told(k) == start(k) \in left /\ (split = {} \/ k <= Least(split))
    IN  [synced |-> synced \/ T # {},
         used |-> IF cut THEN Least(inside(Least(split))) - 1
                  ELSE start(units + 1) - 1,
         out |-> [k \in 1..made |->
                    [ids |-> [i \in 1..multiply |-> s[start(k) + i - 1].id],
                     first |-> told(k)]]]
=============================================================================
