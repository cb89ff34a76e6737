----------------------------- MODULE FrameChain -----------------------------
(***************************************************************************)
(* The way of a DAB frame's OFDM symbols through the receiver, from the    *)
(* sampler to the units the channel decoders take (python/dab/ofdm.py,     *)
(* fic.py, msc_decode.py).  Every block runs in a thread of its own when   *)
(* its input and its output room allow it; the curses application may stop *)
(* the flowgraph and start it again with new, empty edges, and the blocks  *)
(* keep their state over that.  The blocks in between that make one vector *)
(* out of each and leave the tags where they are (FFT, frequency           *)
(* correction, phase differences, deinterleaving, soft bits) are left out. *)
(***************************************************************************)
EXTENDS VectorBlocks

CONSTANTS NumFic,      \* dp.num_fic_syms
          NumMsc,      \* dp.num_msc_syms
          NumEq,       \* rp.symbols_for_magnitude_equalization
          EdgeCap,     \* vectors that an edge's buffer can hold
          MaxFrames,   \* frames that the sampler finds
          MaxRestarts  \* restarts of the flowgraph

\* A tag is delayed by less than the frame's symbols behind the phase reference
\* (6 of 76, 12 of 153: parameters.py).
ASSUME ChainAssumption ==
    /\ NumFic \in Nat \ {0} /\ NumMsc \in Nat \ {0}
    /\ NumEq \in 1..(1 + NumFic + NumMsc)
    /\ EdgeCap \in Nat \ {0}
    /\ MaxFrames \in Nat \ {0} /\ MaxRestarts \in Nat

\* All symbols of a frame: the phase reference, the FIC's and the MSC's.
PerFrame == 1 + NumFic + NumMsc

VARIABLES frame,      \* sampler: the frame it is in
          sym_nr,     \* sampler: how many of its symbols are cut
          d_start,    \* remove_first: the next vector is tagged
          d_add_at,   \* equalizer: where a tag is due, or -1
          hist,       \* equalizer: its input's history
          fic_index,  \* select_fic_syms: d_index
          msc_index,  \* select_msc_syms: d_index
          fic_synced, \* repartition_fic: d_synced
          msc_synced, \* repartition_msc_to_cus: d_synced
          toRemove, toEqualize,       \* edges: pending vectors
          toFic, toMsc,               \* the two readers of one edge
          toFicUnits, toMscUnits,
          fic, msc,   \* the units delivered to the decoders
          restarts, touched  \* frames that a restart took something of

blocks == <<frame, sym_nr, d_start, d_add_at, fic_index, msc_index,
            fic_synced, msc_synced>>
edges == <<hist, toRemove, toEqualize, toFic, toMsc, toFicUnits, toMscUnits>>
vars == <<blocks, edges, fic, msc, restarts, touched>>

Ids == {<<0, 0>>} \cup ((1..MaxFrames) \X (0..(PerFrame - 1)))
Vectors == [id : Ids, first : BOOLEAN]

IsEdge(e) == e \in Seq(Vectors) /\ Len(e) <= EdgeCap

\* Units of n vectors.
Units(n) == [ids : [1..n -> Ids], first : BOOLEAN]

TypeOK ==
    /\ frame \in 1..(MaxFrames + 1) /\ sym_nr \in 0..(PerFrame - 1)
    /\ d_start \in BOOLEAN
    /\ d_add_at \in -1..(NumEq - 2)
    /\ hist \in Seq(Vectors) /\ Len(hist) = NumEq - 1
    /\ fic_index \in 0..NumFic /\ msc_index \in 0..(NumFic + NumMsc)
    /\ fic_synced \in BOOLEAN /\ msc_synced \in BOOLEAN
    /\ \A e \in {toRemove, toEqualize, toFic, toMsc, toFicUnits, toMscUnits} :
          IsEdge(e)
    /\ fic \in Seq(Units(NumFic)) /\ msc \in Seq(Units(NumMsc))
    /\ restarts \in 0..MaxRestarts /\ touched \subseteq 1..MaxFrames

Room(e) == EdgeCap - Len(e)
Rest(e, n) == SubSeq(e, n + 1, Len(e))

-----------------------------------------------------------------------------
\* ofdm_sampler delivers a symbol; the first of a frame is tagged.
Sample ==
    /\ frame <= MaxFrames
    /\ Room(toRemove) > 0
    /\ toRemove' = Append(toRemove, [id |-> <<frame, sym_nr>>,
                                     first |-> sym_nr = 0])
    /\ IF sym_nr + 1 = PerFrame
       THEN frame' = frame + 1 /\ sym_nr' = 0
       ELSE frame' = frame /\ sym_nr' = sym_nr + 1
    /\ UNCHANGED <<d_start, d_add_at, hist, fic_index, msc_index, fic_synced,
                   msc_synced, toEqualize, toFic, toMsc, toFicUnits, toMscUnits,
                   fic, msc, restarts, touched>>

\* The scheduler calls a block with all its pending input, for as many output
\* vectors as there is room for or fewer, if forecast() finds the input enough.
RemoveFirstSymbol ==
    \E room \in 1..Room(toEqualize) :
        LET w == DropTagged(d_start, toRemove, room)
        IN  /\ Len(toRemove) >= room
            /\ d_start' = w.start
            /\ toRemove' = Rest(toRemove, w.used)
            /\ toEqualize' = toEqualize \o w.out
            /\ UNCHANGED <<frame, sym_nr, d_add_at, hist, fic_index, msc_index,
                           fic_synced, msc_synced, toFic, toMsc, toFicUnits,
                           toMscUnits, fic, msc, restarts, touched>>

\* Both selections read the equalizer's output; the slower one holds it up.
EqualizeMagnitude ==
    \E n \in 1..Len(toEqualize) :
        LET w == Equalize(d_add_at, hist, SubSeq(toEqualize, 1, n), NumEq)
        IN  /\ n <= Room(toFic) /\ n <= Room(toMsc)
            /\ d_add_at' = w.add_at /\ hist' = w.hist
            /\ toEqualize' = Rest(toEqualize, n)
            /\ toFic' = toFic \o w.out /\ toMsc' = toMsc \o w.out
            /\ UNCHANGED <<frame, sym_nr, d_start, fic_index, msc_index,
                           fic_synced, msc_synced, toRemove, toFicUnits,
                           toMscUnits, fic, msc, restarts, touched>>

SelectFic ==
    \E room \in 1..Room(toFicUnits) :
        LET w == Select(fic_index, toFic, room, NumFic, 0)
        IN  /\ Len(toFic) >= room
            /\ fic_index' = w.index
            /\ toFic' = Rest(toFic, w.used)
            /\ toFicUnits' = toFicUnits \o w.out
            /\ UNCHANGED <<frame, sym_nr, d_start, d_add_at, hist, msc_index,
                           fic_synced, msc_synced, toRemove, toEqualize, toMsc,
                           toMscUnits, fic, msc, restarts, touched>>

SelectMsc ==
    \E room \in 1..Room(toMscUnits) :
        LET w == Select(msc_index, toMsc, room, NumMsc, NumFic)
        IN  /\ Len(toMsc) >= (room * (NumFic + NumMsc)) \div NumMsc
            /\ msc_index' = w.index
            /\ toMsc' = Rest(toMsc, w.used)
            /\ toMscUnits' = toMscUnits \o w.out
            /\ UNCHANGED <<frame, sym_nr, d_start, d_add_at, hist, fic_index,
                           fic_synced, msc_synced, toRemove, toEqualize, toFic,
                           toFicUnits, fic, msc, restarts, touched>>

\* The decoders behind take any unit; `room' is counted in units.
RepartitionFic ==
    \E room \in 1..(EdgeCap \div NumFic) :
        LET w == Repartition(fic_synced, toFicUnits, room, NumFic)
        IN  /\ Len(toFicUnits) >= room * NumFic
            /\ fic_synced' = w.synced
            /\ toFicUnits' = Rest(toFicUnits, w.used)
            /\ fic' = fic \o w.out
            /\ UNCHANGED <<frame, sym_nr, d_start, d_add_at, hist, fic_index,
                           msc_index, msc_synced, toRemove, toEqualize, toFic,
                           toMsc, toMscUnits, msc, restarts, touched>>

RepartitionMsc ==
    \E room \in 1..(EdgeCap \div NumMsc) :
        LET w == Repartition(msc_synced, toMscUnits, room, NumMsc)
        IN  /\ Len(toMscUnits) >= room * NumMsc
            /\ msc_synced' = w.synced
            /\ toMscUnits' = Rest(toMscUnits, w.used)
            /\ msc' = msc \o w.out
            /\ UNCHANGED <<frame, sym_nr, d_start, d_add_at, hist, fic_index,
                           msc_index, fic_synced, toRemove, toEqualize, toFic,
                           toMsc, toFicUnits, fic, restarts, touched>>

\* Frames that have symbols under way.
UnderWay ==
    UNION {{e[i].id[1] : i \in 1..Len(e)} :
             e \in {hist, toRemove, toEqualize, toFic, toMsc, toFicUnits,
                    toMscUnits}}

\* fg.stop(), fg.wait(), reconnecting and fg.start(): what is pending is lost.
Restart ==
    /\ restarts < MaxRestarts
    /\ restarts' = restarts + 1
    /\ touched' = touched \cup (UnderWay \ {0})
                          \cup (IF sym_nr = 0 THEN {} ELSE {frame})
    /\ hist' = [i \in 1..(NumEq - 1) |-> Blank]
    /\ toRemove' = <<>> /\ toEqualize' = <<>>
    /\ toFic' = <<>> /\ toMsc' = <<>>
    /\ toFicUnits' = <<>> /\ toMscUnits' = <<>>
    /\ UNCHANGED <<blocks, fic, msc>>

Init ==
    /\ frame = 1 /\ sym_nr = 0
    /\ d_start = FALSE
    /\ d_add_at = -1
    /\ hist = [i \in 1..(NumEq - 1) |-> Blank]
    /\ fic_index = NumFic /\ msc_index = NumFic + NumMsc
    /\ fic_synced = FALSE /\ msc_synced = FALSE
    /\ toRemove = <<>> /\ toEqualize = <<>> /\ toFic = <<>> /\ toMsc = <<>>
    /\ toFicUnits = <<>> /\ toMscUnits = <<>>
    /\ fic = <<>> /\ msc = <<>>
    /\ restarts = 0 /\ touched = {}

Next ==
    \/ Sample \/ RemoveFirstSymbol \/ EqualizeMagnitude
    \/ SelectFic \/ SelectMsc \/ RepartitionFic \/ RepartitionMsc
    \/ Restart

Spec == Init /\ [][Next]_vars

-----------------------------------------------------------------------------
\* Unit number j holds symbols lo, lo + 1, ... of frame j.
WholeFrames(units, lo) ==
    \A j \in 1..Len(units) :
        \A i \in DOMAIN units[j].ids : units[j].ids[i] = <<j, lo + i - 1>>

\* While the flowgraph runs, every frame is delivered, whole and in order, to
\* both decoders, whatever pieces its symbols came in.
DeliversFrames ==
    restarts = 0 => WholeFrames(fic, 1) /\ WholeFrames(msc, 1 + NumFic)

\* A frame that no restart took anything of is never mistaken: its FIC symbols
\* go to the FIC decoder and its MSC symbols to the MSC decoder only.
SelectsRight ==
    \A id \in Ids :
        id[1] \notin touched \cup {0} =>
            /\ (\E j \in 1..Len(fic) : id \in Range(fic[j].ids))
                  => id[2] \in 1..NumFic
            /\ (\E j \in 1..Len(msc) : id \in Range(msc[j].ids))
                  => id[2] \in (1 + NumFic)..(PerFrame - 1)

\* Before in time: by frame, then by symbol (ids), by unit, then by place in it.
Before(a, b) == a[1] < b[1] \/ (a[1] = b[1] /\ a[2] < b[2])

UnitsInOrder(units) ==
    \A j, k \in 1..Len(units) :
        \A i \in DOMAIN units[j].ids, l \in DOMAIN units[k].ids :
            Before(<<j, i>>, <<k, l>>) =>
                \/ units[j].ids[i] = Blank.id \/ units[k].ids[l] = Blank.id
                \/ Before(units[j].ids[i], units[k].ids[l])

\* No vector is delivered twice or out of order, restarts or not.
InOrder == UnitsInOrder(fic) /\ UnitsInOrder(msc)

\* The repartitioner's test (qa_repartition_vectors.py) expects a unit cut short
\* by the next tag to be dropped and the next one to start at that tag: a frame
\* that no restart took anything of is delivered by itself.
KeepsFramesApart ==
    \A j \in 1..Len(fic) :
        LET frames == {id[1] : id \in Range(fic[j].ids)}
        IN  frames \subseteq touched \cup {0} \/ Cardinality(frames) = 1
=============================================================================
