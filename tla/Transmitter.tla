---------------------------- MODULE Transmitter ----------------------------
(***************************************************************************)
(* The modulator (ofdm_mod of ofdm.py): data vectors, and beside them one  *)
(* trigger per vector that says whether it is the first of its frame.      *)
(*                                                                         *)
(*   vectors --> ofdm_insert_pilot --> sum_phasor_trig --> ... insert_null *)
(*   triggers ----^                       (trigger) ----------^            *)
(*                                                                         *)
(* Each block is a thread that takes what has arrived, in calls of any     *)
(* length: vectors and triggers arrive apart from each other, and symbols  *)
(* reach insert_null_symbol after their triggers.                          *)
(*                                                                         *)
(* A vector is its number, the pilot is 0.  A symbol is the sequence of    *)
(* the vectors that it is the product of, a sample of it a record.         *)
(***************************************************************************)
EXTENDS Integers, FiniteSets, SequencesExt

CONSTANTS NumVectors,    \* vectors to send
          NsLength,      \* d_ns_length of insert_null_symbol
          SymbolLength,  \* d_symbol_length
          Room           \* vectors that an edge between two blocks holds

ASSUME TransmitterAssumption ==
    {NumVectors, NsLength, SymbolLength, Room} \subseteq Nat \ {0}

VARIABLES frame_start,   \* the triggers of all vectors
          sent, given,   \* how many vectors and triggers have arrived
          vectors, triggers,   \* the inputs of ofdm_insert_pilot
          d_start,             \* its pilot is out, its vector is not
          marked,              \* the edge to sum_phasor_trig: [of, trigger]
          d_last_symbol,
          products,            \* the edge to the frequency interleaver
          symbols, starts,     \* the inputs of insert_null_symbol
          d_ns_added,
          air                  \* the samples sent

source == <<frame_start, sent, given>>
pilot == <<vectors, triggers, d_start>>
sum == <<marked, d_last_symbol>>
null == <<symbols, starts, d_ns_added>>
vars == <<source, pilot, sum, products, null, air>>

Pilot == 0
\* What is read of a vector that has not arrived.
Stale == -1

Init ==
    /\ frame_start \in {f \in [1..NumVectors -> {0, 1}] : f[1] = 1}
    /\ sent = 0 /\ given = 0 /\ vectors = <<>> /\ triggers = <<>> /\ d_start = 0
    /\ marked = <<>> /\ d_last_symbol = <<>> /\ products = <<>>
    /\ symbols = <<>> /\ starts = <<>> /\ d_ns_added = 0
    /\ air = <<>>

\* The sources: a file of vectors, and the triggers.
SendVector ==
    /\ sent < NumVectors /\ Len(vectors) < Room
    /\ sent' = sent + 1 /\ vectors' = Append(vectors, sent')
    /\ UNCHANGED <<frame_start, given, triggers, d_start, sum, products, null, air>>

GiveTrigger ==
    /\ given < NumVectors /\ Len(triggers) < Room
    /\ given' = given + 1 /\ triggers' = Append(triggers, frame_start[given'])
    /\ UNCHANGED <<frame_start, sent, vectors, d_start, sum, products, null, air>>

-----------------------------------------------------------------------------
(* ofdm_insert_pilot_vcc: before a vector with a trigger goes the pilot,   *)
(* with the trigger; the vector itself goes without.                       *)

\* forecast(): as many items of both inputs as are to be put out.
\* Variant: the vectors are not asked for.
PilotRequiresTriggers(n) == n <= Len(triggers)
PilotRequires(n) == n <= Len(vectors) /\ n <= Len(triggers)

\* One round of the loop, which looks at the triggers alone: c.used items of
\* both inputs are used up, c.out is what has been put out.
PilotFirst(c) == triggers[c.used + 1] = 1 /\ c.start = 0
PilotItem(c) ==
    IF PilotFirst(c)
    THEN [c EXCEPT !.start = 1, !.out = Append(@, [of |-> Pilot, trigger |-> 1])]
    ELSE [c EXCEPT !.start = 0, !.used = @ + 1,
                   !.out = Append(@, [of |-> IF c.used < Len(vectors)
                                             THEN vectors[c.used + 1] ELSE Stale,
                                      trigger |-> 0])]

PilotCall(n) ==
    LET after[k \in 0..n] ==
            IF k = 0 THEN [start |-> d_start, used |-> 0, out |-> <<>>]
                     ELSE PilotItem(after[k - 1])
    IN  after[n]

InsertPilot ==
    \E n \in 1..(Room - Len(marked)) :
        /\ PilotRequires(n)
        /\ LET call == PilotCall(n)
           IN  /\ d_start' = call.start
               /\ marked' = marked \o call.out
               /\ vectors' = SubSeq(vectors, call.used + 1, Len(vectors))
               /\ triggers' = SubSeq(triggers, call.used + 1, Len(triggers))
        /\ UNCHANGED <<source, d_last_symbol, products, null, air>>

-----------------------------------------------------------------------------
(* sum_phasor_trig_vcc: a symbol is the product of its vector and of the   *)
(* symbol before; the trigger passes.                                      *)

\* The n symbols of a call; the first one follows d_last_symbol.
Phases(n) ==
    LET phase[k \in 0..n] ==
            IF k = 0 THEN d_last_symbol
            ELSE IF marked[k].trigger = 1 THEN <<marked[k].of>>
            ELSE Append(phase[k - 1], marked[k].of)
    IN  [k \in 1..n |-> phase[k]]

\* Variant: the symbol that the call began with.
RememberedFirst(out) == Head(out)
Remembered(out) == Last(out)

SumPhase ==
    \E n \in 1..Len(marked) :
        /\ Len(products) + n <= Room /\ Len(starts) + n <= Room
        /\ products' = products \o Phases(n)
        /\ starts' = starts \o [k \in 1..n |-> marked[k].trigger]
        /\ d_last_symbol' = Remembered(Phases(n))
        /\ marked' = SubSeq(marked, n + 1, Len(marked))
        /\ UNCHANGED <<source, pilot, symbols, d_ns_added, air>>

\* Interleaver, inverse FFT and prefix: symbol by symbol, the order is kept.
Modulate ==
    \E n \in 1..Len(products) :
        /\ Len(symbols) + n <= Room
        /\ symbols' = symbols \o SubSeq(products, 1, n)
        /\ products' = SubSeq(products, n + 1, Len(products))
        /\ UNCHANGED <<source, pilot, sum, starts, d_ns_added, air>>

-----------------------------------------------------------------------------
(* insert_null_symbol: silence before a symbol with a trigger.             *)

Silence == [of |-> <<>>, at |-> 0]
Samples(symbol) == [k \in 1..SymbolLength |-> [of |-> symbol, at |-> k]]

\* forecast().  Variant: one symbol ahead, as a block with a history asks.
NullRequiresMore(n) ==
    n \div SymbolLength + 1 <= Len(symbols) /\ n \div SymbolLength + 1 <= Len(starts)
NullRequires(n) ==
    n \div SymbolLength <= Len(symbols) /\ n \div SymbolLength <= Len(starts)

\* One round of the loop, if there is room for a symbol and one is pending.
\* The silence is longer than a symbol and may take several calls.
\* Variant: the count of its samples is not set back.
NextAddedKept(c) == c.added
NextAdded(c) == IF starts[c.used + 1] = 0 THEN 0 ELSE c.added

NullItem(n, c) ==
    LET room == n - Len(c.out)
        zeros == IF NsLength - c.added < room THEN NsLength - c.added ELSE room
    IN  IF room < SymbolLength \/ c.used >= Len(symbols) \/ c.used >= Len(starts) THEN c
        ELSE IF starts[c.used + 1] = 1 /\ c.added < NsLength
        THEN [c EXCEPT !.added = @ + zeros,
                       !.out = @ \o [k \in 1..zeros |-> Silence]]
        ELSE [added |-> NextAdded(c), used |-> c.used + 1,
              out |-> c.out \o Samples(symbols[c.used + 1])]

NullCall(n) ==
    LET after[k \in 0..n] ==
            IF k = 0 THEN [added |-> d_ns_added, used |-> 0, out |-> <<>>]
                     ELSE NullItem(n, after[k - 1])
    IN  after[n]

\* A call is for a multiple of SymbolLength samples (set_output_multiple).
InsertNull ==
    \E m \in 1..Room :
        /\ NullRequires(m * SymbolLength)
        /\ LET call == NullCall(m * SymbolLength)
           IN  /\ d_ns_added' = call.added /\ air' = air \o call.out
               /\ symbols' = SubSeq(symbols, call.used + 1, Len(symbols))
               /\ starts' = SubSeq(starts, call.used + 1, Len(starts))
        /\ UNCHANGED <<source, pilot, sum, products>>

Next == SendVector \/ GiveTrigger \/ InsertPilot \/ SumPhase \/ Modulate \/ InsertNull

\* Every block has a thread of its own.
Spec ==
    /\ Init /\ [][Next]_vars
    /\ WF_vars(SendVector) /\ WF_vars(GiveTrigger) /\ WF_vars(InsertPilot)
    /\ WF_vars(SumPhase) /\ WF_vars(Modulate) /\ WF_vars(InsertNull)

-----------------------------------------------------------------------------
Pending == {Len(vectors), Len(triggers), Len(marked), Len(products),
            Len(symbols), Len(starts)}
TypeOK ==
    /\ frame_start \in [1..NumVectors -> {0, 1}]
    /\ sent \in 0..NumVectors /\ given \in 0..NumVectors
    /\ Pending \subseteq 0..Room
    /\ d_start \in {0, 1} /\ d_ns_added \in 0..NsLength
    /\ \A k \in 1..Len(marked) : marked[k].of \in 0..NumVectors

\* What diff_phasor_vcc makes of two successive symbols: their quotient, which
\* is a vector only if the second is the first times this vector.
Noise == -2
DiffPhasor(before, symbol) ==
    IF symbol # <<>> /\ Front(symbol) = before THEN Last(symbol) ELSE Noise

\* Where a symbol that is not the pilot ends on the air.
DataEnds(last) ==
    {p \in 1..last : air[p].at = SymbolLength /\ air[p].of # <<Pilot>>}

\* A receiver that takes the quotients of successive symbols, and leaves out
\* those of a pilot and of silence, gets the vectors that were given to the
\* modulator, all of them, in order (ofdm_mod, ofdm_demod).
ReceiverGetsVectors ==
    \A p \in DataEnds(Len(air)) :
        /\ p > SymbolLength
        /\ DiffPhasor(air[p - SymbolLength].of, air[p].of) = Cardinality(DataEnds(p))

\* Every frame begins with a null symbol and the pilot: silence lasts NsLength
\* samples, not one more or less, is followed by the pilot, and without it
\* there is no pilot, whatever the triggers and the calls.  Between these no
\* symbol is cut (insert_null_symbol, whose count is set back by a symbol
\* without a trigger only).
Before(p, n) == SubSeq(air, p - n, p - 1)
NullBeforePilot ==
    \A p \in 1..Len(air) :
        /\ air[p].at > 1 => p > 1 /\ air[p - 1] = [air[p] EXCEPT !.at = @ - 1]
        /\ air[p].at = 1 =>
              IF air[p].of = <<Pilot>>
              THEN /\ p > NsLength
                   /\ Before(p, NsLength) = [k \in 1..NsLength |-> Silence]
                   /\ p > NsLength + 1 => air[p - NsLength - 1].at = SymbolLength
              ELSE p > 1 /\ air[p - 1].at = SymbolLength

\* All is sent in the end: a null symbol and a pilot for each trigger, and all
\* vectors.  No block waits for more than there is, or for room.
Frames == {v \in 1..NumVectors : frame_start[v] = 1}
Length == Cardinality(Frames) * (NsLength + SymbolLength) + NumVectors * SymbolLength
AllIsSent == <>(Len(air) = Length)
=============================================================================
