------------------------------ MODULE DabPlus -------------------------------
(***************************************************************************)
(* The DAB+ part of dabplus_audio_decoder_ff.py: firecode_check_bb finds   *)
(* superframes in the stream of logical frames, reed_solomon_decode_bb     *)
(* repairs them and mp4_decode_bs decodes their access units (AUs).  Each  *)
(* block is a thread of its own; bounded buffers lie between them.         *)
(*                                                                         *)
(* A logical frame is what the fire code tells of it: whether it passes,   *)
(* and whether the transmitter did begin a superframe with it.  A          *)
(* superframe is the number of its first frame.  The Reed-Solomon code,    *)
(* the CRC of an AU and the AAC decoder are choices of outcomes.           *)
(***************************************************************************)
EXTENDS Integers, Sequences

CONSTANTS BitRateN,     \* d_bit_rate_n: the bit rate in units of 8 kbit/s
          Sent,         \* the header the transmitter sends
          Noise,        \* headers read where no superframe begins
          InCap,        \* buffers: logical frames before the fire code,
          Cap,          \* superframes before and after Reed-Solomon
          ErrorCounts   \* numbers of corrected errors

\* A buffer holds what the block behind it asks for, or the flowgraph would
\* not start: five frames, one superframe, an output multiple of mp4_decode_bs.
SuperframeSize == 110 * BitRateN
OutputMultiple == 960 * 6

\* A header: dac_rate, sbr_flag, mpeg_surround and the AU addresses it spells
\* out (those of the first AU and of the end are implied).
Header == [dac : 0..1, sbr : 0..1, surround : 0..7, middle : Seq(0..4095)]
NumAus(h) == CASE h.dac = 0 /\ h.sbr = 0 -> 4
               [] h.dac = 0 /\ h.sbr = 1 -> 2
               [] h.dac = 1 /\ h.sbr = 0 -> 6
               [] h.dac = 1 /\ h.sbr = 1 -> 3
FirstAu(h) == CASE h.dac = 0 /\ h.sbr = 0 -> 8
                [] h.dac = 0 /\ h.sbr = 1 -> 5
                [] h.dac = 1 /\ h.sbr = 0 -> 11
                [] h.dac = 1 /\ h.sbr = 1 -> 6

\* d_au_start[0 .. d_num_aus]; AU i lies between the addresses i and i + 1.
AuStart(h) == <<FirstAu(h)>> \o h.middle \o <<SuperframeSize>>

\* aac_frame_length: without the two bytes of the CRC.
FrameLength(h, i) == AuStart(h)[i + 1] - AuStart(h)[i] - 2

\* The checks of general_work() that end the thread with an exception.
Invalid(h, i) == AuStart(h)[i + 1] < AuStart(h)[i]
OutOfRange(h, i) == FrameLength(h, i) >= 960 \/ FrameLength(h, i) < 0

\* The transmitter sends AUs in order and of a length that the decoder
\* accepts, without a surround configuration it does not know.
ASSUME DabPlusAssumption ==
    /\ BitRateN \in 1..24    \* 192 kbit/s is the most DAB+ has
    /\ InCap \in Nat /\ InCap >= 5
    /\ Cap \in Nat \ {0} /\ SuperframeSize * Cap >= OutputMultiple
    /\ ErrorCounts \subseteq Nat /\ 0 \in ErrorCounts
    /\ Sent \in Header /\ Noise \subseteq Header
    /\ \A h \in Noise \cup {Sent} : Len(h.middle) = NumAus(h) - 1
    /\ Sent.surround \in 0..2
    /\ \A i \in 1..NumAus(Sent) : ~Invalid(Sent, i) /\ ~OutOfRange(Sent, i)

VARIABLES phase,       \* where in a superframe reception began
          fed,         \* the logical frames received
          fcRead,      \* firecode_check_bb: nitems_read(0) in frames
          request,     \* the frames the call in progress was given, or 0
          d_nconsumed, d_nproduced, d_firecode_passed,
          starts,      \* the superframes copied to its output
          fcWritten,   \* nitems_written(0) in superframes
          rsRead,      \* reed_solomon_decode_bb: superframes read and written
          d_corrected_errors,
          mp4Read,     \* mp4_decode_bs: nitems_read(0) in superframes
          d_first,     \* its output is not tagged yet
          header,      \* of the superframe being decoded
          au,          \* the AU that is next, or 0 between calls
          aac,         \* the AAC decoder is initialised, for which sbr_flag
          d_nsamples_produced,
          dead,        \* an exception has ended the thread
          last         \* the AU played last, as <<superframe, AU>>

fire == <<fcRead, request, d_nconsumed, d_nproduced, d_firecode_passed,
          starts, fcWritten>>
reed == <<rsRead, d_corrected_errors>>
mp4 == <<mp4Read, d_first, header, au, aac, d_nsamples_produced, dead, last>>
vars == <<phase, fed, fire, reed, mp4>>

Init ==
    /\ phase \in 0..4 /\ fed = <<>>
    /\ fcRead = 0 /\ request = 0 /\ d_nconsumed = 0 /\ d_nproduced = 0
    /\ d_firecode_passed \in BOOLEAN    \* the constructor does not set it
    /\ starts = <<>> /\ fcWritten = 0
    /\ rsRead = 0 /\ d_corrected_errors = 0
    /\ mp4Read = 0 /\ d_first = TRUE /\ header = Sent /\ au = 0
    /\ aac = "closed" /\ d_nsamples_produced = 0 /\ dead = FALSE /\ last = <<0, 0>>

-----------------------------------------------------------------------------
\* A logical frame arrives.  Every fifth begins a superframe; that the fire
\* code passes says otherwise when it was damaged or by chance.
BeginsSuperframe(n) == (n + phase) % 5 = 0
Receive ==
    /\ Len(fed) - fcRead < InCap
    /\ \E pass \in BOOLEAN :
          fed' = Append(fed, [head |-> BeginsSuperframe(Len(fed)), pass |-> pass])
    /\ UNCHANGED <<phase, fire, reed, mp4>>

-----------------------------------------------------------------------------
\* firecode_check_bb::general_work(): a call with 5 * k frames, which is as
\* much output as the multiple allows and, by forecast(), as much input.
CheckBegin ==
    /\ request = 0
    /\ \E k \in 1..(Cap - (Len(starts) - rsRead)) :
          5 * k <= Len(fed) - fcRead /\ request' = 5 * k
    /\ d_nconsumed' = 0 /\ d_nproduced' = 0
    /\ UNCHANGED <<phase, fed, fcRead, d_firecode_passed, starts, fcWritten, reed, mp4>>

\* The condition of the loop: five frames are left of the request.
\* Variant: it needs a sixth.  Variant: it makes do with four.
MoreFramesSix == d_nconsumed < request - 5
MoreFramesFour == d_nconsumed <= request - 4
MoreFrames == d_nconsumed < request - 4

\* One round of the loop.  Variant: the search goes on after a passing frame.
CheckFrameOne ==
    /\ request > 0 /\ MoreFrames
    /\ LET n == fcRead + d_nconsumed + 1 IN
       IF fed[n].pass
       THEN /\ starts' = Append(starts, n)
            /\ d_nproduced' = d_nproduced + 5 /\ d_nconsumed' = d_nconsumed + 1
            /\ d_firecode_passed' = TRUE
       ELSE /\ d_nconsumed' = d_nconsumed + 1 /\ d_firecode_passed' = FALSE
            /\ UNCHANGED <<starts, d_nproduced>>
    /\ UNCHANGED <<phase, fed, fcRead, request, fcWritten, reed, mp4>>
CheckFrame ==
    /\ request > 0 /\ MoreFrames
    /\ LET n == fcRead + d_nconsumed + 1 IN
       IF fed[n].pass
       THEN /\ starts' = Append(starts, n)
            /\ d_nproduced' = d_nproduced + 5 /\ d_nconsumed' = d_nconsumed + 5
            /\ d_firecode_passed' = TRUE
       ELSE /\ d_nconsumed' = d_nconsumed + 1 /\ d_firecode_passed' = FALSE
            /\ UNCHANGED <<starts, d_nproduced>>
    /\ UNCHANGED <<phase, fed, fcRead, request, fcWritten, reed, mp4>>

\* consume_each() and the return.
CheckEnd ==
    /\ request > 0 /\ ~MoreFrames
    /\ fcRead' = fcRead + d_nconsumed
    /\ fcWritten' = fcWritten + d_nproduced \div 5
    /\ request' = 0
    /\ UNCHANGED <<phase, fed, d_nconsumed, d_nproduced, d_firecode_passed, starts,
                   reed, mp4>>

-----------------------------------------------------------------------------
\* reed_solomon_decode_bb::general_work() on k superframes; the number of
\* errors is that of the last of them.  It writes a superframe even if it
\* could not be repaired.
Repair ==
    /\ \E k \in 1..(fcWritten - rsRead) :
          rsRead + k - mp4Read <= Cap /\ rsRead' = rsRead + k
    /\ d_corrected_errors' \in ErrorCounts
    /\ UNCHANGED <<phase, fed, fire, mp4>>

-----------------------------------------------------------------------------
\* The superframe a call of mp4_decode_bs reads: "in" lies one superframe
\* behind the first pending one.
Current == mp4Read + 2
Genuine(q) == q <= Len(starts) /\ fed[starts[q]].head

\* forecast() wants as many bytes as samples are to be produced.
\* Variant: it asks for the superframe that is read, and one more is missing.
EnoughInputOnce == SuperframeSize * (rsRead - mp4Read) >= SuperframeSize
EnoughInput == SuperframeSize * (rsRead - mp4Read) >= OutputMultiple

DecodeBegin ==
    /\ ~dead /\ au = 0 /\ EnoughInput
    /\ header' \in IF Genuine(Current) THEN {Sent} ELSE Noise
    /\ au' = 1 /\ d_nsamples_produced' = 0 /\ d_first' = FALSE
    /\ UNCHANGED <<phase, fed, fire, reed, mp4Read, aac, dead, last>>

\* An address or a length that makes no sense throws.
Throw ==
    /\ ~dead /\ au \in 1..NumAus(header)
    /\ Invalid(header, au) \/ OutOfRange(header, au)
    /\ dead' = TRUE
    /\ UNCHANGED <<phase, fed, fire, reed, mp4Read, d_first, header, au, aac,
                   d_nsamples_produced, last>>

\* The AAC decoder is initialised with the header of the first AU it gets and
\* keeps to that; the library is taken to accept what the transmitter sends.
Configured == IF aac # "closed" THEN aac
              ELSE IF header.sbr = 1 THEN "sbr" ELSE "plain"

\* An AU with a wrong CRC is dumped; that is all of them where no superframe
\* begins.  An AU that the AAC decoder rejects has initialised it.
Dump ==
    /\ ~dead /\ au \in 1..NumAus(header)
    /\ ~Invalid(header, au) /\ ~OutOfRange(header, au)
    /\ au' = au + 1
    /\ aac' = aac \/ (Genuine(Current) /\ aac' = Configured)
    /\ UNCHANGED <<phase, fed, fire, reed, mp4Read, d_first, header,
                   d_nsamples_produced, dead, last>>

\* MP42PCM(): a stereo AU is 960 samples a channel, or twice that with
\* spectral band replication.  Variant: the two channels are not told apart.
SamplesOfBoth(sbr) == IF sbr = "sbr" THEN 3840 ELSE 1920
Samples(sbr) == IF sbr = "sbr" THEN 1920 ELSE 960
Play ==
    /\ ~dead /\ au \in 1..NumAus(header)
    /\ ~Invalid(header, au) /\ ~OutOfRange(header, au)
    /\ Genuine(Current)
    /\ aac' = Configured
    /\ d_nsamples_produced' = d_nsamples_produced + Samples(aac')
    /\ au' = au + 1 /\ last' = <<Current, au>>
    /\ UNCHANGED <<phase, fed, fire, reed, mp4Read, d_first, header, dead>>

\* The end of the call: one superframe is consumed.
\* Variant: the superframe is not counted and nothing is consumed.
DecodeEndUncounted ==
    /\ ~dead /\ au > NumAus(header)
    /\ au' = 0
    /\ UNCHANGED <<phase, fed, fire, reed, mp4Read, d_first, header, aac,
                   d_nsamples_produced, dead, last>>
DecodeEnd ==
    /\ ~dead /\ au > NumAus(header)
    /\ mp4Read' = mp4Read + 1 /\ au' = 0
    /\ UNCHANGED <<phase, fed, fire, reed, d_first, header, aac,
                   d_nsamples_produced, dead, last>>

Check == CheckBegin \/ CheckFrame \/ CheckEnd
Decode == DecodeBegin \/ Throw \/ Dump \/ Play \/ DecodeEnd
Next == Receive \/ Check \/ Repair \/ Decode
Spec == Init /\ [][Next]_vars

-----------------------------------------------------------------------------
TypeOK ==
    /\ phase \in 0..4
    /\ fed \in Seq([head : BOOLEAN, pass : BOOLEAN])
    /\ fcRead \in 0..Len(fed)
    /\ request \in Nat /\ fcRead + request <= Len(fed)
    /\ d_nconsumed \in Nat /\ d_nproduced \in Nat /\ d_firecode_passed \in BOOLEAN
    /\ starts \in Seq(1..Len(fed))
    /\ mp4Read \in Nat /\ rsRead \in Nat /\ fcWritten \in Nat
    /\ mp4Read <= rsRead /\ rsRead <= fcWritten /\ fcWritten <= Len(starts)
    /\ d_corrected_errors \in ErrorCounts
    /\ d_first \in BOOLEAN /\ header \in Noise \cup {Sent}
    /\ au \in 0..7 /\ aac \in {"closed", "plain", "sbr"}
    /\ d_nsamples_produced \in Nat /\ dead \in BOOLEAN
    /\ last \in Nat \X Nat

\* However the stream is cut into calls, the superframes are those a reader
\* of the whole stream would take: what they copy are whole superframes of
\* received frames that do not overlap; each begins with a frame that passes
\* the fire code; and a frame that passes is only left out if it lies within
\* a superframe (general_work() of firecode_check_bb).
Searched == fcRead + (IF request = 0 THEN 0 ELSE d_nconsumed)
FindsSuperframes ==
    /\ \A q \in 1..Len(starts) : starts[q] + 4 <= Searched /\ fed[starts[q]].pass
    /\ \A q \in 1..(Len(starts) - 1) : starts[q] + 5 <= starts[q + 1]
    /\ \A n \in 1..Searched : fed[n].pass =>
          \E q \in 1..Len(starts) : n \in starts[q]..(starts[q] + 4)

\* mp4_decode_bs reads one superframe ahead of what it consumes, and still
\* what it reads has been written: forecast() asks for more than one.
ReadsPending == au > 0 => Current <= rsRead

\* A call produces no more samples than it has room for, an output multiple,
\* although it asks for that room before it knows the header.
OutputFits == d_nsamples_produced <= OutputMultiple

\* Sound is played in the order it was sent: AU after AU, superframe after
\* superframe, none of them twice.
PlaysInOrder ==
    [][last' # last => \/ last'[1] > last[1]
                       \/ last'[1] = last[1] /\ last'[2] > last[2]]_vars
=============================================================================
