--------------------------- MODULE DabPlusProofs ----------------------------
(***************************************************************************)
(* Proofs about DabPlus: what each variable may hold, that the fire code   *)
(* finds the superframes of the stream in whatever pieces it gets it, that *)
(* mp4_decode_bs only reads what was written, produces no more than it has *)
(* room for and plays in order, for every station and all buffer sizes.    *)
(***************************************************************************)
EXTENDS DabPlus, TLAPS

(* Between the calls of firecode_check_bb all that was copied is written;  *)
(* during a call what was copied and consumed stays within the request.    *)
InCall ==
    /\ request = 0 => fcWritten = Len(starts)
    /\ request > 0 => /\ d_nconsumed <= request
                      /\ \E c \in Nat : /\ d_nproduced = 5 * c
                                        /\ fcWritten + c = Len(starts)

(* The AAC decoder is configured by the transmitter's header only, and a   *)
(* call that has come to AU number au has produced at most au - 1 AUs.     *)
SentConfiguration == IF Sent.sbr = 1 THEN "sbr" ELSE "plain"
Production ==
    /\ aac \in {"closed", SentConfiguration}
    /\ au > 0 => /\ Genuine(Current) => header = Sent
                 /\ au <= NumAus(header) + 1
    /\ au = 0 => d_nsamples_produced <= OutputMultiple
    /\ au > 0 /\ Genuine(Current) =>
          d_nsamples_produced <= (au - 1) * Samples(SentConfiguration)
    /\ au > 0 /\ ~Genuine(Current) => d_nsamples_produced = 0

(* What was played last lies before what is played next.                   *)
Played ==
    /\ au = 0 => last[1] < Current
    /\ au > 0 => last[1] < Current \/ (last[1] = Current /\ last[2] < au)

IInv == /\ TypeOK /\ FindsSuperframes /\ InCall
        /\ ReadsPending /\ Production /\ Played

-----------------------------------------------------------------------------
(* A header announces two to six AUs, and all that the transmitter's header *)
(* announces is at most an output multiple of samples.                      *)
LEMMA AusFit ==
    /\ \A h \in Header : NumAus(h) \in 2..6
    /\ NumAus(Sent) * Samples(SentConfiguration) <= OutputMultiple
<1>1. \A h \in Header : NumAus(h) \in 2..6
  BY DEF Header, NumAus
<1>2. Sent.dac \in {0, 1} /\ Sent.sbr \in {0, 1}
  BY DabPlusAssumption DEF Header
<1>3. CASE Sent.sbr = 1
  <2>1. Samples(SentConfiguration) = 1920
    BY <1>3 DEF Samples, SentConfiguration
  <2>2. NumAus(Sent) \in {2, 3}
    BY <1>2, <1>3 DEF NumAus
  <2> QED BY <1>1, <2>1, <2>2 DEF OutputMultiple
<1>4. CASE Sent.sbr = 0
  <2>1. Samples(SentConfiguration) = 960
    BY <1>4 DEF Samples, SentConfiguration
  <2>2. NumAus(Sent) \in {4, 6}
    BY <1>2, <1>4 DEF NumAus
  <2> QED BY <1>1, <2>1, <2>2 DEF OutputMultiple
<1> QED BY <1>2, <1>3, <1>4

(* Enough input for a call is at least two superframes: one superframe of   *)
(* the fastest station is shorter than an output multiple.                  *)
LEMMA TwoPending == TypeOK /\ EnoughInput => Current <= rsRead
<1> SUFFICES ASSUME TypeOK, EnoughInput PROVE mp4Read + 2 <= rsRead
  BY DEF Current
<1> DEFINE d == rsRead - mp4Read
<1>1. d \in Nat /\ BitRateN \in 1..24 /\ mp4Read \in Nat /\ rsRead \in Nat
  BY DabPlusAssumption DEF TypeOK
<1>2. 110 * BitRateN * d >= 5760
  BY DEF EnoughInput, SuperframeSize, OutputMultiple
<1>3. d # 0
  <2> SUFFICES ASSUME d = 0 PROVE FALSE OBVIOUS
  <2>1. 110 * BitRateN * d = 0  BY <1>1
  <2> QED BY <1>2, <2>1
<1>4. d # 1
  <2> SUFFICES ASSUME d = 1 PROVE FALSE OBVIOUS
  <2>1. 110 * BitRateN * d = 110 * BitRateN  BY <1>1
  <2> QED BY <1>1, <1>2, <2>1
<1> QED BY <1>1, <1>3, <1>4

-----------------------------------------------------------------------------
LEMMA Initially == Init => IInv
<1> SUFFICES ASSUME Init PROVE IInv OBVIOUS
<1>1. TypeOK
  <2>1. fed \in Seq([head : BOOLEAN, pass : BOOLEAN]) /\ Len(fed) = 0
    BY DEF Init
  <2>2. starts \in Seq(1..Len(fed)) /\ Len(starts) = 0
    BY DEF Init
  <2>3. last \in Nat \X Nat
    BY DEF Init
  <2>4. /\ phase \in 0..4 /\ fcRead \in 0..Len(fed)
        /\ request \in Nat /\ fcRead + request <= Len(fed)
        /\ d_nconsumed \in Nat /\ d_nproduced \in Nat /\ d_firecode_passed \in BOOLEAN
    BY <2>1 DEF Init
  <2>5. /\ mp4Read \in Nat /\ rsRead \in Nat /\ fcWritten \in Nat
        /\ mp4Read <= rsRead /\ rsRead <= fcWritten /\ fcWritten <= Len(starts)
    BY <2>2 DEF Init
  <2>6. /\ d_corrected_errors \in ErrorCounts /\ d_first \in BOOLEAN
        /\ header \in Noise \cup {Sent}
        /\ au \in 0..7 /\ aac \in {"closed", "plain", "sbr"}
        /\ d_nsamples_produced \in Nat /\ dead \in BOOLEAN
    <3>1. 0 \in ErrorCounts
      BY DabPlusAssumption
    <3>2. d_first \in BOOLEAN /\ dead \in BOOLEAN
      BY Zenon DEF Init
    <3> QED BY <3>1, <3>2 DEF Init
  <2> QED BY <2>1, <2>2, <2>3, <2>4, <2>5, <2>6 DEF TypeOK
<1>2. FindsSuperframes
  BY DEF Init, FindsSuperframes, Searched
<1>3. InCall /\ ReadsPending /\ Production /\ Played
  BY DEF Init, InCall, ReadsPending, Production, Played, Current, OutputMultiple
<1> QED BY <1>1, <1>2, <1>3 DEF IInv

(* What mp4_decode_bs has read stays what it is when its variables stay and *)
(* the blocks before it go on.                                              *)
LEMMA DecoderKept ==
    ASSUME IInv, UNCHANGED mp4, rsRead' \in Nat, rsRead <= rsRead',
           Len(starts) <= Len(starts'),
           \A p \in 1..Len(starts) : starts'[p] = starts[p],
           \A n \in 1..Len(fed) : fed'[n] = fed[n]
    PROVE  ReadsPending' /\ Production' /\ Played'
<1>1. ReadsPending' /\ Played'
  BY DEF IInv, TypeOK, ReadsPending, Played, Current, mp4
<1>2. CASE au = 0
  BY <1>1, <1>2 DEF IInv, TypeOK, Production, mp4
<1>3. CASE au > 0
  <2>1. Current \in 1..Len(starts) /\ Current' = Current
    BY <1>3 DEF IInv, TypeOK, ReadsPending, Current, mp4
  <2>2. Genuine(Current)' <=> Genuine(Current)
    <3>1. Genuine(Current)' <=> fed'[starts'[Current]].head
      BY <2>1 DEF Genuine, IInv, TypeOK
    <3>2. Genuine(Current) <=> fed[starts[Current]].head
      BY <2>1 DEF Genuine, IInv, TypeOK
    <3>3. starts'[Current] = starts[Current] /\ starts[Current] \in 1..Len(fed)
      BY <2>1 DEF IInv, TypeOK
    <3> QED BY <3>1, <3>2, <3>3
  <2> QED BY <1>1, <1>3, <2>2 DEF IInv, Production, mp4
<1>4. au = 0 \/ au > 0
  BY DEF IInv, TypeOK
<1> QED BY <1>1, <1>2, <1>3, <1>4

LEMMA ReceiveStep == IInv /\ Receive => IInv'
<1> SUFFICES ASSUME IInv, Receive PROVE IInv' OBVIOUS
<1> USE DEF IInv
<1>1. PICK pass \in BOOLEAN :
          fed' = Append(fed, [head |-> BeginsSuperframe(Len(fed)), pass |-> pass])
  BY DEF Receive
<1>2. /\ fed' \in Seq([head : BOOLEAN, pass : BOOLEAN]) /\ Len(fed') = Len(fed) + 1
      /\ \A n \in 1..Len(fed) : fed'[n] = fed[n]
  <2>1. BeginsSuperframe(Len(fed)) \in BOOLEAN
    BY DEF BeginsSuperframe
  <2> QED BY <1>1, <2>1 DEF TypeOK
<1>3. /\ UNCHANGED <<phase, fcRead, request, d_nconsumed, d_nproduced>>
      /\ UNCHANGED <<d_firecode_passed, starts, fcWritten, rsRead>>
      /\ UNCHANGED <<d_corrected_errors, mp4, mp4Read, d_first, header, au, aac>>
      /\ UNCHANGED <<d_nsamples_produced, dead, last>>
  BY DEF Receive, fire, reed, mp4
<1>4. starts \in Seq(1..Len(fed'))
  BY <1>2 DEF TypeOK
<1>5. TypeOK'
  BY <1>2, <1>3, <1>4 DEF TypeOK
<1>6. FindsSuperframes'
  <2>1. Searched' = Searched /\ Searched \in 0..Len(fed)
    BY <1>3 DEF Searched, InCall, TypeOK
  <2>2. \A q \in 1..Len(starts) : starts[q] \in 1..Len(fed)
    BY DEF TypeOK
  <2>3. \A q \in 1..Len(starts) : starts[q] + 4 <= Searched /\ fed'[starts[q]].pass
    BY <1>2, <2>2 DEF FindsSuperframes
  <2>4. \A n \in 1..Searched : fed'[n].pass =>
           \E q \in 1..Len(starts) : n \in starts[q]..(starts[q] + 4)
    <3>1. \A n \in 1..Searched : fed'[n] = fed[n]
      BY <1>2, <2>1 DEF TypeOK
    <3> QED BY <3>1 DEF FindsSuperframes
  <2> QED BY <1>3, <2>1, <2>3, <2>4 DEF FindsSuperframes
<1>7. InCall'
  BY <1>3 DEF InCall
<1>8. ReadsPending' /\ Production' /\ Played'
  BY <1>2, <1>3, DecoderKept DEF TypeOK
<1> QED BY <1>5, <1>6, <1>7, <1>8

LEMMA CheckBeginStep == IInv /\ CheckBegin => IInv'
<1> SUFFICES ASSUME IInv, CheckBegin PROVE IInv' OBVIOUS
<1> USE DEF IInv
<1>1. PICK k \in Nat \ {0} : 5 * k <= Len(fed) - fcRead /\ request' = 5 * k
  BY DabPlusAssumption DEF CheckBegin, TypeOK
<1>2. /\ request = 0 /\ d_nconsumed' = 0 /\ d_nproduced' = 0
      /\ UNCHANGED <<phase, fed, fcRead, d_firecode_passed, starts, fcWritten>>
      /\ UNCHANGED <<rsRead, d_corrected_errors, mp4, mp4Read, d_first, header>>
      /\ UNCHANGED <<au, aac, d_nsamples_produced, dead, last>>
  BY DEF CheckBegin, reed, mp4
<1>3. TypeOK'
  BY <1>1, <1>2 DEF TypeOK
<1>4. FindsSuperframes'
  <2>1. Searched' = Searched
    BY <1>1, <1>2 DEF Searched, TypeOK
  <2> QED BY <1>2, <2>1 DEF FindsSuperframes
<1>5. InCall'
  <2>1. d_nproduced' = 5 * 0 /\ fcWritten' + 0 = Len(starts')
    BY <1>2 DEF InCall, TypeOK
  <2> QED BY <1>1, <1>2, <2>1 DEF InCall
<1>6. ReadsPending' /\ Production' /\ Played'
  BY <1>2, DecoderKept DEF TypeOK
<1> QED BY <1>3, <1>4, <1>5, <1>6

(* The heart of the search: a frame that passes begins a superframe behind  *)
(* all others and settles five frames, a frame that fails settles itself.   *)
LEMMA CheckFrameStep == IInv /\ CheckFrame => IInv'
<1> SUFFICES ASSUME IInv, CheckFrame PROVE IInv' OBVIOUS
<1> USE DEF IInv
<1> DEFINE n == fcRead + d_nconsumed + 1
<1>1. /\ request > 0 /\ d_nconsumed < request - 4
      /\ UNCHANGED <<phase, fed, fcRead, request, fcWritten>>
      /\ UNCHANGED <<rsRead, d_corrected_errors, mp4, mp4Read, d_first, header>>
      /\ UNCHANGED <<au, aac, d_nsamples_produced, dead, last>>
  BY DEF CheckFrame, MoreFrames, reed, mp4
<1>2. n \in Nat /\ n \in 1..Len(fed) /\ n + 4 <= Len(fed) /\ Searched = n - 1
  BY <1>1 DEF TypeOK, Searched
<1>0. Len(starts) \in Nat /\ \A q \in 1..Len(starts) : starts[q] \in Nat
  BY DEF TypeOK
<1>5. (fed[n].pass /\ CheckFrame) => starts' = Append(starts, n)
  BY DEF CheckFrame
<1>6. fed[n].pass => /\ d_nproduced' = d_nproduced + 5
                     /\ d_nconsumed' = d_nconsumed + 5 /\ d_firecode_passed' = TRUE
  BY DEF CheckFrame
<1>7. ~fed[n].pass => /\ UNCHANGED <<starts, d_nproduced>>
                      /\ d_nconsumed' = d_nconsumed + 1 /\ d_firecode_passed' = FALSE
  BY DEF CheckFrame
<1>8. /\ fed[n].pass => fcRead + d_nconsumed' = n + 4
      /\ ~fed[n].pass => fcRead + d_nconsumed' = n
  BY <1>6, <1>7 DEF TypeOK
<1> HIDE DEF n
<1>3. CASE fed[n].pass
  <2>1. /\ starts' = Append(starts, n) /\ d_nproduced' = d_nproduced + 5
        /\ d_nconsumed' = d_nconsumed + 5 /\ d_firecode_passed' = TRUE
    BY <1>3, <1>5, <1>6
  <2>2. /\ starts' \in Seq(1..Len(fed)) /\ Len(starts') = Len(starts) + 1
        /\ \A q \in 1..Len(starts) : starts'[q] = starts[q]
        /\ starts'[Len(starts) + 1] = n
    BY <1>2, <2>1 DEF TypeOK
  <2>3. TypeOK'
    BY <1>1, <2>1, <2>2 DEF TypeOK
  <2>4. FindsSuperframes'
    <3>1. Searched' = n + 4
      BY <1>1, <1>3, <1>8 DEF Searched, TypeOK
    <3>2. \A q \in 1..Len(starts') : starts'[q] + 4 <= n + 4 /\ fed[starts'[q]].pass
      <4>1. \A q \in 1..Len(starts) : starts[q] + 4 <= n - 1 /\ starts[q] \in Nat
        BY <1>0, <1>2 DEF FindsSuperframes
      <4>2. \A q \in 1..Len(starts) : fed[starts[q]].pass
        BY DEF FindsSuperframes
      <4>3. \A q \in 1..Len(starts') : q \in 1..Len(starts) \/ q = Len(starts) + 1
        BY <1>0, <2>2
      <4>4. \A q \in 1..Len(starts') : fed[starts'[q]].pass
        BY <1>3, <2>2, <4>2, <4>3, Zenon
      <4>5. \A q \in 1..Len(starts') : starts'[q] + 4 <= n + 4
        <5> TAKE q \in 1..Len(starts')
        <5>1. CASE q = Len(starts) + 1
          BY <1>2, <2>2, <5>1
        <5>2. CASE q \in 1..Len(starts)
          <6>1. starts'[q] = starts[q]
            BY <2>2, <5>2
          <6>2. starts[q] + 4 <= n - 1 /\ starts[q] \in Nat
            BY <4>1, <5>2
          <6> QED BY <1>2, <6>1, <6>2
        <5> QED BY <4>3, <5>1, <5>2
      <4> QED BY <4>4, <4>5
    <3>3. \A q \in 1..(Len(starts') - 1) : starts'[q] + 5 <= starts'[q + 1]
      <4>1. SUFFICES ASSUME NEW q \in 1..Len(starts)
                     PROVE  starts'[q] + 5 <= starts'[q + 1]
        BY <1>0, <2>2
      <4>2. CASE q = Len(starts)
        <5>1. starts[q] + 4 <= n - 1 /\ starts[q] \in Nat
          BY <1>0, <1>2 DEF FindsSuperframes
        <5>2. starts'[q] = starts[q] /\ starts'[q + 1] = n
          BY <2>2, <4>2
        <5> QED BY <1>2, <5>1, <5>2
      <4>3. CASE q < Len(starts)
        <5>1. q \in 1..(Len(starts) - 1) /\ q + 1 \in 1..Len(starts)
          BY <4>3 DEF TypeOK
        <5> QED BY <2>2, <5>1 DEF FindsSuperframes
      <4> QED BY <1>0, <4>2, <4>3
    <3>4. \A m \in 1..(n + 4) : fed[m].pass =>
             \E q \in 1..Len(starts') : m \in starts'[q]..(starts'[q] + 4)
      <4>1. SUFFICES ASSUME NEW m \in 1..(n + 4), fed[m].pass
                     PROVE  \E q \in 1..Len(starts') : m \in starts'[q]..(starts'[q] + 4)
        OBVIOUS
      <4>2. CASE m < n
        <5>1. PICK q \in 1..Len(starts) : m \in starts[q]..(starts[q] + 4)
          BY <1>2, <4>1, <4>2 DEF FindsSuperframes
        <5>2. q \in 1..Len(starts') /\ starts'[q] = starts[q]
          BY <1>0, <2>2
        <5> QED BY <5>1, <5>2
      <4>3. CASE m >= n
        <5>1. m \in starts'[Len(starts) + 1]..(starts'[Len(starts) + 1] + 4)
          BY <1>2, <2>2, <4>3
        <5>2. Len(starts) + 1 \in 1..Len(starts')
          BY <1>0, <2>2
        <5> QED BY <5>1, <5>2
      <4> QED BY <1>2, <4>2, <4>3
    <3> QED BY <1>1, <3>1, <3>2, <3>3, <3>4 DEF FindsSuperframes
  <2>5. InCall'
    <3>1. PICK c \in Nat : d_nproduced = 5 * c /\ fcWritten + c = Len(starts)
      BY <1>1 DEF InCall
    <3>2. /\ c + 1 \in Nat /\ d_nproduced' = 5 * (c + 1)
          /\ fcWritten' + (c + 1) = Len(starts')
      <4>1. fcWritten \in Nat /\ fcWritten' = fcWritten
        BY <1>1 DEF TypeOK
      <4> QED BY <1>0, <2>1, <2>2, <3>1, <4>1
    <3>3. d_nconsumed' <= request'
      BY <1>1, <2>1 DEF TypeOK
    <3> QED BY <1>1, <3>2, <3>3 DEF InCall
  <2>6. ReadsPending' /\ Production' /\ Played'
    BY <1>1, <2>2, DecoderKept DEF TypeOK
  <2> QED BY <2>3, <2>4, <2>5, <2>6
<1>4. CASE ~fed[n].pass
  <2>1. /\ UNCHANGED <<starts, d_nproduced>>
        /\ d_nconsumed' = d_nconsumed + 1 /\ d_firecode_passed' = FALSE
    BY <1>4, <1>7
  <2>2. TypeOK'
    <3>1. d_nconsumed' \in Nat
      BY <2>1 DEF TypeOK
    <3>2. d_firecode_passed' \in BOOLEAN
      BY <2>1, Zenon
    <3> QED BY <1>1, <2>1, <3>1, <3>2 DEF TypeOK
  <2>3. FindsSuperframes'
    <3>1. Searched' = n
      BY <1>1, <1>4, <1>8 DEF Searched, TypeOK
    <3>2. \A q \in 1..Len(starts) : starts[q] + 4 <= n /\ fed[starts[q]].pass
      BY <1>0, <1>2 DEF FindsSuperframes
    <3>3. \A m \in 1..n : m \in 1..Searched \/ m = n
      BY <1>2
    <3> QED BY <1>1, <1>4, <2>1, <3>1, <3>2, <3>3 DEF FindsSuperframes
  <2>4. InCall'
    BY <1>1, <2>1 DEF InCall, TypeOK
  <2>5. ReadsPending' /\ Production' /\ Played'
    BY <1>1, <2>1, DecoderKept DEF TypeOK
  <2> QED BY <2>2, <2>3, <2>4, <2>5
<1> QED BY <1>3, <1>4

LEMMA CheckEndStep == IInv /\ CheckEnd => IInv'
<1> SUFFICES ASSUME IInv, CheckEnd PROVE IInv' OBVIOUS
<1> USE DEF IInv
<1>1. /\ request > 0 /\ request' = 0 /\ fcRead' = fcRead + d_nconsumed
      /\ fcWritten' = fcWritten + d_nproduced \div 5
      /\ UNCHANGED <<phase, fed, d_nconsumed, d_nproduced, d_firecode_passed>>
      /\ UNCHANGED <<starts, rsRead, d_corrected_errors, mp4, mp4Read, d_first>>
      /\ UNCHANGED <<header, au, aac, d_nsamples_produced, dead, last>>
  BY DEF CheckEnd, reed, mp4
<1>2. fcWritten' = Len(starts)
  <2>1. PICK c \in Nat : d_nproduced = 5 * c /\ fcWritten + c = Len(starts)
    BY <1>1 DEF InCall
  <2> QED BY <1>1, <2>1 DEF TypeOK
<1>3. TypeOK'
  BY <1>1, <1>2 DEF TypeOK, InCall
<1>4. FindsSuperframes'
  <2>1. Searched' = Searched
    BY <1>1 DEF Searched, TypeOK
  <2> QED BY <1>1, <2>1 DEF FindsSuperframes
<1>5. InCall'
  BY <1>1, <1>2 DEF InCall
<1>6. ReadsPending' /\ Production' /\ Played'
  BY <1>1, DecoderKept DEF TypeOK
<1> QED BY <1>3, <1>4, <1>5, <1>6

LEMMA RepairStep == IInv /\ Repair => IInv'
<1> SUFFICES ASSUME IInv, Repair PROVE IInv' OBVIOUS
<1> USE DEF IInv
<1>1. /\ rsRead' \in Nat /\ rsRead <= rsRead' /\ rsRead' <= fcWritten
      /\ d_corrected_errors' \in ErrorCounts
  BY DEF Repair, TypeOK
<1>2. /\ UNCHANGED <<phase, fed, fcRead, request, d_nconsumed, d_nproduced>>
      /\ UNCHANGED <<d_firecode_passed, starts, fcWritten, mp4, mp4Read, d_first>>
      /\ UNCHANGED <<header, au, aac, d_nsamples_produced, dead, last>>
  BY DEF Repair, fire, mp4
<1>3. TypeOK'
  BY <1>1, <1>2 DEF TypeOK
<1>4. FindsSuperframes' /\ InCall'
  BY <1>2 DEF FindsSuperframes, Searched, InCall
<1>5. ReadsPending' /\ Production' /\ Played'
  BY <1>1, <1>2, DecoderKept DEF TypeOK
<1> QED BY <1>3, <1>4, <1>5

-----------------------------------------------------------------------------
LEMMA FireKept ==
    ASSUME IInv, UNCHANGED <<fed, fire>>
    PROVE  FindsSuperframes' /\ InCall'
BY DEF IInv, FindsSuperframes, Searched, InCall, fire

LEMMA DecodeBeginStep == IInv /\ DecodeBegin => IInv'
<1> SUFFICES ASSUME IInv, DecodeBegin PROVE IInv' OBVIOUS
<1> USE DEF IInv
<1>1. /\ au = 0 /\ au' = 1 /\ d_nsamples_produced' = 0 /\ d_first' = FALSE
      /\ header' \in IF Genuine(Current) THEN {Sent} ELSE Noise
      /\ UNCHANGED <<phase, fed, fire, fcRead, request, d_nconsumed, d_nproduced>>
      /\ UNCHANGED <<d_firecode_passed, starts, fcWritten, rsRead>>
      /\ UNCHANGED <<d_corrected_errors, mp4Read, aac, dead, last>>
  BY DEF DecodeBegin, fire, reed
<1>2. header' \in Noise \cup {Sent} /\ header' \in Header
  BY <1>1, DabPlusAssumption
<1>3. Current' = Current /\ (Genuine(Current)' <=> Genuine(Current))
  BY <1>1 DEF Current, Genuine
<1>4. TypeOK'
  <2>1. d_first' \in BOOLEAN
    BY <1>1, Zenon
  <2> QED BY <1>1, <1>2, <2>1 DEF TypeOK
<1>5. FindsSuperframes' /\ InCall'
  BY <1>1, FireKept
<1>6. ReadsPending'
  BY <1>1, <1>3, TwoPending DEF DecodeBegin, ReadsPending
<1>7. Production'
  <2>1. NumAus(header') \in 2..6 /\ NumAus(header)' = NumAus(header')
    BY <1>2, AusFit DEF NumAus
  <2>2. Genuine(Current)' => header' = Sent
    BY <1>1, <1>3
  <2>3. au' - 1 = 0 /\ Samples(SentConfiguration) \in Nat
    BY <1>1 DEF Samples
  <2>4. (au' - 1) * Samples(SentConfiguration) = 0
    BY <2>3
  <2> QED BY <1>1, <2>1, <2>2, <2>4 DEF Production
<1>8. Played'
  BY <1>1, <1>3 DEF Played
<1> QED BY <1>4, <1>5, <1>6, <1>7, <1>8

LEMMA ThrowStep == IInv /\ Throw => IInv'
<1> SUFFICES ASSUME IInv, Throw PROVE IInv' OBVIOUS
<1> USE DEF IInv
<1>1. /\ dead' = TRUE
      /\ UNCHANGED <<phase, fed, fire, fcRead, request, d_nconsumed, d_nproduced>>
      /\ UNCHANGED <<d_firecode_passed, starts, fcWritten, rsRead>>
      /\ UNCHANGED <<d_corrected_errors, mp4Read, d_first, header, au, aac>>
      /\ UNCHANGED <<d_nsamples_produced, last>>
  BY DEF Throw, fire, reed
<1>2. TypeOK'
  <2>1. dead' \in BOOLEAN
    BY <1>1, Zenon
  <2> QED BY <1>1, <2>1 DEF TypeOK
<1>3. FindsSuperframes' /\ InCall'
  BY <1>1, FireKept
<1>4. ReadsPending' /\ Production' /\ Played'
  BY <1>1 DEF ReadsPending, Production, Played, Current, Genuine, NumAus, Samples
<1> QED BY <1>2, <1>3, <1>4

(* What an AU does to the invariant, dumped or played.                      *)
LEMMA AfterAu ==
    ASSUME IInv, au \in 1..NumAus(header), au' = au + 1,
           UNCHANGED <<phase, fed, fire, reed, mp4Read, d_first, header, dead>>,
           aac' = aac \/ (Genuine(Current) /\ aac' = Configured)
    PROVE  /\ Current' = Current /\ (Genuine(Current)' <=> Genuine(Current))
           /\ header \in Header /\ au' \in 2..7 /\ au' <= NumAus(header') + 1
           /\ NumAus(header)' = NumAus(header)
           /\ aac' \in {"closed", SentConfiguration}
           /\ Genuine(Current) => header = Sent /\ Configured = SentConfiguration
           /\ FindsSuperframes' /\ InCall' /\ ReadsPending'
<1> USE DEF IInv
<1>1. Current' = Current /\ (Genuine(Current)' <=> Genuine(Current))
  BY DEF Current, Genuine, fire
<1>2. header \in Header
  BY DabPlusAssumption DEF TypeOK
<1>3. au' \in 2..7 /\ au' <= NumAus(header') + 1
  BY <1>2, AusFit DEF TypeOK
<1>4. NumAus(header)' = NumAus(header)
  BY DEF NumAus
<1>5. Genuine(Current) => header = Sent /\ Configured = SentConfiguration
  <2> SUFFICES ASSUME Genuine(Current)
               PROVE  header = Sent /\ Configured = SentConfiguration
    OBVIOUS
  <2>1. header = Sent
    BY DEF Production, TypeOK
  <2>2. aac = "closed" \/ aac = SentConfiguration
    BY DEF Production
  <2> QED BY <2>1, <2>2 DEF Configured, SentConfiguration
<1>6. aac' \in {"closed", SentConfiguration}
  BY <1>5 DEF Production
<1>7. FindsSuperframes' /\ InCall'
  BY FireKept
<1>8. ReadsPending'
  BY <1>1, <1>3 DEF ReadsPending, TypeOK, reed
<1> QED BY <1>1, <1>2, <1>3, <1>4, <1>5, <1>6, <1>7, <1>8

LEMMA DumpStep == IInv /\ Dump => IInv'
<1> SUFFICES ASSUME IInv, Dump PROVE IInv' OBVIOUS
<1> USE DEF IInv
<1>1. /\ au \in 1..NumAus(header) /\ au' = au + 1
      /\ aac' = aac \/ (Genuine(Current) /\ aac' = Configured)
      /\ UNCHANGED <<phase, fed, fire, fcRead, request, d_nconsumed, d_nproduced>>
      /\ UNCHANGED <<d_firecode_passed, starts, fcWritten, reed, rsRead>>
      /\ UNCHANGED <<d_corrected_errors, mp4Read, d_first, header>>
      /\ UNCHANGED <<d_nsamples_produced, dead, last>>
  BY DEF Dump, fire, reed
<1>2. /\ Current' = Current /\ (Genuine(Current)' <=> Genuine(Current))
      /\ header \in Header /\ au' \in 2..7 /\ au' <= NumAus(header') + 1
      /\ NumAus(header)' = NumAus(header)
      /\ aac' \in {"closed", SentConfiguration}
      /\ Genuine(Current) => header = Sent
      /\ FindsSuperframes' /\ InCall' /\ ReadsPending'
  BY <1>1, AfterAu
<1>3. aac' \in {"closed", "plain", "sbr"}
  BY <1>2 DEF SentConfiguration
<1>4. TypeOK'
  BY <1>1, <1>2, <1>3 DEF TypeOK
<1>5. Production'
  <2>1. (au - 1) * Samples(SentConfiguration) <= (au' - 1) * Samples(SentConfiguration)
    <3>1. Samples(SentConfiguration) \in {960, 1920} /\ au \in 1..7
      BY <1>1, <1>2 DEF Samples, TypeOK
    <3> QED BY <1>1, <3>1
  <2>2. (au - 1) * Samples(SentConfiguration) \in Nat
    <3>1. Samples(SentConfiguration) \in {960, 1920} /\ au \in 1..7
      BY <1>1, <1>2 DEF Samples, TypeOK
    <3> QED BY <3>1
  <2>3. (au' - 1) * Samples(SentConfiguration) \in Nat
    <3>1. Samples(SentConfiguration) \in {960, 1920} /\ au' \in 2..7
      BY <1>2 DEF Samples
    <3> QED BY <3>1
  <2>4. Genuine(Current) =>
           d_nsamples_produced' <= (au' - 1) * Samples(SentConfiguration)
    BY <1>1, <2>1, <2>2, <2>3 DEF Production, TypeOK
  <2>5. ~Genuine(Current) => d_nsamples_produced' = 0
    BY <1>1 DEF Production, TypeOK
  <2> QED BY <1>1, <1>2, <2>4, <2>5 DEF Production
<1>6. Played'
  BY <1>1, <1>2 DEF Played, TypeOK
<1> QED BY <1>2, <1>4, <1>5, <1>6

LEMMA PlayStep == IInv /\ Play => IInv'
<1> SUFFICES ASSUME IInv, Play PROVE IInv' OBVIOUS
<1> USE DEF IInv
<1>1. /\ au \in 1..NumAus(header) /\ au' = au + 1 /\ Genuine(Current)
      /\ aac' = Configured /\ last' = <<Current, au>>
      /\ d_nsamples_produced' = d_nsamples_produced + Samples(aac')
      /\ UNCHANGED <<phase, fed, fire, fcRead, request, d_nconsumed, d_nproduced>>
      /\ UNCHANGED <<d_firecode_passed, starts, fcWritten, reed, rsRead>>
      /\ UNCHANGED <<d_corrected_errors, mp4Read, d_first, header, dead>>
  BY DEF Play, fire, reed
<1>2. /\ Current' = Current /\ Genuine(Current)'
      /\ header \in Header /\ au' \in 2..7 /\ au' <= NumAus(header') + 1
      /\ NumAus(header)' = NumAus(header) /\ aac' = SentConfiguration /\ header = Sent
      /\ FindsSuperframes' /\ InCall' /\ ReadsPending'
  BY <1>1, AfterAu
<1>3. aac' \in {"closed", "plain", "sbr"} /\ Samples(aac') \in {960, 1920}
  BY <1>2 DEF SentConfiguration, Samples
<1>4. Current \in Nat /\ au \in Nat
  BY <1>1 DEF Current, TypeOK
<1>5. d_nsamples_produced' \in Nat
  BY <1>1, <1>3 DEF TypeOK
<1>6. TypeOK'
  BY <1>1, <1>2, <1>3, <1>4, <1>5 DEF TypeOK
<1>7. Production'
  <2> DEFINE s == Samples(SentConfiguration)
  <2>1. s \in {960, 1920} /\ au \in 1..7
    BY <1>1, <1>2, <1>3 DEF TypeOK
  <2>2. d_nsamples_produced <= (au - 1) * s /\ d_nsamples_produced \in Nat
    BY <1>1 DEF Production, TypeOK
  <2>3. d_nsamples_produced' = d_nsamples_produced + s
    BY <1>1, <1>2
  <2> HIDE DEF s
  <2>4. d_nsamples_produced' <= (au' - 1) * s
    BY <1>1, <2>1, <2>2, <2>3
  <2> QED BY <1>1, <1>2, <2>4 DEF Production, s
<1>8. Played'
  BY <1>1, <1>2, <1>4 DEF Played
<1> QED BY <1>2, <1>6, <1>7, <1>8

LEMMA DecodeEndStep == IInv /\ DecodeEnd => IInv'
<1> SUFFICES ASSUME IInv, DecodeEnd PROVE IInv' OBVIOUS
<1> USE DEF IInv
<1>1. /\ au > NumAus(header) /\ mp4Read' = mp4Read + 1 /\ au' = 0
      /\ UNCHANGED <<phase, fed, fire, fcRead, request, d_nconsumed, d_nproduced>>
      /\ UNCHANGED <<d_firecode_passed, starts, fcWritten, rsRead>>
      /\ UNCHANGED <<d_corrected_errors, d_first, header, aac>>
      /\ UNCHANGED <<d_nsamples_produced, dead, last>>
  BY DEF DecodeEnd, fire, reed
<1>2. NumAus(header) \in 2..6 /\ au > 0
  <2>1. header \in Header
    BY DabPlusAssumption DEF TypeOK
  <2> QED BY <1>1, <2>1, AusFit DEF TypeOK
<1>3. TypeOK'
  BY <1>1, <1>2 DEF TypeOK, ReadsPending, Current
<1>4. FindsSuperframes' /\ InCall'
  BY <1>1, FireKept
<1>5. Production'
  <2>1. CASE Genuine(Current)
    <3>1. header = Sent /\ au = NumAus(Sent) + 1
      BY <1>1, <1>2, <2>1 DEF Production, TypeOK
    <3>2. d_nsamples_produced <= (au - 1) * Samples(SentConfiguration)
      BY <1>2, <2>1 DEF Production
    <3>3. au - 1 = NumAus(Sent)
      BY <1>2, <3>1
    <3>4. Samples(SentConfiguration) \in {960, 1920}
      BY DEF Samples
    <3>5. d_nsamples_produced <= OutputMultiple
      BY <1>2, <3>1, <3>2, <3>3, <3>4, AusFit DEF TypeOK, OutputMultiple
    <3> QED BY <1>1, <3>5 DEF Production, OutputMultiple
  <2>2. CASE ~Genuine(Current)
    BY <1>1, <1>2, <2>2 DEF Production, OutputMultiple
  <2> QED BY <2>1, <2>2
<1>6. ReadsPending' /\ Played'
  BY <1>1, <1>2 DEF ReadsPending, Played, Current, TypeOK
<1> QED BY <1>3, <1>4, <1>5, <1>6

-----------------------------------------------------------------------------
LEMMA Stays == IInv /\ [Next]_vars => IInv'
<1> SUFFICES ASSUME IInv, [Next]_vars PROVE IInv' OBVIOUS
<1>1. CASE Receive BY <1>1, ReceiveStep
<1>2. CASE CheckBegin BY <1>2, CheckBeginStep
<1>3. CASE CheckFrame BY <1>3, CheckFrameStep
<1>4. CASE CheckEnd BY <1>4, CheckEndStep
<1>5. CASE Repair BY <1>5, RepairStep
<1>6. CASE DecodeBegin BY <1>6, DecodeBeginStep
<1>7. CASE Throw BY <1>7, ThrowStep
<1>8. CASE Dump BY <1>8, DumpStep
<1>9. CASE Play BY <1>9, PlayStep
<1>10. CASE DecodeEnd BY <1>10, DecodeEndStep
<1>11. CASE UNCHANGED vars
  <2>1. TypeOK'
    BY <1>11 DEF IInv, TypeOK, vars, fire, reed, mp4
  <2>2. FindsSuperframes' /\ InCall'
    BY <1>11, FireKept DEF vars
  <2>3. ReadsPending' /\ Production' /\ Played'
    BY <1>11, DecoderKept DEF IInv, TypeOK, vars, fire, reed, mp4
  <2> QED BY <2>1, <2>2, <2>3 DEF IInv
<1> QED BY <1>1, <1>2, <1>3, <1>4, <1>5, <1>6, <1>7, <1>8, <1>9, <1>10, <1>11
        DEF Next, Check, Decode

LEMMA Inductive == Spec => []IInv
<1>1. Init => IInv  BY Initially
<1>2. IInv /\ [Next]_vars => IInv'  BY Stays
<1> QED BY <1>1, <1>2, PTL DEF Spec

(* Each variable of the three blocks keeps to its range: buffers are read   *)
(* after they are written, requests stay within what was received.          *)
THEOREM Types == Spec => []TypeOK
<1>1. IInv => TypeOK  BY DEF IInv
<1> QED BY <1>1, Inductive, PTL

(* The search of firecode_check_bb takes the superframes that a reader of   *)
(* the whole stream takes, however the stream is cut into calls.            *)
THEOREM SuperframesFound == Spec => []FindsSuperframes
<1>1. IInv => FindsSuperframes  BY DEF IInv
<1> QED BY <1>1, Inductive, PTL

(* mp4_decode_bs reads one superframe ahead of what it consumes, never one  *)
(* that reed_solomon_decode_bb has not written.                             *)
THEOREM PendingRead == Spec => []ReadsPending
<1>1. IInv => ReadsPending  BY DEF IInv
<1> QED BY <1>1, Inductive, PTL

(* A call of mp4_decode_bs produces no more samples than its output multiple. *)
THEOREM OutputSuffices == Spec => []OutputFits
<1>1. IInv => OutputFits
  <2> SUFFICES ASSUME IInv PROVE d_nsamples_produced <= OutputMultiple
    BY DEF OutputFits
  <2>1. CASE au = 0
    BY <2>1 DEF IInv, Production
  <2>2. CASE au > 0 /\ ~Genuine(Current)
    BY <2>2 DEF IInv, Production, OutputMultiple
  <2>3. CASE au > 0 /\ Genuine(Current)
    <3>1. NumAus(Sent) \in 2..6
      BY AusFit, DabPlusAssumption
    <3>2. au \in 1..7 /\ au <= NumAus(Sent) + 1
      BY <2>3 DEF IInv, Production, TypeOK
    <3>3. d_nsamples_produced <= (au - 1) * Samples(SentConfiguration)
      BY <2>3 DEF IInv, Production
    <3>4. Samples(SentConfiguration) \in {960, 1920}
      BY DEF Samples
    <3>5. (au - 1) * Samples(SentConfiguration) <= NumAus(Sent) * Samples(SentConfiguration)
      BY <3>1, <3>2, <3>4
    <3>6. d_nsamples_produced \in Nat
      BY DEF IInv, TypeOK
    <3> QED BY <3>1, <3>2, <3>3, <3>4, <3>5, <3>6, AusFit DEF OutputMultiple
  <2> QED BY <2>1, <2>2, <2>3 DEF IInv, TypeOK
<1> QED BY <1>1, Inductive, PTL

(* Sound is played in the order it was sent and none of it twice.           *)
THEOREM InOrder == Spec => PlaysInOrder
<1> DEFINE Later == last' # last => \/ last'[1] > last[1]
                                    \/ last'[1] = last[1] /\ last'[2] > last[2]
<1>1. IInv /\ [Next]_vars => [Later]_vars
  <2> SUFFICES ASSUME IInv, Next, last' # last PROVE Later
    BY DEF vars
  <2>1. Play
    BY DEF Next, Receive, Check, CheckBegin, CheckFrame, CheckEnd, Repair, Decode,
           DecodeBegin, Throw, Dump, DecodeEnd, mp4
  <2>2. last' = <<Current, au>> /\ au > 0
    <3>1. header \in Header
      BY DabPlusAssumption DEF IInv, TypeOK
    <3> QED BY <2>1, <3>1, AusFit DEF Play
  <2>3. last[1] < Current \/ (last[1] = Current /\ last[2] < au)
    BY <2>2 DEF IInv, Played
  <2>4. Current \in Nat /\ au \in Nat /\ last[1] \in Nat /\ last[2] \in Nat
    BY DEF IInv, TypeOK, Current
  <2>5. last'[1] = Current /\ last'[2] = au
    BY <2>2
  <2>6. Current > last[1] \/ (Current = last[1] /\ au > last[2])
    BY <2>3, <2>4
  <2> QED BY <2>5, <2>6
<1> QED BY <1>1, Inductive, PTL DEF Spec, PlaysInOrder
=============================================================================
