----------------------------- MODULE AudioQueue -----------------------------
(***************************************************************************)
(* What the xrun monitor promises to the audio path: a bounded queue       *)
(* between the decoder and the sound card.  The queue delivers samples in  *)
(* the order they came, each once; it starts to play only when it is three *)
(* quarters full, and it starts over only when it has run down to a tenth; *)
(* after a stop it plays nothing before the next tagged sample.            *)
(***************************************************************************)
EXTENDS Naturals, Sequences

CONSTANTS Capacity,   \* the most samples the queue can hold
          InCap,      \* the most samples the decoder can have pending
          OutCap,     \* the most samples the sink can have pending
          Items,      \* what a sample can be
          Silence     \* the zero sample put in for missing audio

VARIABLES in,         \* pending input: a sequence of [smp, tag] records
          queue,      \* accepted samples, oldest first
          out,        \* pending output
          mode,       \* "skip": up to the tag; "fill": prebuffering; "play"
          lossy       \* input that does not fit is dropped, not held back

qvars == <<in, queue, out, mode, lossy>>

Edge == [smp : Items, tag : BOOLEAN]

Samples(s) == [i \in 1..Len(s) |-> s[i].smp]

After(s, n) == SubSeq(s, n + 1, Len(s))

Silent(n) == [i \in 1..n |-> Silence]

Untagged(n) == \A i \in 1..n : ~in[i].tag

\* Three quarters of the capacity (one slot of the store stays empty).
Filled == 4 * Len(queue) >= 3 * (Capacity + 1)

\* A tenth of it.
RunDown == 10 * Len(queue) <= Capacity + 1

Init ==
    /\ in = <<>> /\ queue = <<>> /\ out = <<>>
    /\ mode = "fill"
    /\ lossy = FALSE

Arrive ==
    /\ Len(in) < InCap
    /\ \E e \in Edge : in' = Append(in, e)
    /\ UNCHANGED <<queue, out, mode, lossy>>

\* The sink takes the n oldest pending samples.
Draw ==
    /\ \E n \in 1..Len(out) : out' = After(out, n)
    /\ UNCHANGED <<in, queue, mode, lossy>>

\* `a' samples are accepted.  In the lossy mode the rest of the first `c' is
\* thrown away, and only if the queue is full after it.
Consume(a, c, rest) ==
    /\ in' = After(in, c)
    /\ queue' = rest
    /\ Len(rest) <= Capacity
    /\ c = a \/ (lossy /\ c > a /\ Len(rest) = Capacity)

\* Prebuffering: only silence goes out.
Prebuffer ==
    /\ \/ mode = "fill" /\ ~Filled
       \/ mode = "skip" /\ in # <<>> /\ in[1].tag
    /\ mode' = "fill"
    /\ \E a \in 0..Len(in), n \in 1..(OutCap - Len(out)) :
          /\ \E c \in a..Len(in) :
                Consume(a, c, queue \o Samples(SubSeq(in, 1, a)))
          /\ out' = out \o Silent(n)
    /\ UNCHANGED lossy

\* Playing: the n oldest samples go out.
Play ==
    /\ mode = "play" \/ (mode = "fill" /\ Filled)
    /\ mode' = "play"
    /\ \E a \in 0..Len(in), n \in 0..(OutCap - Len(out)) :
          LET stream == queue \o Samples(SubSeq(in, 1, a))
          IN  /\ n <= Len(stream)
              /\ out' = out \o SubSeq(stream, 1, n)
              /\ \E c \in a..Len(in) : Consume(a, c, After(stream, n))
    /\ UNCHANGED lossy

\* The queue has run down: stop playing until it is filled again.
StartOver ==
    /\ mode = "play"
    /\ RunDown
    /\ mode' = "fill"
    /\ UNCHANGED <<in, queue, out, lossy>>

\* What comes before the tag is thrown away and silence played instead.
Skip ==
    /\ mode = "skip"
    /\ \E c \in 0..Len(in), n \in 1..(OutCap - Len(out)) :
          /\ Untagged(c)
          /\ in' = After(in, c)
          /\ out' = out \o Silent(n)
    /\ UNCHANGED <<queue, mode, lossy>>

\* The tag is found behind c samples.
FindTag ==
    /\ mode = "skip"
    /\ \E c \in 1..(Len(in) - 1) :
          /\ Untagged(c) /\ in[c + 1].tag
          /\ in' = After(in, c)
    /\ mode' = "fill"
    /\ UNCHANGED <<queue, out, lossy>>

\* Everything accepted so far is forgotten.
Stop ==
    /\ queue' = <<>>
    /\ mode' = "skip"
    /\ UNCHANGED <<in, out, lossy>>

\* A stop with the flowgraph rebuilt: what was pending is gone too.
Switch ==
    /\ queue' = <<>> /\ in' = <<>> /\ out' = <<>>
    /\ mode' = "skip"
    /\ UNCHANGED lossy

SetLossy ==
    /\ lossy' \in BOOLEAN
    /\ UNCHANGED <<in, queue, out, mode>>

Next ==
    \/ Arrive \/ Draw \/ Prebuffer \/ Play \/ StartOver
    \/ Skip \/ FindTag \/ Stop \/ Switch \/ SetLossy

Spec == Init /\ [][Next]_qvars
=============================================================================
