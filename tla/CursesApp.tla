------------------------------ MODULE CursesApp -----------------------------
(***************************************************************************)
(* The curses application (python/app/curses_app.py): its list of          *)
(* channels, the switch to another one, and the sound that comes out of    *)
(* it.  The flowgraph's threads run on while the switch tunes the receiver *)
(* and builds the new decoder; only then it is stopped, rewired and        *)
(* started.  The xrun monitor keeps what it has stored over a restart: it  *)
(* is the bounded queue that XrunMonitor is shown to implement.            *)
(*                                                                         *)
(* A sound is known by the ensemble it was received from and the address   *)
(* it was decoded at.  Volume, colours and wording are left out, and so is *)
(* cursor_y, which the status bar shows.                                   *)
(***************************************************************************)
EXTENDS ChannelMenu, ChannelCoding

CONSTANTS Lists,        \* the contents that channels.yaml can have
          File,         \* the ensemble of a recording
          Capacity, InCap, OutCap, Silence  \* as in AudioQueue

ASSUME AppAssumption ==
    Lists \subseteq Seq(Settings) /\ InCap \in Nat /\ OutCap \in Nat

VARIABLES active,       \* the row of the channel that is played
          from_file,    \* the samples come from a recording
          tuned,        \* the frequency that is received, or File
          decoder,      \* the settings that the running decoder was built with
          new,          \* ... and those of the one being built
          step,         \* where the switch is, "keys" if there is none
          fresh,        \* the decoder has not delivered a sample yet
          in, queue, out, mode, lossy   \* the xrun monitor and its edges

audio == <<in, queue, out, mode, lossy>>
switch == <<active, from_file, tuned, decoder, new, step, fresh>>
vars == <<menu, switch, audio>>

\* The channel of an empty list.
DefaultChannel ==
    [frequency |-> 220352, address |-> 304, subch_size |-> 64,
     protect_level |-> 1, bit_rate |-> 64, classic |-> FALSE]
Channels == {DefaultChannel} \cup UNION {{l[k] : k \in 1..Len(l)} : l \in Lists}

\* What is heard of a channel, and what the decoder makes of the samples.
Ensemble(ch) == IF from_file THEN File ELSE ch.frequency
Programme(ch) == [from |-> Ensemble(ch), at |-> ch.address]
Decoded == [from |-> tuned, at |-> decoder.address]
Programmes ==
    [from : {File} \cup {ch.frequency : ch \in Channels}, at : {ch.address : ch \in Channels}]

Monitor == INSTANCE AudioQueue WITH Items <- Programmes

Row(k) == IF nelem = 0 THEN DefaultChannel ELSE channel_list[k + 1]

Init ==
    /\ MenuInit({l \in Lists : l = <<>> \/ Constructs(l[1])})
    /\ from_file \in BOOLEAN
    /\ active = 0 /\ decoder = Row(0) /\ new = decoder /\ tuned = Ensemble(decoder)
    /\ step = "keys" /\ fresh = TRUE
    /\ Monitor!Init

-----------------------------------------------------------------------------
(* The user interface *)

Navigate ==
    /\ step = "keys"
    /\ KeyUp \/ KeyDown \/ PageUp \/ PageDown \/ End \/ Home \/ Resize
    /\ UNCHANGED <<switch, audio>>

\* Enter, up to the tuning of the receiver, which is still playing.
Tune ==
    /\ step = "keys" /\ nelem > 0
    /\ active' = selected
    /\ tuned' = Ensemble(Row(selected))
    /\ step' = "tuned"
    /\ UNCHANGED <<menu, from_file, decoder, new, fresh, audio>>

\* Enter without a channel: the index is out of range, and the program ends.
TuneNothing ==
    /\ step = "keys" /\ nelem = 0
    /\ active' = selected
    /\ step' = "failed"
    /\ UNCHANGED <<menu, from_file, tuned, decoder, new, fresh, audio>>

\* The new decoder is built, or the program ends with an exception.
Build ==
    /\ step = "tuned"
    /\ new' = Row(active)
    /\ step' = IF Constructs(new') THEN "built" ELSE "failed"
    /\ UNCHANGED <<menu, active, from_file, tuned, decoder, fresh, audio>>

StopFlowgraph ==
    /\ step = "built" /\ step' = "stopped"
    /\ UNCHANGED <<menu, active, from_file, tuned, decoder, new, fresh, audio>>

\* Variant: the monitor keeps what it has stored.
KeepStored ==
    /\ step = "stopped" /\ step' = "silenced"
    /\ UNCHANGED <<menu, active, from_file, tuned, decoder, new, fresh, audio>>
StopUntilTag ==
    /\ step = "stopped" /\ step' = "silenced"
    /\ Monitor!Stop
    /\ UNCHANGED <<menu, active, from_file, tuned, decoder, new, fresh>>

Rewire ==
    /\ step = "silenced" /\ step' = "rewired"
    /\ decoder' = new /\ fresh' = TRUE
    /\ UNCHANGED <<menu, active, from_file, tuned, new, audio>>

\* The flowgraph starts with new edges.
StartFlowgraph ==
    /\ step = "rewired" /\ step' = "keys"
    /\ in' = <<>> /\ out' = <<>>
    /\ UNCHANGED <<menu, active, from_file, tuned, decoder, new, fresh, queue, mode, lossy>>

Quit ==
    /\ step = "keys" /\ step' = "quit"
    /\ UNCHANGED <<menu, active, from_file, tuned, decoder, new, fresh, audio>>

-----------------------------------------------------------------------------
(* The flowgraph *)

Running == step \in {"keys", "tuned", "built"}

\* The decoder finds superframes only if its stages fit.  It tags its first
\* sample.
DecoderWrites ==
    /\ Running /\ Fits(decoder)
    /\ in' = Append(in, [smp |-> Decoded, tag |-> fresh])
    /\ Monitor!Arrive
    /\ fresh' = FALSE
    /\ UNCHANGED <<menu, active, from_file, tuned, decoder, new, step>>

MonitorWorks ==
    /\ Running
    /\ Monitor!Prebuffer \/ Monitor!Play \/ Monitor!StartOver \/ Monitor!Skip
       \/ Monitor!FindTag
    /\ UNCHANGED <<menu, switch>>

SinkReads ==
    /\ Running /\ Monitor!Draw
    /\ UNCHANGED <<menu, switch>>

Next ==
    \/ Navigate \/ Tune \/ TuneNothing \/ Build \/ StopFlowgraph \/ StopUntilTag
    \/ Rewire \/ StartFlowgraph \/ Quit
    \/ DecoderWrites \/ MonitorWorks \/ SinkReads

Spec == Init /\ [][Next]_vars

-----------------------------------------------------------------------------
Steps == {"keys", "tuned", "built", "stopped", "silenced", "rewired", "failed", "quit"}
Sound == Programmes \cup {Silence}

TypeOK ==
    /\ MenuTypeOK /\ channel_list \in Lists
    /\ active \in -1..nelem /\ (nelem > 0 => active \in 0..(nelem - 1))
    /\ from_file \in BOOLEAN
    /\ decoder \in Channels /\ new \in Channels
    /\ tuned \in {File} \cup {ch.frequency : ch \in Channels}
    /\ step \in Steps /\ fresh \in BOOLEAN
    /\ in \in Seq(Monitor!Edge) /\ queue \in Seq(Programmes) /\ out \in Seq(Sound)
    /\ mode \in {"skip", "fill", "play"} /\ lossy = FALSE

\* After a switch nothing is heard or stored but the channel that the status
\* bar names: neither the channel before it nor what the old decoder makes of
\* the new ensemble while the switch is under way (draw_menu(), enter).
PlaysActive ==
    step = "keys" =>
        /\ \A k \in 1..Len(queue) : queue[k] = Programme(Row(active))
        /\ \A k \in 1..Len(out) : out[k] \in {Silence, Programme(Row(active))}

\* A decoder that was built for whole multiples of 8 kbit/s finds its
\* superframes: what a stage gives is what the next one takes (msc_decode.py).
DecoderFits ==
    step = "keys" /\ Regular(decoder) => Fits(decoder)

\* ... and so does one that was built from what "grdab info" prints.
PrintedSettingsFit ==
    step = "keys" /\ WholeMultiples(decoder)
                  /\ decoder.bit_rate = PrintedBitRate(decoder) => Fits(decoder)
=============================================================================
