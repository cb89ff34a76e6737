# A TLA+ model of gr-dab

gr-dab is a GNU Radio out-of-tree module that receives (and can transmit)
Digital Audio Broadcasting. This directory holds TLA+ specifications of the
parts of it whose correctness depends on control: on the order in which threads
run, on how a stream is cut into calls, on what is remembered between calls.
TLC checks them on small instances; TLAPS proves the most important properties
for all values of the constants.

`PROJECT.json` lists components, runs, mutants, findings, hazards and theorems,
and maps every definition to the lines it stands for.

## 1. Inventory

A receiver is a GNU Radio flowgraph. Every block runs in a thread of its own;
the block executor of that thread looks at the pending input and the free output
space, asks `forecast()` whether a request can be met, halves the request until
it can, and calls `work()` or `general_work()`. Blocks share nothing but the
edges' buffers and the stream tags on them. What makes the blocks hard is that
a call may get any number of items: whatever counts vectors of a frame, samples
of a symbol or slots of a ring must be carried from call to call.

| part | code | state | operations | hard because |
|---|---|---|---|---|
| null symbol search | `detect_null.py`, `peak_detector_fb`, `control_stream_to_tag_cc` | peak search state, averages | finds the null symbol, tags `dab_sync` | consumes less than it has seen, reads items again |
| fine frequency synchronisation | `ofdm_sync_dab2.py`, `ofdm_ffe_all_in_one` | symbol and sample counts, sum of the measurements | measures a frame's offset while a delay holds its samples back | the delay, the counts and the moment of the update must fit to the sample |
| symbol sampler | `ofdm_sampler` | `d_state`, `d_pos`, `d_sym_nr`, `d_gap_left` | cuts a frame's symbols out of the samples, tags `first` | three states over any segmentation, false tags |
| carrier processing | FFT, `ofdm_coarse_frequency_correct`, `diff_phasor_vcc`, `frequency_interleaver_vcc`, `complex_to_interleaved_float_vcf` | last phasor | one vector in, one out | numeric only |
| frame chain | `ofdm_remove_first_symbol_vcc`, `magnitude_equalizer_vcc`, `select_vectors`, `repartition_vectors` | `d_start`, `d_add_item_tag_at`, `d_index`, `d_synced` | drop the pilot, delay, pick FIC or MSC symbols, make units of them | tags moved by hand across calls, restart with old state |
| channel decoding | `fic.py`, `msc_decode.py`, `select_subch_vfvf`, `time_deinterleave_ff`, `unpuncture_*`, Viterbi, `prune` | history | undo the channel coding | index maps |
| FIB sink | `fib_sink_vb` | four triggers, growing lists, published lists | collects lists from FIGs | end of a list is guessed, getters run in another thread |
| `grdab info` | `get_channels.py` | dictionary of channels, attempts | polls the sink and merges its lists | lists of different age |
| DAB+ audio | `firecode_check_bb`, `reed_solomon_decode_bb`, `mp4_decode_bs` | superframe position, tag once | superframe synchronisation, error correction, AAC | partial superframes, exceptions |
| DAB audio | `mp2_decode_bs` | bit-wise frame synchronisation | MPEG layer 2 | an uninitialised loop counter |
| audio buffer | `xrun_monitor_cc` | ring, two indices, three flags | prebuffer, pass through, store, drop, stop until a tag | circular copies, thresholds, user interface thread |
| curses application | `curses_app.py` | selection, scrolling, flowgraph | moves in the list, switches channels in a running receiver | each key has its own rule for what is drawn; restart of a stateful flowgraph |
| transmitter | `ofdm_mod`, `ofdm_insert_pilot_vcc`, `sum_phasor_trig_vcc`, `insert_null_symbol` | `d_start`, `d_last_symbol`, `d_ns_added` | inserts pilots, multiplies phases, inserts null symbols | state over calls, two inputs that arrive apart, a silence longer than a call |
| sample rate | `estimate_sample_rate_bf`, `fractional_interpolator_*` | estimates | resampling | numeric, a second thread |

How they interact: `source -> synchronisation -> sampler -> carrier processing ->
frame chain -> { FIC decoding -> FIB sink, MSC decoding -> audio decoder -> audio
buffer -> sound card }`. The sink's lists are read by getters from the
application's thread. The curses application stops the flowgraph, replaces
decoder and sound card, and starts it again; all other blocks keep their state
and lose what was pending.

What makes each of them correct, in one sentence:

* audio buffer: a bounded first-in first-out queue with thresholds, that plays
  nothing of the old channel after a switch, and that never stalls;
* sampler: symbols where the tags say, whole frames, no frame passed over;
* frame chain: every frame whole and in order to both decoders, and never a
  symbol to the wrong one, even when a restart took half of a frame away;
* FIB sink: what is published is a round of entries; with no loss it is all of
  them; it keeps coming in spite of losses;
* `grdab info`: prints what exists, and ends;
* null symbol search: one mark per excursion at its maximum, wherever calls cut
  the stream, and nothing held back after it;
* frequency synchronisation: every sample of a frame corrected by what was
  measured on this frame, an average over whole symbols of one frame;
* curses application: the selected row is on the screen; after a switch only the
  chosen channel is stored or heard; the stages of its decoder fit;
* transmitter: a null symbol and a pilot before every frame, and symbols whose
  phase differences are the data, however triggers, vectors and calls fall;
* DAB+ audio: every superframe that a reader of the whole stream would find,
  read only when it is there, its access units in order and within the room
  that was asked for, and no standstill.

## 2. Modules

| module | stands for | kind |
|---|---|---|
| `AudioQueue` | what the audio buffer promises | abstract specification |
| `XrunMonitor` | `lib/xrun_monitor_cc_impl.cc` with its executor, decoder, sound card, user interface | component |
| `XrunMonitorProofs` | its invariants; `XrunMonitor` implements `AudioQueue` | proofs |
| `OfdmSampler` | `lib/ofdm_sampler_impl.cc` | component |
| `VectorBlocks` | one `work()` call of each of the four vector counting blocks | operators |
| `FrameChain` | these blocks wired as in `ofdm.py`, `fic.py` and `msc_decode.py` | composition |
| `OfdmDemodProofs` | the invariants of the sampler and of the chain | proofs |
| `ChannelEntries` | the entries of the published lists | definitions |
| `ChannelLists` | what the FIB sink promises to callers of its getters | abstract specification |
| `FibSink` | `lib/fib_sink_vb_impl.cc` | component |
| `GetChannels` | `python/app/get_channels.py` on top of `ChannelLists` | composition |
| `ChannelInfoProofs` | the sink's invariants; `FibSink` implements `ChannelLists`; the invariants of `GetChannels`, also on `FibSink` itself | proofs |
| `DabPlus` | `lib/firecode_check_bb_impl.cc`, `lib/reed_solomon_decode_bb_impl.cc`, `lib/mp4_decode_bs_impl.cc`, as wired in `dabplus_audio_decoder_ff.py` | composition |
| `DabPlusProofs` | its invariants | proofs |
| `NullSearch` | `lib/peak_detector_fb_impl.cc`, as wired in `detect_null.py` | component |
| `NullSearchProofs` | its invariants | proofs |
| `FrequencySync` | `lib/ofdm_ffe_all_in_one_impl.cc`, as wired in `ofdm_sync_dab2.py` | component |
| `FrequencySyncProofs` | its invariants | proofs |
| `ChannelCoding` | the lengths in `msc_decode.py`, `parameters.py`, `dabplus_audio_decoder_ff.py` | operators |
| `ChannelMenu` | the list of `python/app/curses_app.py` and its keys | component |
| `CursesApp` | `python/app/curses_app.py`: `ChannelMenu`, the switch of channels, and `AudioQueue` for the audio buffer | composition |
| `CursesAppProofs` | its invariants, and that the stages of every decoder fit | proofs |
| `Transmitter` | `ofdm_mod` of `ofdm.py` with its three blocks that have state, fed as in `usrp_dab_tx.py`; the receiver's `diff_phasor_vcc` | composition |
| `TransmitterProofs` | its invariants | proofs |
| `MC*` | constants, bounds and fairness for TLC | instances |

Definitions keep the names of the source where TLA+ allows it (`d_read_index`,
`d_gap_left`, `forecast` as `Forecast` or `Required`). An operator whose comment
begins with "Variant:" is a faulty version of the definition that follows it;
`PROJECT.json` pairs it with the property that detects it.

### XrunMonitor

State: the ring with its two indices and the three flags that matter; the input
edge as a sequence of `[smp, tag]` records; the output edge; the executor's
`phase`, its current request `ask` and its snapshot `avail` of the pending
input. Actions: `DecoderWrite`, `SinkRead`, `SetDropWhenFull`, `StopUntilTag`,
`SwitchChannel` (of the curses application), and the block's thread: `Begin`
(snapshot), `Forecast` (with the halving of the request), and the three outcomes
of `general_work()`: `WorkSkip` and `WorkFindTag` while stopped, `WorkCopy`
otherwise. `WorkCopy` computes the code's two-piece copies literally
(`Taken`, `ReadIndexAfter`, `Stored`, `WriteIndexAfter`), so that the refinement
to a sequence is a statement about them. The percentages are compared as exact
integers; with the code's `float` the thresholds differ by at most a rounding
error of a slot. `d_n`, `d_first`, `d_produce_per`, `d_report_fill` only steer
log lines and are left out. `forecast()` reads two indices without the mutex;
the model keeps it one step and interleaves `StopUntilTag` before and after it.

### OfdmSampler

A sample is its offset in the stream. `Arrive` adds one sample, tagged or not;
`GeneralWork` is a call with all that is pending, if `forecast()` allows it, so
TLC and the proofs consider every segmentation. The fall-through of the code's
`switch` (a call may go through NS, CP and SYM) is `FromPrefix`.

### VectorBlocks and FrameChain

An operator of `VectorBlocks` maps (state, pending vectors, room) to (state,
vectors consumed, vectors produced); where the code is a loop over vectors, a
round of it is an operator (`DropRound`, `SelectRound`) and the call a recursive
function of the rounds. `FrameChain` calls them with any room
between one and the free space for which `forecast()` finds the input enough:
this is what the executor's halving and its limits can come to. The edge to the
two selections has two readers; the equalizer waits for the slower.
`Restart` empties all edges and the equalizer's history and keeps every block's
state. The one-to-one blocks in between (FFT, frequency correction, phase
differences, deinterleaving, soft bits) are left out: they keep order and tags.
Sizes of units count in vectors, not in bits. `d_index` of `select_vectors`
counts on after the selected vectors and would wrap around after 2^32 untagged
vectors (weeks); the model stops it at the end of the selection.

### ChannelEntries, ChannelLists, FibSink and GetChannels

A FIG is a sequence of entries with a key; the multiplexer repeats the FIGs of
each kind (`Schedule`). `DamagedFib` and `GoodFib` are `process_fib()`,
`RecordEntry` is the loop of `process_fig()` over one entry, with `SetTrigger`
and `Collect`. The assignment of a list and the overwriting of its first
character are two steps (`Collect`, `OpenList`), because a getter may be called
between them; between them the list is malformed. Sub-channel FIGs are read in
the form of their first entry, as the code does (`Organization`), which makes
`Garbled` entries of a FIG that mixes forms. A FIB holds one FIG in the model; a
FIB with several is the same as several FIBs that are lost together.

`GetChannels` does not run the detailed sink again: it runs against
`ChannelLists`, which `FibSink` is proved to implement. Each of the three getter
calls of the loop is a step. `attempt` stops counting at its maximum since the
code only compares it for equality. The dictionary is its keys in the order of
their insertion, since the loop over it stops at the first channel that has the
sub-channel's ID; what an update makes of it is said without going through the
list (`Ids`, `Attached`: the last entry counts), only the insertion of keys
(`Insert`) goes entry by entry. `unlabelled`, chosen at the start, are the
services that the ensemble sends no label of.

### DabPlus

A logical frame is two facts: whether the transmitter begins a superframe with
it (`head`) and whether the fire code passes (`pass`); the two differ when a
frame is damaged or noise passes by chance. A superframe is the number of its
first frame. `CheckBegin`, `CheckFrame` and `CheckEnd` are a call of
`firecode_check_bb`, one round of its loop at a time; how many frames a call
gets is any multiple of five that is pending. `Repair` is a call of
`reed_solomon_decode_bb`. `DecodeBegin` reads the header of the superframe
after the first pending one (the code adds `d_superframe_size` to `in`);
`Throw`, `Dump` and `Play` are what becomes of an access unit, `DecodeEnd`
consumes one superframe. The header's addresses are numbers and the checks on
them are the code's. Where a superframe begins by the transmitter's schedule the
header is the transmitter's; elsewhere it is any header of `Noise`, and all its
access units fail their CRC (that both 16 bit codes pass by chance is left out).
The Reed-Solomon code may repair what it likes: a superframe that lost frames
plays or dumps any of its access units. `libfaad` returns two channels for every
station (it does so whenever it supports parametric stereo); the code's branch
for one channel is left out, and so is the room behind `mp4_decode_bs`, which
`XrunMonitor` models.

The output multiple of `mp4_decode_bs`, 5760, is at once what its `forecast()`
wants in bytes. That is at least one superframe and one byte at every rate
(`BitRateN` up to 24), and so the superframe ahead is always there; the last
superframes received stay undecoded.

### NullSearch

An item is an energy (inverted, as after `multiply_const_ff(-1)`); the stream
`in` is all that arrived and positions of a call are counted from `read`. One
action is one round of the loop of `work()`; `WorkBegin` and `WorkEnd` are its
first and last lines. A call works on all that is pending: every way to cut the
stream arises from when items arrive. The moving average is a level out of a
few: an item may draw it anywhere between the old average and itself, or leave
it. `from` and `whole` are history variables: where the excursion began and
whether a restart cut it. `peaks` are the marks; `control_stream_to_tag_cc`
turns each into a tag at the same place and is not a step of its own.

### FrequencySync

A sample is its offset in the stream, an estimate is the offsets of the symbols
it is the average of. One action is one round of the loop of `work()`:
`NewFrame` at a tag, `NewSymbol` when a symbol has passed, `NextSample`
otherwise; `WorkBegin` takes any part of what is pending. `Delay` is the delay
that `ofdm_sync_dab2.py` puts the samples through. `Restart` loses what is
pending and keeps the counters. `estimates`, `whole` and `cuts` are history
variables: what was measured when, and which samples restarts took away. What
an estimate is (a correlation, unwrapped and smoothed) is left out.

### ChannelCoding, ChannelMenu and CursesApp

`ChannelCoding` computes, from a channel's size, protection level and bit rate,
what each stage of `msc_decode` and of the DAB+ decoder takes and gives, as the
constructors do: the ones and the length of the unpuncturing sequence, the
steps of the Viterbi decoder, the bits of a logical frame, the bytes of a frame
for the fire code check. `Constructs` are the settings for which no constructor
raises: a classic channel passes a float for an int, the smallest A2
sub-channel leaves `puncturing_L1` unset, and a bit rate below 8 gives blocks
an output multiple of zero. Only the equal error protection of
option A is modelled; the code takes option B for it.

`ChannelMenu` has an action per key, translated with the comparison that each of
them makes. `CursesApp` splits `enter` where the flowgraph's threads can run in
between: `Tune`, `Build`, `StopFlowgraph`, `StopUntilTag`, `Rewire`,
`StartFlowgraph`; until `StopFlowgraph` the old decoder goes on, on the new
ensemble's samples. A sound is the ensemble it came from and the address it was
decoded at. The audio buffer is the abstract queue that `XrunMonitor` is proved
to implement, so the composition rests on that theorem. Colours, the status
line, the `skip_xrun_monitor` option and the calibration of the sample rate are
left out.

### Transmitter

A vector is its number and a symbol the sequence of the vectors that it is the
product of, so that a symbol that was multiplied with a wrong predecessor is
told from the right one. `InsertPilot`, `SumPhase` and `InsertNull` are one call
each, of any length that `forecast()` and the room allow, as a recursive
function over the rounds of the block's loop (`PilotCall`, `Phases`,
`NullCall`). `InsertPilot` looks at the triggers alone, as the
code does, and reads `Stale` where no vector has arrived. Vectors and triggers
arrive apart (`SendVector`, `GiveTrigger`); interleaver, inverse FFT and prefix
are the one action `Modulate`, so that symbols reach `InsertNull` later than
their triggers, which take the direct edge. Triggers may be anywhere behind a
first one. `d_last_symbol`, zeros at first, is the empty sequence: it is not
used before the first trigger. `usrp_dab_tx.py` gives a trigger every
`symbols_per_frame` vectors, which with the pilot is one symbol more than
`parameters.py:41` says of a frame (`channel_tests/dab_tb.py:35` subtracts it);
the model leaves the length of a frame open.

## 3. What the runs check

| run | question | bounds | states |
|---|---|---|---|
| `xrun_queue` | is the ring a queue, under every interleaving and interruption, and does audio come again and again? | ring of 5 slots, edges of 2 and 3, 2 sample values, 1 interruption, dropping may be on | 574,811 |
| `sampler` | are symbols and frames cut right? | symbol 3, prefix 2, gap 1, 2 symbols a frame, 22 samples, 3 tags | 93,622 |
| `frame_chain` | do both decoders get the right symbols? | 1+2+2 symbols a frame, equalizer over 2, edges of 4, 3 frames, 1 restart | 259,633 |
| `fib_sink` | are the published lists what was sent? | 2 sub-channel FIGs of mixed form, 3 service components (2 share a sub-channel, 1 is data), 3 labels, 2 losses | 109,200 |
| `dabplus` | are superframes found, read in time and played in order? | 192 kbit/s, 20 logical frames, 2 of them damaged, buffers of 10 frames and 3 superframes | 595,403 |
| `null_search` | is the maximum marked, and only once, for every cut of the stream? | 5 items of 4 energies, 3 levels, 1 restart | 176,674 |
| `get_channels` | does `grdab info` print what exists, and end? | 2 services, each with or without a label, a list of 1 while FIBs are damaged, 2 attempts | 103,308 |
| `frequency_sync` | is every frame corrected by what was measured on it? | symbols of 2 samples, 2 measured, 12 samples, 3 tags, 1 restart | 4,179,318 |
| `curses` | is the selection on the screen, and only the chosen channel heard? | pages of 3, terminals of 2, 4 and 5 rows, lists of 0, 3 and 7 channels, buffer of 3, edges of 2 and 1 | 726,792 |
| `transmitter` | can what is sent be received, for all triggers, and is all sent? | 5 vectors, all 16 placements of triggers, symbols of 2, silence of 3, edges of 3 | 36,062 |

Why these are enough. A ring of five slots has every relative position of the
indices, and with requests of up to three and one interruption every combination
of one- and two-piece copies; sample values modulo two tell a lost, repeated or
swapped sample (a shift by two needs two errors in one step, which the
refinement to a sequence excludes). 22 samples hold two whole frames and the
start of a third, so that a tag can lie before, in and after a frame. In the
frame chain, three frames are needed for the one before, of and after a
restart; edges of four let a call span a frame's end. With two losses a list's
trigger and another entry may get lost in the same round. `MaxAttempts` is 2
instead of 9: one attempt is not the last one, one is, and further ones come
after it when no channel was known by then. Of two services, a list with losses
can only have one. Twenty logical frames
hold three superframes at any phase, and a false or missed start between two
true ones; 192 kbit/s is the rate at which `mp4_decode_bs` waits for
the fewest superframes (three), where reading ahead is closest to the end. Five items are an
excursion with an inner maximum and its end, followed by the beginning of
another, with up to five calls; the four energies lie between, on and outside
both thresholds for every level. Twelve samples hold two frames with the delay of
the first one in full, or a false tag within a frame; a restart can come between
any two calls. Seven channels are more than two pages, and the terminals are
lower than, as high as and higher than a page and its status line; the seven
channels have all levels of protection, the same address in two ensembles, and
two that no decoder can be built for. In the transmitter, five vectors have
two, three and more triggers in a row, frames of every length up to five, and a
last one that is not complete; a silence of three samples with symbols of two
needs two calls, as 2656 with 2552 does.

Bounds that are not in the code: `Wrap`, `MaxStops` (`MCXrunMonitor`),
`MaxSamples`, `MaxTags` (`MCOfdmSampler`), `EdgeCap`, `MaxFrames`, `MaxRestarts`
(`FrameChain`), `MaxLost` (`FibSink`), `LongestList`, `MaxPartial`
(`GetChannels`), `MaxFrames`, `MaxDamaged` (`MCDabPlus`), `MaxItems`,
`MaxRestarts` (`MCNullSearch`), `MaxSamples`, `MaxTags`, `MaxRestarts`
(`MCFrequencySync`), `NumVectors`, `Room` (`Transmitter`). All stand in guards. `InCap`, `OutCap` and `SmallRequest` stand
for the sizes of GNU Radio's buffers and the literal 10 of `forecast()`.

Deadlock is checked except in `MCOfdmSampler`, `FrameChain`, `MCDabPlus`,
`MCNullSearch`, `MCFrequencySync` and `Transmitter`, where the bounded stream
comes to its end, and in `MCCursesApp`, where the program does.

### Properties

* `ImplementsQueue` (refinement), `AudioKeepsComing` for the audio buffer;
* `SymbolsInPlace`, `NoFrameMissed`, `FramesWhole` for the sampler;
* `DeliversFrames`, `SelectsRight`, `InOrder` for the frame chain;
* `ImplementsLists` (refinement), `CompleteLists`, `ListsKeepComing` for the
  sink;
* `PrintedChannelsExist`, `SearchEnds` for `grdab info`;
* `FindsSuperframes`, `ReadsPending`, `OutputFits`, `PlaysInOrder`,
  `KeepsDecoding` for DAB+ audio;
* `MarksMaxima`, `ExcursionsFollow`, `FewFalseMarks`, `NothingHeldBack` for the
  null symbol search;
* `MeasuresOneFrame`, `CorrectsItsFrame`, `SpoiledOnce` for the frequency
  synchronisation;
* `SelectedVisible`, `PlaysActive`, `DecoderFits` for the curses application;
* `ReceiverGetsVectors`, `NullBeforePilot`, `AllIsSent` for the transmitter.

`NullBeforePilot` is a property of the composition: `insert_null_symbol` alone
gives the second of two triggered symbols in a row no silence, and it is the
pilot inserter that never lets two triggers follow one another.

The type invariants of the sampler and of the sink, and `StoppedIsEmpty` of the
audio buffer, are parts of inductive invariants; they are proved and not run.

`CompleteLists` speaks of kinds whose FIGs are all of one form (`Unmixed`) and
send no key twice (`Clear`): a FIG is read in the form of its first entry, so in
one that mixes short and long entries some are misread, wherever the other form
begins; and a list ends where its first key comes again, be it another
service's. That lists keep coming is checked for those services too
(`ListsKeepComing`).

`SearchEnds` has an exception because the code has one. `attempt` is compared
with the last attempt for equality (`get_channels.py:125`): when no channel is
known at that attempt, and one that becomes known later has no label, the loop
never ends. The property says that nothing else keeps it going.

`AudioKeepsComing` has one as well: the decoders tag only their first sample, so
`stop_until_tag()` after that sample silences the block for good (`late`). The
curses application always builds a new decoder, which is `SwitchChannel`, and
after that the programme must be heard: this needs the new decoder's tag.

### Fairness

* `MCSpec` of `MCXrunMonitor`: weak fairness of the decoder, of the sound card
  and of the block's thread. The decoder and the sound card are threads that
  run whenever they have space or data; the executor's thread is woken by
  either. The decoder delivers without end because the transmission does.
  Stopping and configuring are not fair: the user may never do it.
* `SinkFairSpec` of `FibSink`: strong fairness of `GoodFib` for every kind (the
  multiplexer repeats every kind and FIBs of all kinds take turns; losses are
  finitely many), weak fairness of the block's thread.
* `Spec` of `GetChannels`: strong fairness of complete lists for every kind,
  justified by `ListsKeepComing` of `FibSink` for kinds that send no key twice,
  as the ensemble of the run does; weak fairness of the sink's thread and of the
  search. No complete list of labels is ever published when no service has one.
* `MCSpec` of `MCDabPlus`: weak fairness of each of the three blocks' threads,
  which GNU Radio wakes whenever a neighbour has consumed or produced. Reception
  is not fair.
* `MCSpec` of `MCNullSearch`: weak fairness of the block's thread.
* `Spec` of `Transmitter`: weak fairness of the sources and of every block's
  thread, which GNU Radio wakes whenever a neighbour has consumed or produced.

### Findings

Two runs show a disagreement of the code with a test or the README:

* `frame_cut`: a tag inside a unit that starts at a tag is overlooked and two
  frames get into one unit (`qa_repartition_vectors.py:45-47` expects the short
  frame to be dropped);
* `channel_rate`: with the bit rate that `grdab info` prints for the levels A1
  and A4 the decoder's stages do not fit, or it cannot be built, although
  `README.md:97` says to take the options of `grdab receive` from there.

## 4. What is proved

All theorems hold for every value of the constants under the named assumptions
of the modules (a ring of at least four slots; positive capacities; a prefix
shorter than a symbol and a gap not longer than the prefix; an equalizer that
delays by less than a frame; any schedule; a
station of up to 192 kbit/s whose header is one the decoder accepts; any
lengths of symbol, silence and edges, and any triggers; energies
above the value that stands for none; symbols and averages of at least one; any
lists of channels, any terminals and pages).

**Audio buffer.** The inductive invariant is `TypeOK /\ StoppedIsEmpty /\
SnapshotHolds`. `SnapshotHolds` is needed for the types: only because the
executor's snapshot stays good are the edges never overrun. The arithmetic of
the ring is in four lemmas (`FillRange`, `ReadFacts`, `StoreFacts`,
`RoundCounts`), so that the step proofs never open a `CASE` on the position of
the indices. `Refinement` shows that every step of the ring is a step of
`AudioQueue` or a stutter: the heart of it are the lemmas that reading in one
or two pieces takes a prefix of the stored sequence and storing in one or two
pieces appends to it.

**Sampler.** `SamplerInv == SamplerTypeOK /\ History /\ Progress`. `History` is the three
properties about what was cut, made inductive by saying where within the frame
the last symbol is; `Progress` ties the counters to the stream: where the next
symbol must start follows from `read`, `d_pos` and `d_gap_left`, and between
frames no pending tag lies before `read`.

**Frame chain.** `DeliversFrames`, `SelectsRight` and `InOrder` are about the
end of the chain and say nothing of the seven edges and the blocks' counters
before it. `ChainInv == TypeOK /\ SharedInv /\ FicInv /\ MscInv` does, for any
numbers of symbols, any delay of the equalizer up to a frame, any edges, frames
and restarts.

* The two halves, that of the FIC and that of the MSC, are one predicate, `Half`,
  with different windows of a frame. It looks at the line of vectors a selection
  has in front of it: its own edge, the equalizer's history and the equalizer's
  input, with the identity of the vector that comes next behind them (`Trail`).
* `Run`: in this line the symbols of a frame that no restart took anything of lie
  one by one. `IndexRight`: the selection's index is the place in its frame of
  the symbol it reads next. `TagRight`: behind `remove_first_symbol` exactly the
  symbols number 1 are tagged; in the equalizer's history, whose tags are lost,
  `d_add_at` stands for the one tag there may be (`HistTags`). Each of them is
  said only of frames that no restart took anything of: after a restart a block
  goes on with the state of a stream that is gone, and an invariant about all
  frames would be false.
* `Ordered`: what was delivered, what is selected, the line and what is to come
  are in order, and each before the next. That is `InOrder`, inductive.
* `Framed`, only until the first restart: what is selected continues the whole
  frames that were delivered (`Due`), so that `Repartition`, whose search for tags
  falls behind when a tag lies inside of a unit, never sees one there
  (`Regular`). After a restart it does: `frame_cut` shows what happens then.

A call is a lemma of its own: `DropFacts` and `SelectFacts` follow the loops of
`remove_first_symbol` and of `select_vectors` round by round, with the half of
the chain itself as the invariant of the round; `EqualizeFacts` gives the delay
of a tag, across calls of any length; `RepartitionFacts` what the units are made
of. The assumption that the equalizer's delay is no longer than a frame
(`ChainAssumption`; `parameters.py:169-170`, `457`) is needed because the
equalizer remembers one tag from a call to the next, not several.

**FIB sink.** `IInv == SinkTypeOK /\ OnSchedule /\ TodoIsRead /\ CollectsRound
/\ StartsOver`: what is still to be recorded was read from the schedule
(`TodoIsRead`), and a list under collection holds no key equal to its trigger
(`CollectsRound`), so that the published list is a round.

That such a list is complete when nothing was lost (`ListsAreComplete`) needs to
know where the sink is in the schedule. `CompleteInv` adds that the rest of the
FIG in work is the end of the one read last (`TodoInOrder`), and that while no
FIB of the round was lost the list holds exactly what is sent at the places from
the one that set the trigger to the next one, in their order (`CollectsAll`),
around the end of the schedule (`Passed`). When the trigger's key comes again, that place can only
be the one the list started from, because no two places have one key; so all
places have been passed.

**`grdab info`.** `SearchInv == SearchTypes /\ IdsLearnt /\ SubchLearnt /\
PrintedLast`: every ID and every sub-channel in the dictionary is one that was
read for this channel (`IdsLearnt`, `SubchLearnt`), whatever the age of the list
it came from, and nothing is printed before the end. That a channel's
sub-channel keeps the ID that the channel had is *not* among it; it would be
false after a service moved, and the ensemble is constant in the model.
`InsertFacts` proves that inserting a list's references keeps the dictionary's
keys distinct and adds just them. The invariant needs of the sink only
`Published`, that the lists hold entries that were read, which every step of
`ChannelLists` keeps; with `SinkImplementsLists` follows
`PrintedChannelsAreRead`, the same property of `grdab info` on the detailed
sink, in threads of their own (`InfoOnSink`). No run could check that
composition: its states are the product of both.

**Transmitter.** `TInv` says for a number of items (`num`) that are on the air
that all further ones are numbered on: symbols and products, then what is marked,
then what is still to be inserted, each with the trigger it belongs to
(`Numbered`), and each symbol the product of its vector and the symbol before
(`Chained`); and that the samples sent are right (`OnAir`): the air so far is
sound, and its end is continued as `d_ns_added` and the next trigger say
(`Continues`). The calls are the work: for each of the three blocks a lemma
proves by induction what any number of rounds of its loop makes of the state
that the call began with (`PilotRuns`, `NullRuns`), with an invariant of the
round for `insert_null_symbol` (`RoundInv`). `NullBeforePilot` is inductive only
with the pilot inserter's part of `Numbered`, that two triggers never follow one
another; and `ReceiverGetsVectors` only with the products of all symbols in
flight, the one that `d_last_symbol` remembers included.

**Induction.** What a recursive function computes is proved without the
library's induction theorems, which the provers cannot instantiate: `LeastNumber`
takes from `WFMin` the least element of a set of natural numbers, `Induction`
follows for a set instead of a predicate, and `Recursion` gives from it that a
function defined by `f[0]` and a step from `f[n - 1]` exists, which is what a
definition by `CHOOSE` needs. The proof modules that use them state them.

**DAB+ audio.** `IInv == TypeOK /\ FindsSuperframes /\ InCall /\ ReadsPending
/\ Production /\ Played`. `InCall` says that between calls all that was copied is
written and within one the copied superframes are those of the request;
`Production` bounds what a call has produced after so many access units, for
which the lemma `AusFit` computes that a superframe's samples fit the output
multiple for each of the four forms of a header; `Played` keeps the access unit
played last behind the one that is next, from which the action property
`PlaysInOrder` follows.

**Null symbol search.** `IInv == TypeOK /\ Calls /\ Place /\ Maximum /\
MarksMaxima /\ ExcursionsFollow`. The heart is `Maximum`: during an excursion
`d_peak_val` is the value at `peak_ind` and that is the first maximum of all
items seen, where at the beginning of a call `peak_ind` 0 is the maximum that
the call before has returned up to. `Place` says where the excursion stands and
that all marked ones end before it. Cutting the stream (`WorkEnd`) restricts the
range of the maximum to the items passed on and itself; an item (`NewPeak`,
`StaysAbove`) extends it.

That restarts make few false marks (`FewFalseMarks`) has an invariant of its
own, `CutByRestarts`: the marks that restarts spoiled, and the excursion in
progress if a restart has cut it, are at most as many as the restarts. Without
the excursion in progress it is not inductive. The steps that mark add at most
one element to a finite set (`FS_AddElement`).

**Frequency synchronisation.** `IInv == TypeOK /\ TagKnown /\ Behind /\
Measuring /\ Tracked /\ Complete /\ Spoiled /\ MeasuresOneFrame /\ SpoiledOnce`.
`Measuring` says that a measurement in progress consists of the first symbols of
the last tag's frame, whose start the counters tell (`Start`); `Tracked` that no
tag is forgotten, unless a restart came after it; `Complete` that every
undisturbed frame has its estimate once the delay has passed. From `Complete` and
the order of the estimates (`Behind`) follows `CorrectsItsFrame`: a later estimate
belongs to a later tag, which is more than the delay away. `Spoiled` says that a
measurement which a restart has cut began before it, so that there is one of
them for a restart.

**Curses application.** That `SelectedVisible` is kept is shown key by key
(`MenuVisible`). The `IInv` of the switch says how far it has come at each step:
the receiver is tuned before the decoder is built, the store is empty before the
flowgraph starts, and from there on the buffer and its edges hold nothing but
the current programme (`Clean`), which the steps of the queue keep because what
they give is made of what they hold (`PiecesOfSeq`). `FitsAll` is the arithmetic
of `msc_decode.py` for all n and all four levels: ones of the puncturing vectors,
length of the sequence, bits of a frame.

Two definitions were changed because a proof of them failed. `Clear` excluded
FIGs that are misread as some entry; but one that begins with a short entry
loses its long entries without a trace, and `CompleteLists` was false of it.
And the round of `insert_null_symbol` was a `CASE` whose guards overlap: TLA+
leaves open which branch is taken then, TLC takes the first. It is an `IF` now,
as in the code.

Only model-checked: all liveness (`AudioKeepsComing`, `ListsKeepComing`,
`SearchEnds`, `KeepsDecoding`, `NothingHeldBack`, `AllIsSent`), which is out of
the prover's reach. Every safety property that a passing run checks is proved.

## 5. What is not modelled, and the plan

Not modelled because TLC and TLAPS cannot say much about it: floating point
signal processing (moving sums, frequency and rate estimates, equalisation,
phases), Viterbi and Reed-Solomon arithmetic, AAC and MPEG decoding. Not
modelled because there is no state: command line, configuration, drawing,
sources. Third party or not built: `lib/fec`, `neaacdec.h`, `lib/dab_*.cc`,
`legacy/`, the bindings. More than half of the repository's Python lines are
generated or external documentation tools (`docs/doxygen`), and the control of
the receiver is in C++; the share of Python lines that the modules stand for is
small for that reason.

A multiplexer that is reconfigured while a list is collected is not modelled: if
the list's first key is never sent again, the list grows without bound and is
never published, which no finite instance can follow.

The plan; what is done is in order of its making.

1. `XrunMonitor` with `AudioQueue` (refinement checked and proved).
2. `OfdmSampler` (invariants proved).
3. `VectorBlocks`, `FrameChain` (all safety proved).
4. `FibSink` with `ChannelLists` (refinement proved).
5. `GetChannels` against `ChannelLists`.
6. Proofs of 1, 2 and 4.
7. `NullSearch` (all safety proved).
8. `DabPlus` (all safety proved).
9. `FrequencySync` (all safety proved).
10. `ChannelCoding`, `ChannelMenu`, `CursesApp` (all safety proved).
11. `Transmitter` (all safety proved).
12. `CompleteLists`, and `GetChannels` on both sinks (all safety proved).

Left:

13. `mp2_decode_bs`: its bit-wise synchronisation and the logical frames of a
    call, whose counter is not initialised.
14. The index maps of `time_deinterleave_ff` and `select_subch_vfvf`, checked
    against the standard's interleaver.
15. The correction of the sample rate, a thread of `ofdm_demod` of its own.
