# A TLA+ model of PALindrome

PALindrome turns a recorded or live PAL signal into pictures. Most of the program is
streaming arithmetic; what is hard to test in it is the *control* in and around that arithmetic:
filters that must not notice where a block was cut, flywheels and bistables that keep time through
noise, a threaded pipeline over pooled buffers, a work queue that splits a batch between threads, a
phosphor whose updates are staged, batched and deferred, a web server that restarts a decoder under
its readers, and command lines, sliders and profiles that must mean the same to three programs. These
modules model that control, TLC checks it on small instances, and TLAPS proves the central results for
every value of the parameters.

Paths below are relative to the repository.

## 1. Inventory

| Component | Source | State it keeps | Operations | What makes it correct |
|---|---|---|---|---|
| Pipeline runner | `lib/include/palindrome/pipeline_run.hpp` | buffer pools (semaphore + free list), one FIFO run loop per stage, the error funnel, the scope's count of chains | `run`, the source's `emit`, one hop per stage, skip, capture, drain | buffers are neither lost nor used twice; the sink sees the blocks in order on intact data; any exception ends in a clean drain and is rethrown |
| Work queue | `lib/include/palindrome/work_queue.hpp` | the batch's span, cursor, remaining count, first error, stop flag | `run`, `drain`, `worker`, destruction | each task once; `run` returns after all of them; the error is this batch's; workers exit |
| Deposit backend | `lib/cpu_deposit.cpp`, `deposit_backend.hpp`, `buffer.hpp` | the phosphor, staged records, owed fade, latch | `acquire`, `commit`, `end_field`, `latch`, `readout`, `readout_latched` | laziness is invisible: readers see what an eager phosphor would show |
| Screen | `lib/screen.cpp` | the span it writes into, line state (limiters, width, EHT), field state, latched white level | `process`, `flush`, `snapshot`, field events, `latched_frame` | every record reaches the backend once, in order; per-line gains are those of the line |
| Splat deposit | `lib/splat.cpp` | band edges, buckets, frame buffer | `apply`, serial and banded | the banded result is byte-identical to the serial one; no two tasks write a row |
| Horizontal sweep | `lib/horizontal_sweep.cpp` | phase, stashed leading edge, time since the last edge, coincidence counter, rate | `process` per sample | only line pulses drive it; a charged flywheel keeps its slow gains through noise |
| Vertical sync | `lib/vertical_sync.cpp` | integrator, slice state, hold, phase, rate | `process` per sample | an impulse taken for a field costs one field; a clean signal is tracked |
| Sync separator, AGC | `lib/sync_separator.cpp`, `lib/agc.cpp` | slicer levels and hysteresis, peak tracker | `process_fixed`, `process_adaptive`, `process` | the slice recovers from any level, a fade or a jump |
| Chroma decoder | `lib/chroma_decoder.cpp` | line segment, burst gate, PAL switch, ident, colour killer, comb ring | `process`, `finalize_line`, `decode_segment` | a burst acts at the same sample for any blocks; the switch keeps to the transmitter and comes back to it; the killer mutes only what has no identity |
| FIR, stage protocol | `lib/fir.cpp`, `docs/architecture.md` | history, decimation phase | `prepare`, `process` | the output does not depend on how the input is cut into blocks, nor on the vector tier that computes it |
| Demodulators | `lib/demod.cpp`, `lib/composite.cpp`, `cli/cli_util.cpp` | Hilbert parity and delay, tank, phasor, clamp | `prepare`, `process` | the whole source becomes one envelope, inside the budgets of `prepare` |
| Decoder | `lib/decoder.cpp` | its stages and the buffers between them | `prepare`, `decode_into`, `deposit` | stages see equal sample counts; decode of a block may run beside the deposit of the one before |
| Render driver | `cli/render_command.cpp`, `cli/cli_util.cpp`, `cli/profile_args.cpp` | frame counter, output mode, the pipeline | profile expansion, option checks, `on_field`, `write_frame_fd`, sources | a command line means what its flags and profiles say, or is refused; frames are written once, in order |
| Live view | `tools/live_view.py` | decoder child and its generation, card pump, latest frame, knob values | HTTP handlers, reader loop, restart, record, load, save, stop | a late reader never disturbs a newer child; no child outlives the server; a recording ends |
| Tuning tools | `tools/knobs.py`, `tools/tune.py` | the page's sliders, the profile directory | load, move, render, save | a saved profile gives its session back |
| Scripts, formats, kernels | `tools/golden.py`, `lib/sigmf.cpp`, `wav`, `image`, `fft`, ... | none across calls, or float state | single passes | no control beyond the stage protocol |

How they interact: `render` builds a source (file, WAV or stdin), a decoder and a screen, and hands
`pipe::run` a source function, the decode transform and the deposit sink
(`cli/render_command.cpp:484-492`). `pipe::run` moves pooled buffers from the calling thread through one
worker per stage. The deposit sink calls `Screen::process`, which writes records into a span of the
deposit backend; at a field boundary the screen calls `on_field` (the frame writer), which reads or
latches the phosphor. The CPU backend lands its records through `SplatDeposit::apply`, whose band tasks
run on a `WorkQueue`. `live_view.py` runs `render --live` as a child, pumps samples from a capture into
its stdin and serves its frames.

The hard behaviours: semaphore and free list are updated in two steps by different threads; the
`stopped_` flag is stored and loaded with relaxed ordering; an exception may start in any stage or in
the source while blocks are in flight; a batch may arrive while helpers sleep, wake or have not yet
started; `tasks_[i]` is read without the lock; the phosphor's records are written in storage that may
be reallocated, under a fade not applied yet, next to a latch not copied yet. In the signal chain: a block may end
inside a burst, a decimation step or a vector register; a noise pulse may pass for a line, for a field or for a burst, and
the state it leaves behind must not keep the true ones out. In the tools: three programs share one table of knobs, each with
defaults of its own. `PROJECT.json` lists each
at its line with the property that covers it, or why none does yet.

## 2. The modules

| Module | Models | Kind |
|---|---|---|
| `StreamRun` | what `pipe::run` promises, threaded or not | abstract specification |
| `Pipeline` | the threaded `pipe::run` | detailed; implements `StreamRun` |
| `LivePipeline` | `Pipeline` with the endless source of `render --live` | composition |
| `BatchRun` | what `WorkQueue::run` promises | abstract specification |
| `WorkQueue` | the queue, its helpers and its destruction | detailed; implements `BatchRun` |
| `Phosphor` | the eager phosphor of the deposit contract and of `CpuDepositTest.cpp` | abstract specification |
| `CpuDeposit` | the CPU backend's operations, as functions of its state | component |
| `ScreenDeposit` | the Screen's use of the backend | composition; implements `Phosphor` |
| `SplatBands` | the banded `apply` on the queue, with the serial loop as reference | component |
| `CardPump` | the capture card's pump, the pipes it feeds, recordings | component |
| `LiveView` | the decoder child under the running server: restarts, readers, shutdown | component |
| `FirFilter` | `dsp::Fir` and `FirPair`: kernels, history, phase, as functions | component |
| `FrontEnd` | loading, carrier, the three demodulation chains, streaming | composition, over `FirFilter` |
| `SyncChain` | AGC, slicer, horizontal and vertical flywheel, as functions | component |
| `SyncSignal` | the chain under a field script and what spoils it | composition |
| `BurstSwitch` | what one burst does to switch, ident, killer and pull, as functions | component |
| `PalSwitch` | the switch over a reception, line by line | composition |
| `ChromaLine` | the chroma decoder over samples and blocks | composition, over `BurstSwitch` |
| `KnobTable` | the knob table of the tools, its flags and its profiles | component |
| `RenderArgs` | from `render`'s words to a decoder or a complaint, as functions | component, over `KnobTable` |
| `TuningSession` | a session of either tool, its profiles, a command line that uses them | composition |
| `PipelineProofs`, `WorkQueueProofs`, `CardPumpProofs`, `LiveViewProofs`, `FrontEndProofs`, `TuningProofs` | theorems about the components of those names | proofs |
| `ScreenProofs` | theorems about `ScreenDeposit` and `SplatBands` | proofs |
| `DecoderProofs` | theorems about `ChromaLine`, `PalSwitch` and `SyncSignal` | proofs |
| `MC*` | instances for TLC | |

Each module states its variables' ranges in one type invariant where a wrong update could leave them;
`TypeOK` of `ScreenDeposit`, `SplatBands`, `CardPump` and `LiveView` is there to be read and is part of what
is proved; no run lists it: their other properties fail first.

### Pipeline

State and code: `src` and `pc[s]` are the control points of the calling thread and of stage `s`'s worker;
`queue[s]` the worker's `run_loop`; `avail[p]` and `free[p]` the two halves of a `Pool`; `srcBuf`, `job[s]`
and `out[s]` the handles; `active` the async scope's count; `err` and `stopped` the `ErrorFunnel`. An
action is the code between two points where another thread can interfere: taking the semaphore, then
popping the free list, pushing to it, then raising the semaphore, are four actions.

- *Buffer contents* are the number of the block they were computed from (`data`), so a stage that reads a
  buffer somebody refilled too early is seen.
- *The free list* is a set. The code pops its back; no property can tell which free buffer is taken.
- *The relaxed flag.* `stopped_` is stored and loaded with `memory_order_relaxed`. Before a thread has
  seen it, a load may return either value even after the store; once it has seen TRUE, and on
  any worker the hop from such a worker reaches (the run loop's mutex orders the two loads), coherence
  forces TRUE. `view[s]` and the chain's `saw` carry exactly this.
- *Handles.* A stage's input is released when its lambda returns, before the hop to the next worker;
  the output of a transform that throws is released by the unwinding, before the capture.
- Not modelled: allocation failures inside `acquire` and `spawn`, and the serial path
  (`threaded == false`), which is planned as a second implementation of `StreamRun`.
- `InFlight[p]` is general per pool; `render` uses one number, 16, for all.

### WorkQueue

`pc[t]` tells whether a thread is idle, asleep on a condition variable, woken (it contends for the
mutex), holding a claimed task, or holding a finished one. Every critical section is one action,
from the lock or the wake to the next unlock or wait, including the claim of the next task. Spurious
wakeups are actions; nobody relies on one, since they have no fairness. Not modelled: the inline path of
a queue with one participant, which shares nothing.

### CpuDeposit and ScreenDeposit

Light is the sequence of splats and fades it is the result of: float additions and multiplications do
not commute, so two frames are equal when the sequences are. `mem` is the staging storage up to its
capacity, with `Junk` where the content is unspecified; `block` tells one allocation from the next, so a
record written through a span of a freed allocation is lost. A record is the number of its sample.
The signal decides which samples start a line, wrap the field or are blanked: any pattern is allowed.
Not modelled: the camera (`quantise`), `apply` throwing half way through `land`, and a callback that throws.

### SplatBands

A row is the sequence of records added to it; a record is its centre row and its class radius, since
columns and weights are never split between tasks. `Bin` is one turn of `bin`'s loop, from which each bucket the record
touches gets it; beside it the history variable `serial` takes the same record as `apply_serial` would, so that it
ends as the frame of the serial loop and can be compared with at any moment. The queue appears by what `WorkQueue` establishes:
participants claim tasks in order, each once, at most `Lanes` at a time.

### CardPump

The pump thread's control points are `pump`; it holds its lock from `write` to the end of `tee`. `sink`,
`rec` and `done` are the fields of that name; `open` is the set of children whose stdin still has its
write end open, so that a descriptor closed twice or never shows. A chunk is `Parts` pieces and a piece
is what one `os.write` may transfer: a write puts any number of them that fits into the pipe. Pieces are numbered in
stream order modulo `Cycle` chunks. A restart is the three steps kill, spawn, attach, by one thread at a
time (`Decoder.lock`); after `_kill` the child may not be gone yet, since the last resort `p.kill()` is not
waited for. A set event notifies the threads in `wait` even if it is cleared before they run.
Not modelled: a `Popen` that fails between the making of the pipe and `attach`, and signals other than
the kill.

### LiveView

`setter[h]` is where a `/set` handler is: it holds `values_lock` from `restart` on and `Decoder.lock` from
`kill` on, both up to the reply. A handler serves one request: `Request[h]` gives the knobs in its query and their values,
in thousandths, and one that puts a slider out of its range is refused (`SetRefused`, the 400). Knob `Colour` decides the
frame size, and the code reads it twice: the server counts three channels when the value is not zero (`Channels`), the child is
given `--colour` when its whole part is not (`Emits`). Every child `n` keeps what it was started with (`runs`), the generation its
reader was given (`bornAt`) and what its reader counts on (`sized`, read late and without a lock, as
in the code). The pipe is shorter than a frame, so a reader whose child is gone finds no frame left. Not
modelled: the viewers and their mailbox `LatestFrame`, the tuner child `airspy_rx`, and `main`
before it serves. What a child reads is `CardPump`'s subject, what a knob means `TuningSession`'s.

### FirFilter and FrontEnd

A number is what it was computed from: sample `k` is `<< k >>`, a dot product is the sequence of the values
its taps met, tap 1 first. The kernels sum in one order in every tier, so two outputs are bit-identical exactly
when these sequences are equal. A value of a recurrence (tank, DC blocker, phasor, clamp) is the count of samples it
has absorbed. `FirProcess` is `Fir::process` and `FirPair::process` with the tiers they choose between: the
32-wide and the 8-wide tier with their stride-2 shuffles, the even and odd planes of the decimating pair, the
scalar rest. Every load is bounded by the window and every `write_n` by what `prepare` reserved, so a block that
does not fit (`"threw"`) or a register that reaches too far (`"overread"`) is a status of the run.
`FrontEnd` goes from the recording or stdin to the envelope: what loading refuses, the carrier by option, metadata or
scan (the head of the file read as 16-bit samples, as the code does; any bin of the band, and up to half a bin beside it), the
constructors' checks in kHz and centi-dB, and one action per block. `--sound-notch-db` deepens or fills the template
(`Notch`) and so decides whether an input whose Nyquist rate falls on the sound carrier is taken; `--gd-ripple` only turns the
taps' phases. What `CompositeInput` checks beside its corner, the scale
and the clamp, cannot fail: the driver passes on positive ones only. The taps' values are not modelled, nor which bin a scan finds
its peak in.

### BurstSwitch, ChromaLine and PalSwitch

`BurstSwitch` is `finalize_line`: a burst is a level (strong or weak) and the sense it swings; the decayed peak is how
many more closes hide a weak burst; ident and killer are leaky integrators in fixed point. `ChromaLine`
runs it inside the per-sample machine: a raw quadrature is its sample and the number of retunes before it, the
controls of a sample are the burst they were derived from, so a property can say which gate run a sample was
rotated by. Its steps are the turns of the code's three loops: the caller hands over a block of any length (`TakeBlock`,
`process`), `decode_segment` mixes up to the next gate close (`CutSegment`), and pass 3 takes one sample
(`DecodeSample`). What a sample should come out as is stated on the whole stream, in closed form: the closes up to it,
the measured ones among them, the gate run before the last of these, the last line that fitted the ring. The comb's ring is the code's ring, with its capacity. The filters pass their input on: `FrontEnd` shows
what a `Fir` does with cut blocks. `PalSwitch` takes lines for steps: `Line` is every kind of line
a reception allows, and a line in which the gate closed twice, or never, calls `finalize_line` that often.
Wrong bursts count as isolated when the ident has risen in between so far that one more leaves it above the
threshold (`Recovery`): a condition on the reception that its constants must meet, whatever they are. Not
modelled: the size of the frequency pull and its catching range, and the ACC.

### SyncChain and SyncSignal

The envelope is a sequence of segments, each a level held for so many ticks; a tick is a thousandth of a line. A
stage takes a segment at a time: slicer and edges at its first sample, oscillators, integrator and the slow
trackers over its length. Levels, phases and rates are fixed point (in the header of `SyncChain`), the arithmetic is
the code's, rounded: leading and trailing edge with the width gate that scales with the rate, the hold gates measured
from the last accepted edge, the coincidence counter with its penalty, the two gains, the clamps, the integrator with
its charge and its hysteresis. `SyncSignal` plays a frame (two fields, equalising and broad pulses included) into it and spoils it in
one of three ways; `Play` is `decode_into`'s timing half. The picture may be anything up to blanking, and no blacker;
a clean signal may be entered at any pulse. The impulses drive the horizontal rate over 0.83 to
1.17 of nominal. Not modelled: the low-pass before the slicer (a `Fir`), noise that is not an impulse.

### KnobTable, RenderArgs and TuningSession

Values are integers in thousandths, a frequency in kHz; a choice is its index and a toggle off or on, in thousandths too
(`Index`), because `/set` takes any number for them and each user of the value cuts it (`Cut`). JSON types
are kept, since the code looks at them, and so is an `input` of null. A command line is a record of the flags given, the profiles named and the
other options; `Render` is its way through `expand_profiles`, the parser, `RenderCommand::run`, `decoder_config` and
the constructors. The Screen's constructor bounds the size of the picture and the extremes of the beam, which have to fit an
int16 (`BeamInRange`): where each sweep lands at either end and a quarter beyond, unspread and at the greatest droop of
the EHT and pull of the line. The root in the droop is a table rounded down (`Swell`), at the resolution of the model. `Merged`, the loop over the profiles, is a recursive function, not a RECURSIVE operator, so that it can be proved about. The actions of `TuningSession` are the tools' operations: opening with seeds, moving a slider, rendering,
loading, saving, and at the end a command line of the user's on what is there. Requests are served one at a time here.

## 3. The runs

| Run | Question | Bounds, and why they are enough |
|---|---|---|
| `pipeline` | does the threaded run keep buffers, order, drain and promise under any schedule and any throws? | Three stages: the smallest with a stage that both skips and is skipped. Two source buffers and one per output pool: each pool reaches empty, the source waits for a buffer, workers wait for each other. Four blocks: one in each stage and one waiting, so a buffer is reused while its former content could still be read. |
| `live_pipeline` | is a stage's exception rethrown when the source never ends? (violated) | Decode and deposit, one buffer each. Block numbers are reused after `NBlocks` and the chains in flight are capped by `MaxChains`; the property looks at neither. |
| `work_queue` | does each batch run exactly once and return with its own outcome, and do the workers exit? | Two helpers and the caller; batches of 0 to 3 tasks: fewer than and as many as the threads, of which a quick one may run several. Two batches show what one leaves for the next; destruction may come at any idle moment, before the first batch too. |
| `screen_deposit` | is lazy, batched, span-staged deposit invisible? | Blocks of up to 3 samples, 5 records, 3 fields. `prepare` skipped and first growth to 2 records, so that storage is reallocated with and without committed records, inside a block and across calls. |
| `splat_bands` | do banded tasks produce the serial result, without sharing a row? | Seven rows over six bands, an uneven split; every pair of records with centres off the top, on each kind of row and off the bottom, and radii 0 and 2 (up to five rows, hence several bands). |
| `card_pump` | is every child's input whole, every descriptor owned, every ok true, and does a restart get past a blocked write? | Two children, so that one is replaced while the pump writes to it; two recordings, so that one may follow or meet the other; chunks of two pieces and a pipe of one, so that a write blocks and is cut in the middle; recordings of two and three pieces end at a chunk's end and inside it. The numbering repeats after two chunks, more than pipe and hand hold. |
| `live_view` | is a late reader harmless, a real death noticed, the running child the one the page shows? | Three handlers and three children: two restarts may overtake the readers of both earlier children. One request switches colour off, one puts it at a half and moves a second knob, one is refused; merged in either order they give every way the two readings of `Colour` can agree or differ. |
| `front_end` | does every chain turn every source, however cut, into its one envelope, within its buffers? | Filters of 5 and 7 taps: the code's loops do not look at the number beyond its parity. Blocks of 1, 2 and 3 (shorter than filter and decimation skip), 9, 15 and 20 (one 8-wide pass, and one that must be refused), 63 and 70 (past the 32-wide tier) over 75 and 150 samples, decimation 1 to 3, every chain, file and stdin; and every option a constructor may refuse. |
| `chroma_line` | does a burst act at the sample the whole stream says? | Three lines of six shapes: nominal, gate cut by a line start, two closes, a start inside the gate, the longest line the ring measures and one too long, no gate. Each block of 1, 3, 4 (a line) or 30 (everything) samples, in any order; the four comb modes; with and without the pull. |
| `pal_switch` | does the switch keep to the transmitter, come back to it, and the killer mute what it should? | Seven receptions. A coarse switch (ident over 4 lines, short ramps) under anything at all, then under isolated faults, with and without the killer; the shipped constants under the attack of `ChromaDecoderTest.cpp:161-165`, which inverts the swing every 313 lines, at the idents of the table in `docs/Firetrack_BW_Trick.md`: 10 and 30 (faster than a tenth of that), 200 and 1000 (slower than half of it). In between the picture flickers, and nothing is claimed. |
| `sync_signal` | does the chain track a clean signal from anywhere, and keep a lock it has? | Both slicers, dark and bright pictures; up to four impulses of three kinds and any of three entries into the frame; two impulses or dropouts at least 20 lines apart; a fade to half and a jump to 1.3. Sixteen full lines a field: fewer than the 290 of a real one, with the script's intervals whole, and as many as the coincidence counter needs. Nine fields are more than the slow trackers' three. |
| `tuning_session` | do profiles, sliders and command lines mean the same to the tools and to `render`? | One name saved and re-saved; two moves, each to an end of a slider's range or back, or by hand half a unit past an end (past the range of a slider, between two values of a choice or toggle): seven sliders, of every type and with every kind of difference between the tools' defaults and `render`'s; seven files somebody wrote by hand, one of input null; command lines with no, one or two profiles, in both orders, for pictures up to and beyond the largest. |

Deadlock is checked in the runs of the threaded C++ components, where `Returned`, `Gone` and `Done` are the only
states that stutter for ever, and in `pal_switch` and `sync_signal`, whose signal never ends. It is off for
`CardPump` and `LiveView` (a lost card and an exited server are real ends) and for `front_end`, `chroma_line` and
`tuning_session` (the stream, or the session, is over).

**Fairness.** `Pipeline` and `WorkQueue` assume that a thread that can move eventually does (weak
fairness of each thread). That suffices in the pipeline because each semaphore has one waiter (a pool
is acquired from by one thread only) and no lock is held across a block; in the queue because a notified
thread stays notified until it runs. In `WorkQueue` the caller's step is fair too: a program that owns
a queue eventually submits or destroys. The source is assumed to end or to throw in `pipeline`,
and to go on for ever in `live_pipeline`. Nothing assumes that an exception happens or does not.
In `CardPump` the card delivers while it is there, a signalled child dies, and `attach` is strongly fair:
the pump frees its lock for as long as the card takes to fill a chunk, so a thread that waits for it gets it;
no child is assumed to read, except in `LiveSpec`, where the children run too. In `LiveView` every thread
that can move does; each handler takes `Decoder.lock` once, so weak fairness is enough. Nobody has to move
a slider or press Ctrl-C, and no child has to die by itself. In `PalSwitch` lines keep coming, as they do
while there is a carrier; that a signal ever turns clean is not assumed, it is in the property. `SyncSignal` assumes nothing:
its recovery is bounded (`Settle` fields), hence a safety property.

### What the properties say, and the bug each one is shown to catch

Each property is run once more against the model with one definition replaced by an `X_...` variant
of it, a plausible slip in that code, and must then fail.

| Module | Property | Says | Fails with |
|---|---|---|---|
| Pipeline | `TypeOK` | counts stay in range: no semaphore below zero | `SemAcquire_NoWait`: the semaphore does not block |
| | `NoEmptyDeref` | no stage runs on the empty handle of a skipped one, relaxed loads notwithstanding | `Loads_Incoherent`: a later load may miss what an earlier one saw |
| | `InOrder` | each stage completes 1, 2, 3, ... on intact data | `Capture_NoStop`: the flag is not set |
| | `BuffersConserved` | free and held partition each pool, on every path | `RunThrow_LeaksOut`: the output is not released on a throw |
| | `BackpressureBound` | until a stage fails, its pool bounds the blocks waiting for a stage or in its hands | `SourceSpawn_ReleasesHandle`: the handle is not moved into the chain |
| | `CleanDrain` | on leaving, loops empty, workers idle, buffers home | `SourceSpawn_Uncounted`: the scope does not count the chain |
| | `Refines` | implements `StreamRun` | `Return_ForgetsFunnel`: the funnel's error is not rethrown |
| | `Terminates` | `run` leaves | `Hop_DropsTripped`: a tripped stage drops the chain |
| WorkQueue | `TypeOK` | | `Claim_Unchecked`: claims past the end |
| | `ClaimsAreOwn` | a claimed index belongs to the live batch and to one thread | `AwaitOrReturn_NoWait`: the caller does not wait |
| | `Refines` | implements `BatchRun` | `AwaitOrReturn_KeepsError`: the error survives into the next batch |
| | `BatchReturns` | every batch returns | `NotifyCaller_Forgotten`: the last task does not wake the caller |
| | `WorkersExit` | after stop every worker leaves | `Stop_Unnotified` |
| ScreenDeposit | `ShowsEagerPhosphor` | implements `Phosphor` | `Land_RecordsFirst`: records land before the fade owed to the field before |
| SplatBands | `ByteIdentical` | each row's adds are a prefix of the serial loop's, and all of them at the end | `BinnedInto_First`: only the first band gets the record |
| CardPump | `InputUnsheared` | a child's input starts with a whole chunk and misses nothing after it | `Attach_Unlocked`: the sink is swapped in the middle of a chunk |
| | `SinkIsOwned` | a write end is open exactly while somebody means to write to it | `BrokenPipe_KeepsSink`: closed but not forgotten |
| | `OkMeansRecorded` | who is told ok has the whole of what it asked for | `Record_KeepsDone`: the event is not cleared |
| | `RestartCompletes` | a restart ends, although the pump may sit in a write with its lock held | `Kill_Nobody`: the old child lives on and does not read |
| LiveView | `RestartIsNoDeath` | the server stops by itself only for a real death | `Restart_KeepsGen`: the generation is not bumped |
| | `DecoderRunsValues` | a child that runs is the last one spawned, and when no `/set` is under way it runs the applied values | `Set_EarlyUnlock`: `values_lock` freed before the restart |
| | `CurrentReaderIsSized` | the current reader counts on what its own child writes, except, and then never, for a colour that is not zero and has a whole part that is | `Set_ChannelsEarly`: changed before `Decoder.lock` |
| | `DeathIsNoticed` | a death ends the server or is replaced by a restart | `ReaderEnds_OnFailOnly`: left to `on_fail` |
| FrontEnd | `ChunkingInvariant` | a block yields the next samples of the one envelope of the whole source | `FirAdvance_DropsPhase`: the skip left over is forgotten |
| | `LoadsInBounds` | no vector tier loads past its window | `StripGuard_OneShort`: the second register is left out of the bound |
| | `WholeSourceDecoded` | budgets cover every block, the last sample counts | `BlockLen_FullOnly`: a short last block is dropped |
| ChromaLine | `RetunesAtGateClose` | a retune reaches the mix at the sample after the second of two good closes, for any blocks | `SegmentEnds_InBlock`: a gate the block before left open ends no segment |
| | `BurstsMeasuredWhole` | the controls come from the whole of that line's gate run and nothing else | `LineStart_KeepsBurst`: a line start leaves the burst gathered so far |
| | `CombReadsOneLineBack` | the comb's mate is exactly one measured line, or the glass block, back | `CombRead_OneLate` |
| PalSwitch | `LockHeld` | isolated wrong bursts and gaps neither invert V nor mute, nor with a fast ident does the attack | `Toggle_OnGoodOnly`: the bistable stops in a gap |
| | `ColourReturns` | a signal that turns clean gets its switch right and its colour back, for good | `MisPhased_Never`: the ident never corrects |
| | `SlowIdentIsKilled` | an ident slower than half the attack's frame is muted by it for good | `IdentStep_Fixed`: the time constant is ignored |
| SyncSignal | `OnlyLinePulsesDrive` | equalising and broad pulses never drive the horizontal flywheel, at any rate | `LineWidth_Wide`: the window has no upper limit |
| | `NoiseKeepsLock` | an impulse or a missing pulse does not unlock a charged flywheel | `Charge_Resets`: a miss empties the counter |
| | `TracksAgain` | from any garbage, and after a fade, a clean signal is tracked within `Settle` fields | `AgcRelease_Stuck`: the peak never decays |
| | `FieldReturns` | an impulse taken for a field costs one field | `Cross_RestartsHold`: a rejected crossing restarts the hold |
| TuningSession | `SavedSessionReloads` | a fresh session seeded from a saved profile has every slider where it was, a choice or toggle left between two values at the one it stood for | `ProfileJson_DropsZero`: zero is taken for unset |
| | `RenderTakesProfiles` | what the tools load, `render` takes with any flags of the user's, each knob from where it should come; only an input of null, a crossed burst gate and a picture above 16384 are refused | `UserHas_OneSpelling`: `--color` does not silence `colour` |
| | `PlaybackKeepsSliders` | played back by `render`, a session keeps its sliders but for those left at a default `render` does not share | `Tokens_ZeroIsFalse`: a zero value is no flag |
| | `OnlyCrossedGateRefused` | every end of every slider's range is accepted, except crossed gates | `ForInput_Unfiltered`: the other mode's knobs are passed too |

### Disagreements found

The first has a run of its own. The next four are stated in their modules, where the code breaks them; to see the trace,
add the line named to the configuration.

1. `live_pipeline`. The comment at `pipeline_run.hpp:39-41` says a worker exception "winds the pipeline
   down, and is rethrown on the calling thread". The capture only sets a flag that stages read; the source
   is never told, and `run` rethrows only once the source has returned. With `render --live` the source
   does not end, so after a stage has failed every block is read and discarded, and `run` never leaves.
2. `INVARIANT JoinedWhileAlive` in `WorkQueue.cfg`. In `WorkQueue`, `workers_` (line 118) is declared before the
   mutex, the condition variables and the stop flag, which are therefore destroyed first: the jthreads are joined only
   afterwards, while a worker may still wait on, lock or read them.
3. `INVARIANT NoInvalidSpanKept` in `ScreenDeposit.cfg`. `latched_frame` reads the backend without the flush that
   `screen.hpp:240-242` promises "on any read", so the Screen keeps a span that `deposit_backend.hpp:62-64`
   declares invalidated. With the CPU backend the span survives (`ShowsEagerPhosphor` holds); a backend that uses the
   freedom the contract gives it would lose the open span's records.
4. `SPECIFICATION LiveSpec`, `PROPERTY DeviceGoneEndsDecoder`, `Recorders = {}` and `MaxGens = 1` in `CardPump.cfg`.
   `CardPump.run` returns, or raises, with its sink open when the card stops delivering: the
   decoder waits for input for ever and `dead` is never set, though `live_view.py:651-652` wants the server
   stopped when the "device [is] gone, so we don't keep the last frame up forever".
5. `INVARIANT NoneSurvives` in `LiveView.cfg`. `live_view.py:17` says "Ctrl-C stops all three". `stop` kills the child,
   but a handler that waits for `Decoder.lock` meanwhile spawns another before the process is gone; with the tuner as
   source it goes on decoding into a closed pipe (see 1).

Met while the tools were modelled, and built into the model (a property says what is left):

6. A saved profile drops the values at the table's defaults, and `knobs.py:18-20` takes those for `render`'s. They differ:
   `colour` is on in the table and off in `render`, `beam_sigma_x` is 1.1 and `render` derives it from the mode, the
   composite `cutoff` is 4.8 MHz and `render`'s 5.5, and `saturation`, `contrast`, `sound_notch_db`
   and `gd_ripple` depend on another choice in `render`. `PlaybackKeepsSliders` says exactly which sliders
   a playback loses.
7. The sliders `burst_lo` and `burst_hi` can cross. The chroma decoder's constructor throws, the live view's child exits,
   and the reader of that generation stops the server, although `live_view.py:398-400` wants a bad value to be a
   400. `OnlyCrossedGateRefused` shows it is the only such pair.
8. A toggle counts from 0.5 in `tune.py`, is cut to an integer in a flag and in a profile, and is on when it is not zero for the live
   view's reader: `/set` with `colour=0.5` makes the reader count on three channels (`live_view.py:412`) from a child without
   `--colour` (`knobs.py:328`), so its frames are sheared. `CurrentReaderIsSized` says for which values that happens, and that it happens for
   all of them and no others.
9. Options of the wrong mode that are at a value that counts as unset (`--if saw80`, `--detector quasi-sync`,
   `--composite-scale 0`) are ignored in silence where others are refused; such a flag still silences a
   profile's value.
10. A profile whose `"input"` is null is one without an input to the tools (`knobs.py:364-365`) and an error to `render`
    (`profile_args.cpp:136-139`), although `render` "consumes the same files" (`docs/render.md:134-135`). `RenderTakesProfiles` says that this is the only
    kind of file that the tools take and `render` does not.
11. A slider that `tune.py`'s page sends out of its range (a hand-edited URL) is rendered and recorded as it is, where a choice is clamped
    "so the exit profile validates" (`tune.py:118-130`); the profile printed on exit then does not load. The model's
    `tune.py` moves its sliders within their ranges.

## 4. What is proved

Each theorem holds for every value of the constants that the module's assumption admits; the runs check the same
formulas on small instances, where each inductive invariant was checked as well. The invariant of a component is
called `IInv` in its proof module (with the component's name before it where one module proves about several): no
checked property below is inductive by itself, and what it lacks is what the conjuncts of `IInv` say. `Invariant` is
always `Spec => []IInv`, `TypeCorrect` its conjunct `TypeOK`.

| Module | Theorem | States | For every |
|---|---|---|---|
| `PipelineProofs` | `NeverEmptyInput`, `NoBufferLost`, `StagesInOrder`, `DrainIsClean`, `BacklogIsBounded` | `NoEmptyDeref`, `BuffersConserved`, `InOrder`, `CleanDrain`, `BackpressureBound` | number of stages, pool sizes, number of blocks |
| | `ImplementsStreamRun` | `Refines` | |
| `WorkQueueProofs` | `ClaimsStayOwn`, `ImplementsBatchRun` | `ClaimsAreOwn`, `Refines` | finite set of helpers without the caller, batch sizes, number of batches |
| `ScreenProofs` | `ImplementsPhosphor` | `ShowsEagerPhosphor` | block size, preparation, growth, number of records and fields |
| | `BandsAreSerial` | `ByteIdentical` | height, lanes, bands per lane, centres (on the frame or off it), radii |
| `CardPumpProofs` | `EachEndClosedOnce`, `NothingSheared`, `OkIsComplete` | `SinkIsOwned`, `InputUnsheared`, `OkMeansRecorded` | chunk and pipe size, recorders, lengths they ask for, restarts |
| `LiveViewProofs` | `NoFalseDeath`, `PageShowsDecoder`, `FramesAreWhole` | `RestartIsNoDeath`, `DecoderRunsValues`, `CurrentReaderIsSized` | set of handlers and knobs, requests, defaults, number of children |
| `FrontEndProofs` | `EnvelopeIsOne`, `LoadsStayInside`, `WholeSource` | `ChunkingInvariant`, `LoadsInBounds`, `WholeSourceDecoded` | filter length, configuration, block length, source length |
| `TuningProofs` | `ProfilesReload`, `GateAloneRefused`, `ProfilesExpand`, `PlaybackIsFaithful` | `SavedSessionReloads`, `OnlyCrossedGateRefused`, `RenderTakesProfiles`, `PlaybackKeepsSliders` | sliders moved, names, hand-made profiles, seeds, command lines |
| `DecoderProofs` | `RetunesActInTime`, `BurstsAreWhole`, `CombIsOneLineBack` | `RetunesAtGateClose`, `BurstsMeasuredWhole`, `CombReadsOneLineBack` | stream, burst levels, cuts into blocks, comb, pull, nominal line, glass delay |
| | `LockHolds` | `LockHeld`, of every reception but the attack | resolution, threshold, ident and killer constants, isolated faults, gaps |
| | `WindowHolds` | `OnlyLinePulsesDrive` | picture level, fade, slicer, impulses, lines and ticks of a field, coincidence count |

**Pipeline** (`NStagesAssumption`, `InFlightAssumption`, `NBlocksAssumption`: a stage, a buffer per pool, natural
bounds). `IInv` is
`TypeOK`; `Numbered` and `Ordered` (the blocks in a worker's queue and hands are consecutive, ending at
the number the stage before has reached); `Flagged` (who has seen the flag, and what a chain that saw it
carries); `Holding` (which control points own which handles); and `Pooled`, for each pool: the owners'
handles are distinct and not free (`OwnedAt`), nothing is lost (`NoneLostAt`), a filled buffer holds the
block of the chain that carries it (`IntactAt`), and the semaphore counts the free list less what is
half way between the two (`CountedAt`). That a pop finds a buffer (`FreeListSuffices`) needs the count, the count needs
the owners, and order needs the intact contents *and* that a skipped block is followed only by skipped ones.
`DrainIsClean` also needs that `active` counts the chains in queues and hands: the lemmas about the tally of a
sequence of stages. `BacklogIsBounded` maps the handles that wait for a stage or are in its hands one to one into the
pool before it; it needs `Heard`: only a pipeline that has stopped carries empty handles.

`ImplementsStreamRun` needs more (`RInv`): the source ends early only by throwing, and `run` leaves once (`Sourced`);
no stage has completed a block it has not taken (`Taken`); and `Failing`: the flag is set exactly when there is an
error, and every bad block `b` has a stage `t` that threw on it, such that whoever comes after `t` to `b`, or to a
later block, does so with the flag seen (`Tainted`). That is what keeps the sink from a block behind a bad one,
although the flag is relaxed.

**WorkQueue** (`ThreadsAssumption`, `BoundsAssumption`). `IInv` is `TypeOK`, `RemainingExact`, `ClaimsAreOwn`,
`QuietBetween` (between batches nobody holds a task and nothing remains) and `WorkersInLoop`. The refinement adds: a
batch is open exactly while the caller is in it, a task has been executed at most once and exactly if claimed and run,
and `firstError` is set exactly when some finished task threw.

**ScreenDeposit** (`ScreenAssumption`, `CpuDepositAssumption`: a block and a growth step of at least one record; the
fade and the junk are no sample). `IInv`: the backend's storage
holds what is committed; the slab, when there is one, lies right after it in the present allocation (`Aligned`), and
there is none while the field fades (`Phased`); a latched white level goes with a latched frame. Each operation of
the backend has a lemma that says what it does to the light (`LandFacts`, `EndFieldFacts`, `LatchFacts`,
`AcquireFacts`, `RecordFacts`); with them every step is one of the eager phosphor's, or none.

**SplatBands** (`SplatAssumption`; two lanes at least, as the code takes the serial path otherwise). `IInv`: each
bucket lists in ascending order the records binned so far that touch its band, and the serial history those that cover
each row (`Binned`); a row lists those of its band's records that the task has added and that cover it (`Deposited`);
a task starts after the binning and runs to its end (`Tasks`). The geometry under it: band edges ascend, so each row
is in one band (`BandIs`, `OneBand`), and a band that a record's rows meet is among those it was put into
(`CoveredBand`).

**CardPump** (`CardAssumption`; `"nobody"`, which stands for the absent recording, is no recorder). `IInv`: a child
spawned and not yet attached is newer than the sink, and only its pipe is open besides (`Owned`); what is in the pipes
follows what the children have read, and the pump is about to write what follows the sink's pipe (`Streams`); a
recorder's file holds consecutive pieces from a chunk's start, and is either being continued with the very next chunk
or complete, and whoever has been notified is complete (`Records`). Pieces are numbered modulo `Cycle` chunks, hence
the lemmas on remainders.

**LiveView** (`LiveViewAssumption`). `IInv`: a handler past `values_lock` holds flags equal to the values; `extra` and
`channels` go together and equal the values while no handler waits (`FlagsFollow`); nothing runs but the last child
(`LastChildRuns`); no child is of a later generation, a killed one is of an earlier one (`GenSeparates`); and the
reader of the current generation reads a child with the current flags, whose end nobody asked for (`CurrentReader`).

**FrontEnd** (`TapsAssumption`: a vision filter of odd length and odd half, as the code's lengths are, and an IF filter of
any length; `ConfigsAssumption` only types the configurations). The argument: the state of a stage is a
function of how many samples it has read (`FirAfter`, `HilbertAfter`, `AmAfter`, `ChainAfter`), and `FirBlock`,
`HilbertBlock`, `AmBlock`, `ChainBlock` show that one block, of any length within the budget, takes the state after
`n` samples to the state after `n` plus its length and yields the outputs due in between (`Schedule`). Below that, the
kernels: what the 32-wide, the 8-wide, the stride-2 and the even/odd tiers compute is the plain dot product
(`OneTier`, `StripIs`, `PairDecim2Is`), and no load leaves the window (`LoadsInside`). `IInv` then says that the
position is within the source, nothing comes out before a chain is built, the chain is `ChainAfter` of the position,
and the last block is the next part of the envelope.

**TuningSession** (`TuningAssumption`: modes are the two there are, sliders are knobs of the table, a saved name is not
a hand-made file's, the numbers in files and flags are integers, a rate, a decimation and a size are naturals, and a
command line names existing profiles). `IInv`: the sliders of a session are a whole set with every value in its knob's
range, and a session that died has a crossed gate; a file a session saved is `profile_json` of the set it was saved at,
and every file holds whole numbers; the outcome of the command line is `Render` on the files as they still are.
- `ProfilesReload` goes knob by knob: a value that was dropped was at its default, a value kept converts back.
- `GateAloneRefused`: the table's ranges lie inside those of every constructor (the `*Ranges` lemmas, over the whole
  table), so nothing but the burst gate and the picture's size is left to refuse (`Accepted`, `VerdictIs`, `ToolVerdictIs`). It covers every
  set the sliders can reach, where the run moves a few of them. That the beam stays on an int16 for every picture of
  up to 16384 is the one bound that several knobs share: a phase lands between one size of the picture before its start and 1.6 sizes after it (`LandsNear`), the tilt adds a few rows
  (`TiltSmall`), droop and pull spread it by less than a third (`SwellIs`, `SpreadSmall`), and together they stay below the limit (`FitsRoomy`, `BeamStays`).
- `ProfilesExpand`: `Merged` holds for each flag the last profile's value that has it (`MergedIs`, by the least prefix
  of the profiles for which it would not); `Tokens` passes on what the user did not give in any of a flag's spellings
  (`TokensOf`); and `Config` reads it back, each knob for itself (`ConfigIs`, `ExpectedIs`).
- `PlaybackIsFaithful` compares the two tables of defaults (`DefaultsDifferIs`): the sliders a playback loses are exactly
  those named there.

**ChromaLine** (`LineAssumption`, `BlocksAssumption`, `InputsAssumption`, and `GlassAssumption`: the glass delay is shorter
than the ring, as the constructor demands). The properties compare the decoder, which sees a sample at a time and one
line back, with the whole stream. `ChromaIInv` says what each field holds once the stream is decoded up to its index
(`Valid`): the last line start and the last line that fitted (`Lined`), the burst gathered since the gate opened
(`Gathered`), how many closes, measured closes and retunes there were, and how far back the last strong one lies
(`Counted`), and in each cell of the ring the sample that many back (`Ringed`). And it says of the segment being
mixed that no gate close lies inside it with the pull on, so that the tuning it began with is still the decoder's (`Segmented`);
without that `RetunesAtGateClose` is not inductive. The lemmas under it say how the closed forms grow by one sample:
a close adds itself to a set of closes and is its maximum.

**PalSwitch** (`ReceptionsAssumption`: positive scales, a threshold below full ident, a reference that outlives the
gaps, and on an isolated reception a recovery that outvotes the next wrong burst). `LockHeld` alone is not inductive:
one wrong burst lowers the ident, and only how far it had risen before keeps the second from inverting the switch. `PalIInv` has
two halves. Before the colour is up the ident is on the side of zero where the bistable is (`Calm`), so the
bistable is right when the ident crosses the threshold. After that (`On`, `HasLock`) the ident is at least `Recovery` of the
good lines since the last wrong burst, the strong reference hides every weak line of the gap, the bistable has
toggled through it, and the killer's ramp is up. `Toward` is a division, so that it is monotone and does not overshoot are
lemmas of their own.

**SyncSignal** (`TicksAssumption`: a field of a line or more, positive durations; `SignalAssumption`: no picture
blacker than blanking, carriers of some level; `EntriesAssumption`: signals entered at a pulse). The rate is anywhere between the clamps, so a pulse
is refused at every rate when it is narrower than 42 or wider than 187 ticks, and a line's pulse is in between. `SyncIInv`
says what the width at the next trailing edge can be. While the slicer is in sync before a segment, the width is
either one the window refuses already, or that of the pulse just before (`Wide`), which the script makes a line's, an
equalising or a broad one. Two pulses never run into one, because a low after a pulse is below the slice in either
mode. The low of a broad pulse needs care, since it lasts as long as a line's sync: it must not be taken for one
itself, so before it the slicer is in sync, or has seen the pulse's level (`BroadReady`; `Steady` says so of a carrier that is
still to fade). What may follow what in the script is proved region by region,
for any number of lines (`IntervalAt` and the lemmas beside it).

Only model-checked:
- The liveness properties (`Terminates`, `BatchReturns`, `WorkersExit`, `RestartCompletes`, `DeathIsNoticed`,
  `ColourReturns`, `SlowIdentIsKilled`): temporal reasoning under fairness is out of the prover's reach.
- `NoiseKeepsLock`, `TracksAgain` and `FieldReturns` of `SyncSignal`, and what `LockHeld` says of the attack.
  These say of feedback loops in fixed point that they return to a range, or stay in a narrow one, under the signal of
  the run. They hold for the gains and thresholds the code ships, not for every value of those constants, and TLC
  computes the orbit where a proof would need a bound on each loop. Under the attack the ident falls and rises again
  every frame, and whether it crosses the threshold depends on the 313 lines of the attack's frame against the shipped time constant.

## 5. Not modelled, and why

- The float arithmetic (the filters' coefficients, the detectors' values, the camera, FFT): a model checker cannot
  evaluate it. Where order matters the models record what a value was computed from; where a feedback loop matters
  they run it in fixed point.
- File formats: pure I/O without state. The commands `sync`, `levels`, `demod`, `info` and `convert`: one pass of the
  library over a file and a printed report. The scripts that record goldens and captures: single children over files.
- In components that are modelled in part: the screen's beam geometry, limiters and EHT; the pipeline's serial path;
  `on_field` and the frame writers; the mailbox `LatestFrame` and the viewers; the sync branch's low-pass; the live view's
  `--mono` and its child `airspy_rx`; the size of the frequency pull and the ACC.

## 6. Plan

What is left, in this order:

1. `ScreenLine`: the one-line delay of the peak white limiter, the beam current limiter and the EHT state
   at line starts; composed with `ScreenDeposit`.
   `screen.cpp:315-317` says of the beam current limiter that "the two-stage loop can't hunt"; linearised
   at the default constants (an integrator of 0.05 a line behind a smoothing of half a field) its damping ratio is about 0.1,
   so the gain rings: the first property to state.
2. `SerialRun`: the serial path of `pipe::run` as a second implementation of `StreamRun`, and the render
   driver's `on_field` modes.
3. `ChromaLine` driven by `SyncSignal`'s gates and line starts.
4. The mailbox `LatestFrame` and its viewers.
5. Proofs: a bound on the horizontal loop while it is locked (`NoiseKeepsLock` rests on it), then `FieldReturns`.
