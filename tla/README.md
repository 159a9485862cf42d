# A specification of the configurable ALSA audio HAL

The repository is the audio HAL of Intel Android platforms: it sits between
AudioFlinger and the kernel's PCM devices, decides which *route* (a PCM device
and a path through codec, modem or Bluetooth chip) every audio stream gets, and
takes the hardware from one routing to the next. This directory holds TLA+
modules of its core, TLC configurations that check them on small platforms, and
theorems about them that TLAPS checks for every platform.

## The system

Paths are under `src/audio_hw_configurable/`; `ARM/` is `audio_route_manager/`.

| Part | State it keeps | Operations | What makes it correct |
|---|---|---|---|
| `CAudioRouteManager` (`ARM/AudioRouteManager.cpp`) | manager lock, stream lists, enabled / previously enabled / to-be-reconfigured routes per direction, list of waiting semaphores | stream and parameter calls of the framework; `reconsiderRouting` (ask the event thread, wait); `doReconsiderRouting`: prepare, mute, disable, configure, enable, unmute | streams end where they were prepared; every caller returns; hardware is never used by two |
| Routes (`ARM/AudioRoute.cpp`, `AudioStreamRoute.cpp`, `AudioExternalRoute.cpp`, `AudioStreamRouteIaSspWorkaround.cpp`) | used now / after routing, blocked, PCM device, current and new stream | `isApplicable`, `setUsed`, `route`, `unroute`, `configure`, `needReconfiguration` | devices are opened and closed exactly once per use; a stream is attached only to an open device |
| Ports, port groups (`ARM/AudioPort.cpp`, `AudioPortGroup.cpp`) | used, blocked, attached route | `setUsed`, `setBlocked`, `condemnMutualExclusivePort` | routes on exclusive ports never run together |
| `CAudioPlatformState` (`ARM/AudioPlatformState.cpp`) | telephony mode, devices, modem, bands, parameters, cached hardware mode, shared-bus flag, change events | one setter per datum, `updateHwMode`, `clearPlatformStateEvents` | derived data is never stale; no change is lost |
| `CVolumeKeys` (`ARM/VolumeKeys.cpp`) | wake-up flag, sysfs | `wakeupEnable`, `wakeupDisable` | keys wake the device exactly during a routed call |
| `ALSAStreamOps`, `AudioStreamOutALSA`, `AudioStreamInALSA` | standby flag, current and new route and devices, PCM handle, conversion chain, effects | `setStandby`, `write` / `read` with retries, `attachRoute`, `detachRoute`, effects and echo reference | after standby the stream is detached; no frame is lost or repeated |
| `AudioHardwareALSA` | telephony mode, lists of streams | opens and closes streams, forwards calls | order of calls is kept |
| `CAudioParameterHandler` (`ARM/AudioParameterHandler.cpp`) | parameters in memory and in a file | `saveParameters`, `restore`, `getParameters` | a restart of the media server restores them |
| Platform tables (`ARM/AudioPlatformHardware_*.cpp`) | none (static data, some routes with their own rules) | `createAudioRoute` | consistent ids, masks, ports |
| `AudioConversion` and its converters (`src/audio_conversion/`) | active chain, converter objects kept across attachments, frames left over | `configure`, `convert`, `getConvertedBuffer` | the chain leads from one specification to the other; converted frames come out once, in order |
| `AudioPolicyManagerALSA` (`src/audio_policy/`) | open inputs, their devices, sources and reference counts | `startInput`, `stopInput`, `releaseInput`, `setForceUse`, device selection | who may record beside whom; a call is never refused the microphone |
| Sample specifications, semaphores, HAL glue, dump | values; counters; none; files | arithmetic; wait and post; forwarding | arithmetic of frames and channels |

**Interaction.** AudioFlinger's threads call stream and hardware objects, which
call the route manager. The manager's lock is a read-write lock taken for
writing by all of these. A synchronous caller pushes a semaphore, sends
`EUpdateRouting` to the event thread, *releases the lock*, and waits; the event
thread takes the lock, runs one pass and posts all semaphores. Modem callbacks
run in the modem manager's thread and only send messages; the modem is read when
the message is processed. Stream threads flip their standby flag under the
stream's own lock, at any moment, also in the middle of a pass.

Capture and playback threads hold the lock of their stream for reading during
I/O; the event thread and the thread that sets effects take it for writing. The
policy runs in the framework's own thread and reaches the HAL through the
parameters of a stream.

**What is hard.** Flags that change while a pass reads them; routes enabled,
disabled and configured one after the other with failures in between; messages
that carry no data; events that one handler raises and another consumes; pointers
to streams that outlive them; cached data with inputs in four handlers; two
locks that are taken in both orders; a file that is truncated before it is
written; buffers whose counts, sizes and indices are kept by different
functions; converters that are reused. The file `PROJECT.json` lists these
hazards at their lines, with the properties that watch them.

## Modules

| Module | Models | Composed of |
|---|---|---|
| `AudioRouting` | streams, routes, ports and the passes of the route manager | implements `PcmDevices` |
| `PcmDevices` | abstract: what routing promises about the PCM devices, without routes, stages or locks | |
| `AudioPlatform` | platform state, its handlers, the volume keys, the modem's notifications | |
| `PlatformTables` | the route tables of the seven platforms, as data | |
| `PlatformRouting` | what a pass selects on those platforms, and what codec routes are set up for | extends `PlatformTables` |
| `AudioParameters` | `setParameters` with its wait in the middle, the parameter file, crashes | |
| `StreamThreads` | capture, playback, effect and event thread on one set of streams: two locks, I/O with retries, echo references | |
| `CaptureFrames` | the frames of a read through the software effects | |
| `AudioConversion` | the conversion chain and its reconfiguration, the frames a read keeps | |
| `InputPolicy` | who records: start, stop, release and rerouting of inputs | |

`MCx` instantiates module `x` for TLC; `xProofs` holds theorems about it.

### AudioRouting

A *use* `<<d, r>>` is route `r` in direction `d`: nearly all of a route's state
is an array of two in the code. `cur` is `bCurrently`; `will` is
`bAfterRouting`, which the code sets together with the bit in `uiEnabled`;
`pcm` the uses with an open PCM device; `pCur` and `pNew` the streams a route
knows; `att[s]` is what the stream itself knows (`mCurrentRoute`,
`mCurrentDevices`, `mHandle`). The two views are separate variables because the
code can make them disagree.

The lock is `stage`: `"idle"` when it is free. A pass is a sequence of steps,
one per route and stage, in the order of the route list, outputs first in some
stages and inputs first in others, slaves before their masters, so that the
standby flags can change between any two of them. `setMicMute` runs a pass in
the caller, without a message. `prepareRouting(EOutput) |
prepareRouting(EInput)` leaves the order of the operands open; the model tries
both. A failed assertion is recorded in `fatal` and ends the behaviour.

Abstracted: what the parameter framework does with the criteria (muting is the
set `muted`); formats, latencies and conversion (an attachment can fail in
them); the events of parameters that no route of the platform reads.

Constants are the platform's tables. Their assumptions hold for every table of
the repository: ranks differ, slaves have no slaves, no route has two ports of
one group. At most one stream route per mask is applicable in one platform
state (`PlatformRouting!OneRoutePerStream` says that of the real tables),
which is why the stream given to a route does not depend on more than the order
of the stream list.

### PcmDevices

A stream uses at most one device, a device is used by at most one stream and is
open as long as it is; a stream that moves is silent in between. `AudioRouting`
implements it with the open devices `pcm` and, for the user of a device, the
stream whose own attachment names its route (`DevicesWellUsed`, which run
`routing_duplex` checks and `DevicesAreWellUsed` proves).

### AudioPlatform

One action per handler of the framework, the modem's changes, and the messages
of the event thread. A pass is two steps, taking the lock and clearing the
events. `params` stands for the dozen setters of the form "if it changes, store
it and raise its event". Modem changes queue their message in the same step;
its audio link is down when the modem is.

### PlatformTables and PlatformRouting

`PlatformTables` holds the rows of the seven `AudioPlatformHardware_*.cpp`, in
the order of their enumeration, with what selection reads: ports, devices,
masks and modes per direction, slaves; and the class `createAudioRoute` gives to
each, as a *rule*: its `isApplicable` and the events of its
`needReconfiguration`. Port names that do not exist are kept aside in
`unknown`, as the code's silent lookup has it.

`PlatformRouting` picks one platform at the start (`board`). Requests change the
platform state and raise events; `Pass` selects the routes of the outputs, then
of the inputs (the order the compiler of this build gives the operands; the
other one is a mutant), decides which codec routes are reconfigured and clears
the events. `tuned` remembers what every codec route was last set up for, which
is what a forgotten event makes stale. The five stages are not repeated here.

What the theorems need to know of a table is `TablesAssumption`, which TLC
evaluates for all seven: rows have names of their own; rivals are rivals of each
other, and of them no `isApplicable` ignores that it is blocked; who shares a
port is a rival or is never allowed together (`RowsAreGuarded`); two stream
routes differ in masks, modes, or in devices of which one of them wants no
others beside its own (`StreamsAreApart`); the class of a codec route looks for
its device's event, and for those of a call unless it is none for calls
(`CodecsAreWatched`); a stream route that has back ends comes before one of them
for each of its devices and modes, which takes both, asks for no more and has no
rival in that mode (`StreamsAreBacked`); a platform with a modem has for each
output device a call route of its own or the modem's, whose back ends cover the
devices between them (`CallsAreRouted`).

### AudioParameters

A caller applies its pairs (`SetParameters`), waits for a pass with the lock
released, takes it again (`Relock`), merges, truncates the file (`OpenFile`) and
writes it (`WriteFile`). `Crash` may come between any two of these steps and
leaves only the file; `Restart` reads it, up to the size of the buffer;
`SetRestarting` is the framework's request to apply what was read. Keys are
strings, a value is a string and a file a function from keys to values; sizes
matter only at the limit of the read buffer, where a pair is cut (`Cut`).

### StreamThreads

`manager` is the manager's lock; the lock of a stream is derived: read-held by a
stream in `io`, write-held by a call in `fx` and by the worker in `attaching` or
`detaching`. The worker (`wpc`) opens a device, waits for the stream's lock,
attaches, and in the opposite order detaches and closes. It adds and removes the
effects of an input (`todo`) one step at a time, since each that needs an echo
reference takes the locks of the outputs. `requested[i]` is the set of effects
asked for, `sw[i]` a function from the effects that run to their references. An
effect call that needs an echo reference keeps the stream's lock while it waits
for the manager's. `outRef`, `ref` and `live` are the echo references: who feeds
one, which one the manager knows (the one of `LastRouted`), and which exist.
`dead` is the assertion "Hardware not responding".

### CaptureFrames

A captured frame is its number. `ReadProcessed` reloads `mProcessingBuffer`;
each `ProcessBlock` is one turn of the loop of `doProcessFrames`, with
`PushEchoReference` before it; `FinishRead` moves what is left over to the front;
`FailRead` is the path of an effect that refuses a block. The effect library is
external: it works on whole blocks, keeps what does not fill one and gives what
it has ready. Buffers are sequences with positions as in the code, so that a
wrong index shows as a wrong frame. Frames come in order since the effects last
changed (`SessionInOrder`) if the reads are whole blocks, or at most a block
each; for other reads the code's positions do not fit (`AlwaysInOrder` fails).

### AudioConversion

`Configuration` builds the chain as `configureAndAddConverter` does: reducing
converters on the way, expanding ones on the way back. The converter objects
(`resampler`, `pivot`) are variables because they keep what they were configured
for. Samples are remapped as words: signed ones of 16 bits, or for the 8.24 format
unsigned ones of which there are `Words`. TLC has 2^28, for its integers cannot
hold twice 2^32; the theorem has any multiple of 2^25. No specification ignores
all its channels (`IsSpec`), which holds for every table and for clients.
Input streams read through `GetConvertedBuffer`, `Convert`, `Deliver`; the
resampling library is external and may round each time as it likes. One turn
converts at most `MostSurplus` = 14 frames more than are missing, of the 22 that
the margin of the buffer has; a read that finds the buffer of a smaller one
large enough has less of it, so the order of frames is stated for `SteadyReads`,
reads that leave each other 14 frames or make the buffer grow.

### InputPolicy

`inputs[h]` is an open input, `told[h]` the device and source its HAL stream was
last given; `clients` and `wanted` are what the clients believe. `startInput`
preempts, joins or refuses by the rules of the source; `releaseInput` gives the
source back to an input that was stopped earlier. `AudioPolicyManagerBase` is
not in the repository and external.

## Runs

| Run | Question | Result |
|---|---|---|
| `routing_duplex` | assertions, exclusive ports, ownership of devices, synchronous standby, muting, refinement of `PcmDevices` | holds |
| `routing_outputs` | competition for a route, closing streams, withdrawn devices, modem | holds |
| `routing_live` | every synchronous request returns | holds |
| `platform_state` | nothing derived is stale, no change is forgotten, volume keys | holds |
| `params_saved` | the platform state and the file follow what is stored, across crashes and failing writes | holds |
| `params_overtake` | the same when two callers set one parameter | violated |
| `capture_reads` | frames of every read arrive once, in order, in buffers that hold them, and the read returns | holds |
| `streams_threads` | I/O on open devices only, effects as requested, references alive, the event thread gets its lock | holds |
| `streams_deadlock` | effect calls and passes never wait for each other | violated |
| `tables_routing` | the real tables: exclusion, one route per stream, duplex calls with a back end, codec set up for what is selected | holds |
| `policy_inputs` | who records beside whom; a VoIP call is neither refused nor silenced; the source is given back | holds |
| `conversion_chain` | the reconfigured chain leads to its destination, with resamplers of the right rates, in the right place and of a channel count the stream has had; it remaps right and keeps the order of frames | holds |

### Bounds

*routing*: *Duplex* has a media route with SSP flushing, a Bluetooth route that
opens its device early and closes it late and whose port excludes the media
route's, and the external codec route enabled with its slave; one output and
one input stream. It reaches every pair of stages in which rivals change over,
in the same direction and across. *Outputs* has the media route, the
deep-buffer route and two outputs, of one kind or of two: one waits for the
route while the other plays. Two streams are enough because a route holds one
and the order of the list is decided pairwise. `MaxPending` bounds the queued
passes to two: one that runs and one that arrives.

*platform*: the queue holds three messages. A change of the modem that touches
both its state and its audio link sends two, so that a modem can crash and come
back with its link, or crash, return and crash again, while the first message
waits; each is then processed under a status that is not the one it was sent
for. Two output devices, because the code asks for "more than one"; two direct
streams, because only the first and the last raise an event. Calls, output
devices and the modem vary freely; of the rest (input, mic mute, direct streams,
parameter) one at a time is away from where it began (`OneAway`), and none
once a sysfs write has been refused (`RefusedAlone`), since the volume keys read
none of it. The theorems about `AudioPlatform` have no such bounds.

*params*: two callers, which is what overtaking needs; parameters of every kind
of decoding and one that is not saved; the read buffer has its real size.

*capture*: eight captured frames; a block of two frames read in twos and fours
(the code speaks of 160 read and 80 processed), one of three that no read is a
multiple of; conversions and effects that may fail. Blocks that are left over
fill up and wrap around within these frames. The behaviour ends at the bound,
so deadlock is not checked.

*streams*: one input, one output, an echo canceller and a noise suppressor,
routes that embed the canceller or nothing, two retries, three references. The
system stops when the hardware does not respond, at the deadlock
`streams_deadlock` shows, and when the references run out; deadlock is not
checked.

*tables*: all seven platforms; devices, modes and sources of each kind that some
table tells apart; one condition at a time away from rest (`MaxOdd`); a pass
after each change (`MaxChanges`), over every sequence of changes. Theorems remove
these bounds; of the devices only those of a call remain restricted, to be some.

*policy*: three inputs: one that records, one that was stopped, one that comes.

*conversion*: clients of both formats and channel counts at three rates, routes
with every channel policy of the tables; two attachments, which is what a
converter that remembers needs, with all channel counts of the two ends in either
order; fourteen frames, so that what is left over
wraps behind the requests of one, two and five. Attachments run out, so
deadlock is not checked.

### Fairness

`routing_live`: weak fairness of the steps of a pass (the thread that holds the
lock is not blocked by anything the model leaves out but PCM and
parameter-framework calls, which return) and of `UpdateRouting` (the event
thread reads its pipe in order and the lock is granted eventually). The
framework owes nothing.

`streams_threads`: weak fairness of the end of each I/O, with success or not
(the driver returns, and the loop of retries sleeps for a bounded time); strong
fairness of the worker's step: the lock of the stream is free between two reads
again and again, and it is assumed of the lock of the C library that a writer
who waits for it is not passed over forever. Calls of clients owe nothing. `PassGetsLock` excepts the
deadlock that `streams_deadlock` is about.

`capture_reads`: weak fairness of the loop of a read, which is one thread.

### What the violations show

`params_overtake` and `streams_deadlock` are listed runs. The other findings have
a configuration of their own (same module, `tlc -config <name>.cfg MC<module>`):

| Configuration | Fails | What happens |
|---|---|---|
| `params_overtake` | `StateFollowsMemory` | Two callers set one parameter, wait for the same pass and save in the other order: a crash recovers the older value. |
| `params_crash` | `SavedSurvives` | The server dies between `fopen("w+")` and `fwrite`: what earlier calls saved is gone. |
| `params_limit` | `NothingInvented` | A file longer than the read buffer comes back with a cut value, which is stored. |
| `streams_deadlock` | `NoCircularWait` | An effect call holds the stream's lock and waits for the manager's; the pass holds that and waits for the stream's. |
| `streams_outputs` | `OneReference` | With two routed outputs `getEchoReference` creates a reference for each and forgets all but the last. |
| `streams_repeat` | `ReferencesLive` | An effect added twice keeps its first entry, whose reference the second call has released. |
| `capture_blocks` | `AlwaysInOrder` | A read that spans a block boundary advances its input by what was produced, not by what was consumed. |
| `capture_failing` | `NeverTooMany` | When an effect refuses a block the read returns the whole buffer and keeps the remainder's count. |
| `capture_memory` | `SizeIsMemory` | The size of the buffer is stored although `realloc` fails. |
| `tables_codecfollowsmode` | `CodecFollowsMode` | An event's number stands among masks: the codec route misses a change of the hardware mode. |
| `tables_namesresolve` | `NamesResolve` | A route names a port that its platform does not have. |
| `policy_recorders` | `AlwaysOneRecorder` | A preempted hotword is released, which restarts another input: two record. |
| `policy_device` | `StartsOnSelectedDevice` | An input that is given the source back keeps the device it had. |
| `conversion_resamplerfollows` | `ResamplerFollows` | A resampler is kept when its rates are the same, although the number of channels changed. |
| `conversion_example` | `ExampleOrder` | The header's example expands channels before the resampler and reduces the format behind it; the code does the opposite, as the header's own rule says. |
| `conversion_margin` | `WithinMargin` | The margin is added only when the buffer grows: after a read of 1 frame, one of 22 ends behind the 23 frames there are. |
| `conversion_ignoredisnull` | `IgnoredIsNull` | Mono to stereo leaves an ignored channel as it finds it. |
| `conversion_writeswhatitgot` | `WritesWhatItGot` | Two roundings upwards: a write may return more frames than it was given. No source of the repository says it may not. |
| `routing_flags` | `RoutedAsPrepared` | Two open outputs swap flags, hence routes; the second `configure` detaches the stream the first has attached. |
| `routing_attach` | `NoFatal` | `route` leaves its device open when the attachment fails; the next pass opens it again and the assertion aborts. |
| `routing_path` | `AttachedOnEnabledPath` | `configure` attaches a stream before the path is enabled, against the comment in `route`. |
| `platform_band` | `BandChangeProcessed` | `setStreamParameters` does not test the band it may just have changed. |

## Proofs

All from the named assumptions on the constants, for any number of routes,
ports, streams, callers, inputs, messages, and any choice of failures.

* `AudioRoutingProofs!TypeCorrect`: `TypeOK`, a conjunction of one part per
  component, preserved by each action (`NextType`).
* `AudioRoutingProofs!PortsAreExclusive`: `ExclusivePorts` is not inductive: it
  speaks of the routes in use now, which are taken from a selection made
  earlier. `ExclusiveInv` adds `SelectionInv` (a selected route owns its ports,
  the peers of an owned port are blocked, a blocked route is not selected
  afterwards, so no two selected routes are rivals) and `StageInv` (after the
  disable stages the routes in use are among the selected ones, and the enable
  stages only add selected ones). `BlockedPortsAreUnused` follows from the same
  invariant.
* `AudioRoutingProofs!NoAssertionFires`, `RoutedStreamsAreSafe`,
  `DetachingIsSilent`, `StopIsSynchronous`, `NoStreamDangles`: under `OnlyOpeningFails`, since a stream whose attachment
  fails is left half attached and the assertion does fire (`routing_attach`).
  `DevicesInv` says for each stage and use where the device, the route's flag
  and its stream are (`Phase`: in use, unused, unrouted, opened early), which
  uses the stage has left to visit (`TodoInv`), that what is reconfigured is in
  use, muted and, if rerouted, out of the hardware in between (`ReconfigInv`),
  and that a selected route has a stream that knows it (`ChoiceInv`).
  `StreamsInv` adds that a stream in standby when the pass began is chosen for
  no route (`NotChosen`), that the hardware follows the choice (`Follows`), and
  so that no route knows a stream whose stop has returned (`Forgotten`). That a
  route's stream names the route in turn is *not* part of it: it is false while
  two streams swap routes (`routing_flags`).
* `AudioPlatformProofs!TypeCorrect`, `HwModeIsFresh`, `SharedBusIsSafe`: each
  step either refreshes mode and flag from their new inputs or touches neither
  (`RefreshedOrUntouched`). The flag is stale before the modem first comes up,
  so the invariant is `GlitchSafeFresh`, which speaks of a living modem only.
  `HwModeIsFresh` justifies that `AudioRouting` computes the mode instead of
  storing it.
* `AudioPlatformProofs!NoChangeIsForgotten`: inductive with `TypeOK`; the
  argument is that messages are only taken from the head of the queue by a step
  that also takes the lock, and events are cleared before the lock is free.
* `AudioPlatformProofs!ModemStatusIsTracked`, `KeysFollowTheCall`: a status that
  differs from the modem's has its message in the queue, which no step but its
  own removes; the keys are switched by the step that changes the hardware mode
  (`KeysNext`), and what a refused write leaves is put right by the next one.
* `InputPolicyProofs!VoipIsGranted`: by cases on the input that records. The
  invariant `Well` says that every open input has a device that can record;
  reroutings, restarts and starts that stop others keep it. The input that
  records is a VoIP call itself or records from a microphone or the voice call,
  so that one of the rules for preemption and sharing applies; that it is the
  *first* one takes the well-foundedness of the handles.
* `InputPolicyProofs!OneInputRecords`: by cases on the source of the input that
  starts and of the one that records, after the preemption or the sharing the
  code decided on. A hotword is the exception the statement itself makes
  (`policy_recorders`). `VoipIsKept` and `SourceIsGivenBack` are action
  properties; their invariant `Known` adds to `Well` that handles are numbers
  given out before (`Numbered`), that sources were seen (`Noted`), and that an
  input whose client expects to record was started (`Expected`), without which
  `releaseInput` could pass it over. The code takes the least or the greatest
  handle that fits: the lemmas `SmallestOf` and `LargestOf` say that there is one.
* `StreamThreadsProofs!IoIsSafe`: `DevicesInv` orders the worker's program
  counter with what it has taken: attached only with an open device, no I/O on a
  stream whose lock the worker has, closing only what is detached.
* `StreamThreadsProofs!EffectsAreThoseRequested`: `EffectsInv` says of each input
  what its effects are in each situation: without a call (`Settled`), in the
  middle of a call, and while the worker attaches or detaches it, when those in
  `todo` are still to be added or removed. Unconditional.
* `StreamThreadsProofs!ReferenceIsOne`: under `OneOutput` (with two,
  `streams_outputs` shows the leak). `ReferencesAreLive`: under `OneCanceller`,
  one input and one canceller that is not requested twice; with two, the second
  releases the reference of the first, and `streams_repeat` shows the other
  half. `LiveInv` adds that an effect in the middle of being added is not in the
  list yet.
* `CaptureFramesProofs!NoFrameIsLost`, `BuffersFit`: `CountsOK` bounds every
  count by the one it was taken from; `TurnOfTheLoop` proves that one turn
  preserves the sum of what is kept, ready, given and left, for blocks and
  requests of any size. `BuffersFit` needs `MemoryOK`, that the sizes are those
  of the memory unless an allocation failed.
* `CaptureFramesProofs!SessionsAreInOrder`, `FramesAreInOrder`: `OrderInv` is
  about one sequence, `Pending`: what is given and not yet heard, what the
  library has ready and keeps, and what the loop has not taken. A turn of the
  loop and the end of a read leave it as it is, what is captured is appended to
  it, and what is heard is its beginning. That holds because the place the
  output has reached is where the input goes on, which `ShortOK` (a read of at
  most a block takes one turn) and `WholeOK` (whole blocks are given as they are
  taken, and nothing is left) give.
* `AudioConversionProofs!ConvertedIsInOrder`, `ConversionFits`: under
  `RatesSupported` (all rates within the `MIN_RATE` and `MAX_RATE` of the code)
  and `SteadyReads`. `SurplusIsBounded` is the arithmetic: acquiring rounds up,
  one resampler or two in a row may round up again, and yet no more than 14
  frames too many can come out between 8 and 92 kHz. `ReadInv` adds what the
  index points at between the turns of a read (`ReadOK`), that the buffer is a
  read and the margin long (`SizeOK`), and that what it holds follows what was
  returned (`OrderOK`). `ConversionFits` is why the finding `WithinMargin` is
  about reads that are not steady only.
* `AudioConversionProofs!ChainIsRight`: under `PivotSuffices`, the resampling
  library converts directly whatever lies above the pivot rate. Each of the six
  steps of a configuration makes `Progress`: the chain leads to the specification
  reached (`Leads`), and the two resamplers, which a configuration may leave half
  done and the next one finds so, have the context of their two rates or of none
  (`ResamplerOK`), made for a channel count that was to be resampled at some
  attachment of the stream (`Sized`, over the history `widths`). That it is the
  count of the *last* attachment is not claimed: a kept resampler does not look
  at it, which is the finding `ResamplerFollows`; if all attachments have one
  count, it follows. A step over the pivot can succeed only where both ends differ
  from it, although `AudioResampler::configure` does not check that. For the
  remapper (`RemapperIsRight`) the arithmetic is that the sum of two words that
  are taken for unsigned exceeds that of their samples by an even multiple of
  2^24, so that half of it has the low 24 bits of the mean (`HalfKeepsMean`).
* `AudioParametersProofs!TypeCorrect`: one caller at a time saves, although the
  lock is released in the middle of the call.
* `AudioParametersProofs!FileIsKept`: under `[]FileFits` (the stored pairs fit
  the read buffer, without which it is false: `params_limit`), what is read back
  is what is in the file (`NothingIsCut`), so a restart restores the agreement
  that only a caller between `fopen` and `fclose`, or a failed write, suspends.

* `AudioParametersProofs!StateIsWhatIsStored`: under `OwnParameters`, no parameter
  has two clients (with two, `params_overtake`). `StateInv` says that what a
  caller applied and has not stored is still the state (`Standing`), and that
  what is stored is the state or about to be replaced (`Stored`); a setter is
  idempotent (`SetTwice`), which recovery relies on.
* `AudioRoutingProofs!StreamsAreRouted`, `DevicesAreWellUsed`: under `[]NoExchange`,
  no two routes that stay enabled exchange streams in a pass; without it
  `routing_flags` is the counterexample. `UsersInv` says for every stage whose
  attachment names which route, and the second theorem is the refinement of
  `PcmDevices`: every action of `AudioRouting` is a `HandOver`, an opening, a
  closing or a stutter of it, and a stream that moves is silent in between.
  `ApartStreamsAreRouted` replaces the hypothesis on behaviours by one on the
  tables, `Apart`: no two streams compete for a route while one of them has
  another choice. The real tables satisfy it with one primary output, one
  deep-buffer output and one input.
* `PlatformRoutingProofs!RoutesAreExclusive`, `StreamsHaveOneRoute`,
  `CodecsFollowDevices`, `CallsAreTuned`: from `TablesAssumption`, for every
  device, mode and source, any conditions away from rest and any number of
  changes between two passes. A selection never has two rivals, no row in it
  misses a condition, and a row that reads its table is in a mode and on a device
  of its own (`WillOK`), so that the media codec is not in it in a call. `SetUpOK`
  says that what a codec in use was set up for is what there is, or the event that
  says otherwise is pending; a pass keeps a codec as it was only if none of its
  events is (`KeptIsSetUp`). That a stream fits one route needs no selection.
* `PlatformRoutingProofs!StreamsHaveBackEnds`, `CallsAreDuplex`: under
  `CallsHaveDevices`, the framework selects an output device for a call, as its
  policy does. That a route *is* selected depends on the rows before it. The
  recursions over slaves and rows are therefore proved about once
  (`SlavesReached`, `DirectionReached`; by the least row that would not, induction
  being out of reach in its own form): *every set of selections that no row leaves
  and that has the first one has the last one*, and each row and each slave is
  prepared on the way, in their order. Such sets are the good selections
  (`GoodIsClosed`), those beyond a given one (`Beyond`: nothing is taken back, the
  other direction stays as it is), and those that decline a stream route
  (`DeclinedIsClosed`: more routes in use and fewer free streams make none
  applicable). So a stream route that is in use at the end was in use at its own
  row, its back end comes later (`DirectionAddsBackEnd`) and nothing blocks that:
  a rival in use would be in its row, that is in a mode that it is not in
  (`BackEndIsApplicable`). A call route is added to the outputs whatever is in use
  (`CallRouteIsAdded`) and followed by the inputs; the modem's codec is chosen by
  TTY direction and device (`BackEndIsAdded`, `BackEndFollows`), after the modem's
  route, which is prepared as its slave (`DirectionAddsMaster`).

The steps that the liveness properties rest on:

* `RequestsComplete`: `AudioRoutingProofs!NoRequestIsForgotten`, a client that
  waits has its message in the queue or a pass that will release it; and
  `PassesComeToAnEnd`, the stages of a pass have an order (`Position`), a pass
  changes its stage only to a later one or to the end, evaluates what is in `todo`
  at most once, and releases at its end whoever waits. Both unconditional.
* `ReadReturns`: `CaptureFramesProofs!LoopMakesProgress`, the library holds less
  than a block (`CountsOK`), so each turn takes what is left or completes the
  block, and never nothing. `ReadsFitTheClient` is the same loop's promise to the
  client: it returns what it counts (`ReturnsOK`), unless an effect refuses a
  block, which `capture_failing.cfg` shows.
* `PassGetsLock`: `StreamThreadsProofs!RetriesEnd`, a read or write fails at most
  `MaxRetries` times and the process ends exactly then; and `PassWaitsForIo`, the
  worker is kept from a lock by a read or write or in `CircularWait` only, since a
  call that holds the lock of an input waits for the manager, which the worker has
  (`WorkerInv`).

Model-checked only:

* `RequestsComplete`, `ReadReturns`, `PassGetsLock`: liveness, which is out of
  the prover's reach, as are ENABLED and induction over data. What TLC adds to the
  theorems on their steps is that the fair step is enabled until there, and that
  steps of others do not undo it.

## Plan

1. *Done:* routing core, platform state, their first theorems.
2. *Done:* parameters and crashes, stream threads and locks, frames of a read,
   the real tables, input policy, conversion, with their first theorems.
3. *Done:* devices, stops and closed streams of `AudioRouting` proved; its
   promises about streams and the refinement of `PcmDevices`, where no two
   streams exchange routes; what a selection over the real tables excludes, that
   it gives every stream a back end and every call both directions, and what
   codecs are set up for; the rules of recording inputs; effects and echo
   references; the order of captured and of converted frames, the chain of
   converters and the samples they make; the parameters.
4. *Done:* the single steps that the liveness properties rest on.

## Not modelled

* The parameter framework's criteria and configurations, and voice volume: their
  effect is defined by files outside the repository.
* HAL glue (`audio_hw_hal.cpp`) and audio dump: forwarding and file output.
* The policy's output strategy and volumes: computed by
  `AudioPolicyManagerBase` from data outside the repository; `setMode` and the
  gains of `AudioHardwareALSA` forward what they are given.
* Periods, card names and silence of the PCM configurations; bytes and
  microseconds in the sample specifications. `AudioUtils::alignOn16` is
  documented as rounding down and rounds up; nothing uses it.
* tinyalsa, the modem manager, the effect and resampling libraries: external,
  modelled by what they may do.
