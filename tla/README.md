# A verification project for pod-ui

pod-ui is a librarian and editor for the Line6 POD family (POD 2.0, Pocket POD,
PODxt, Bass PODxt). It keeps a copy of the patches of a device, shows and edits
one of them, and talks to the device with MIDI control changes, program changes
and sysex dumps, over MIDI ports or over USB. This directory models the program
in TLA+, checks the models with TLC and proves what matters most with TLAPS.

Contents: [the system](#the-system), [the modules](#the-modules) and how they
correspond to the code, [the runs](#the-runs), [the findings](#findings), [the
proofs](#proofs), [what is not modelled](#not-modelled), [the plan](#plan).

## The system

| Component | State | Operations | Interacts with |
|---|---|---|---|
| Controller (`core/controller.rs`, `store.rs`) | a value and an origin (NONE, MIDI, UI) per control | `set`, `set_full`: write, signal on change or when forced | broadcasts to the GTK thread |
| Edit buffer (`core/edit.rs`) | raw bytes of one patch, modified flag, its controller | load from raw, set the name | controller, handlers |
| Programs dump (`core/dump.rs`, `program.rs`, `names.rs`) | raw bytes, modified flag, name of every program | load, store, set a name, mark | names broadcast to the GTK thread |
| Dispatch (`core/dispatch.rs`) | the reroute table: the data of buffer A goes to buffer B | entered by copies and "load unmodified", taken by the next data event | handlers, GTK thread |
| Generic handlers (`core/generic.rs`) | none of their own | one per event: control change, program change, load, store, copy, data, modified, MIDI in and out | everything above, through the context |
| Application loop (`gui/main.rs`) | the context (moved away while a device is exchanged) | one event at a time from the bus | bus of 512 events, GTK thread |
| GTK thread (`gui`, `gtk`) | the UI controller: "program", "program:prev", buttons; the program grid | widgets write controllers; callbacks send events | bus, controllers |
| Device handlers (`mod-pod2`, `mod-pocket`, `mod-xt`, `mod-bassxt`) | PODxt: request queue, programs awaiting a store status, timeout, tuner | dumps and requests of the device; PODxt replaces load, store and data handlers | bus |
| Wiring (`mod-*/wiring.rs`, `gtk/logic.rs`) | none: callbacks of controls that set other controls | 14-bit halves, effects, tempo, variants of a parameter | controllers, GTK thread |
| MIDI tasks, settings, shutdown (`gui/main.rs`, `gui/settings.rs`) | open ports, cancel channels, join handles, the configuration | bytes in, bytes out, cancel, quiet close; dialog | bus, GTK thread |
| Autodetection (`core/midi_io.rs`, `gui/autodetect.rs`) | candidate ports | probe, halve the outputs, find the channel, test | ports |
| USB transport (`usb/usb.rs`, `dev_handler.rs`, `lib.rs`) | transfers, devices, kernel drivers | open, submit, complete, cancel, close | libusb's event thread, ports |
| USB framers (`usb/midi_framer.rs`, `podxt_framer.rs`) | what was read of an incomplete message | packets to messages and back | transport, ports |
| Codec and control values (`core/midi.rs`, `model.rs`, `core/config.rs`) | none | messages to bytes and back, value conversions | handlers |

What is hard here is not the algorithms but the order of things. Four kinds of
threads share the state: the GTK main loop, the application task, the MIDI tasks
and libusb's event thread. A widget changes its controller at once, but the edit
buffer and the marks follow only when the signal went through the GTK loop and
the event through the bus; handlers read the selected program when they run, not
when the event was caused, and some read it twice; callbacks read the controller
and not their signal; handlers answer events with events; a copy is an entry in
a table that waits for data to come; a USB transfer frees itself while its owner
still has a pointer to it. The list, with lines, is under "hazards" in
`PROJECT.json`, each with the properties that would catch it.

What makes each part correct:

- *patch library*: a program not marked modified is what the device stores; the
  marks of the grid are those of the dump; edits go to the slot of the program
  they were made in, marked; the edit buffer follows the controls; rerouted data
  goes where it was meant to; what the user asks for happens, and the handlers
  come to rest;
- *PODxt*: a dump is put in the program it was requested for; a store ends in
  marks cleared or kept, and the queue never gets stuck;
- *wiring*: controls that set each other settle, agree with each other, with
  the edit buffer and the device, and send only what the user did;
- *session*: there is one context and it is the right one; the dialog has the
  device's line to itself; the shutdown ends;
- *autodetection*: the ports and the channel found are those of one device, and
  a device that is attached is found;
- *USB*: a transfer is freed once and not used afterwards; the driver is taken
  and given back; the reader gets every packet once and in order;
- *framers and codec*: what is parsed is what was sent, however it was cut;
- *locks*: two threads do not wait for each other for ever.

## The modules

Every component has its module (or a small stack of them), a `...Props` module
with its properties, an `MC...` module with an instance for TLC, and where
something is proved a `...Proofs` (`...Rest`) module.

```
PodCore  <- PodCoreProps <- MCPodCore          ControlValues <- Controls <- ControlsProps <- MCControls
   ^    \<- PodCoreProofs <- PodCoreRest                                             \<- ControlsProofs
XtHandler <- XtHandlerProps <- MCXtHandler     MidiSession <- MidiSessionProps <- MCMidiSession
          \<- XtHandlerProofs                                                 \<- MidiSessionProofs
MidiNumbers <- MidiCodec \                     UsbDevice <- UsbDeviceProps <- MCUsbDevice
               UsbFramer  > MidiPath <- MidiPathProps <- MCMidiPath       \<- UsbDeviceProofs
                                             \<- MidiPathProofs
Detect <- DetectProps <- MCDetect              UsbStream (abstract; UsbDeviceProps instantiates it)
                     \<- DetectProofs          Locks
```

Compositions: `XtHandler` extends `PodCore` and replaces its device handlers;
`MidiPath` composes codec and framers; `UsbDevice`, seen through the mapping in
`UsbDeviceProps`, implements the abstract `UsbStream`. Between the stacks the
interfaces are narrow: a packet of `UsbDevice` is a transfer of `MidiPath`, a
message of `MidiPath` is an `in` or `out` event of `PodCore`; `PodCore` knows a
control as one value, `Controls` takes the controller and the wiring apart.

A comment "Mutant:" (in `PodCore` and `XtHandler`: "slip") marks an operator
that is a plausible mistake in the definition after it. Nothing uses it; it
documents what a property would catch.

### PodCore: the patch library

| TLA+ | code |
|---|---|
| `prog`, `progOrigin`, `prev` | UI controller: "program" with its origin, "program:prev" |
| `uiq`, `ctq` | signals of the UI controller and of the device's controller, on their way to the GTK loop |
| `ctl` | the value of the control in the device's controller |
| `bus`, `app` | the application event bus; where the application task stands |
| `raw`, `edited` | `EditBuffer::raw`, `EditBuffer::modified` |
| `data`, `names`, `modified` | `ProgramsDump` |
| `shown` | the modified marks of the `ProgramGrid` |
| `reroute` | `DISPATCH_BUFFER_REROUTE` |
| `devEdit`, `devProgs`, `toDev`, `fromDev` | the device and the cable (external) |

A patch is a value of one control and a name. One control stands for all: the
handlers treat controls alike and never relate two of them. Virtual controls and
raw CC values are in no buffer and are left out.

Each action is a whole handler, with everything it writes and sends, except
where the code reads the selected program again after having used it: there the
GTK thread can come in between, and the action is cut in two (`app` holds what
the rest needs): `HandleProgramChange` / `FinishProgramChange`
(`generic.rs:214` and 228), `DataToProgram` / `Reload` (`generic.rs:396` and
409), `HandleModified` / `ShowModified` (`generic.rs:546` and `main.rs:558`).
The GTK side has one action per widget action (`UserEdit`, `UserRename`,
`UserProgram`, `UserButton`, `UserGrid`, `UserLoadUnmodified`) and one per
receiver (`UiSignal`, `CtlSignal`). `NewDevice` is the installation of another
device, whose hand-over between threads is one step here; `MidiSession` takes it
apart.

The device obeys control and program changes, stores dumps and answers requests
in order; it may turn knobs, change programs and ask for dumps at any time.
`PcNum` is `pc_handler`'s program number with the offset and the numbers of
manual mode and tuner. The bus loses nothing; the grid obeys `UIEvent::Modified`
at once; the MIDI channel always matches; locks are held for the whole of a
handler's step (their order is the business of `Locks`).

### XtHandler: the PODxt's handler

`XtHandler` extends `PodCore`: controls, program changes, copies, marks and the
GTK side are `PodCore`'s actions with the handler's own variables unchanged, and
the handlers that `PodXtHandler` overrides are new ones. `PodCore`'s actions for
what it overrides (`HandleLoad`, `HandleStore`, `DataToDevice`, `MidiSysex`,
`DevReceive`) are not used; `DataToEditBuffer`, `DataToProgram` and `Reload`,
which `buffer_handler` calls, are.

| TLA+ | code |
|---|---|
| `queue` | `Inner::midi_out_queue`; its head names the answer that comes next |
| `ack` | `need_store_ack` |
| `storing` | `store_programs` |
| `handle` | `store_status_timeout_handler`: none, a timer still running ("armed"), or one that has sent its timeout marker ("fired") |
| `orphans` | timers that run on after their handle was replaced or taken |
| `reported`, `effects` | `reported_program_number`, the names of the effects |
| `devProg`, `devGot` | the device's program, the patch dumps it got since the last end (external) |

`XtStore` is the guard on the handle, `EndMarker`, `TimeoutMarker` and
`NumberMarker` are the three markers, `TimerFires` the tasks they start; the
actions ending in `In` are the branches of `midi_in_handler`. The device follows
every dump it sends with an end (as pod-ui itself does when it is asked) and
answers the end of the dumps it got with a status, which may be negative
(`DumpsMayFail`) or not come (`StatusMayBeLost`). `Timely` says that the five
seconds are longer than everything under way; without it a timer may fire at any
moment. The tuner, the installed packs and the change of device are left out.

### ControlValues and Controls: values and wiring

`ControlValues` is the conversions of `model.rs`: every kind of control range
to a MIDI value (`ToMidi`), to a value on the screen (`FromMidi`), to and from
the bytes of the edit buffer. The floating-point formulas are written as integer
ones; they were compared over every value of every range and agree. `Pod2Controls`,
`XtControls` and `BassControls` list one control of every kind and range that
the tables declare.

`Controls` is the wiring: one panel of dependent controls at a time, over the
controller and its signals.

| TLA+ | code |
|---|---|
| `ctl`, `queue` | `Controller` values with origins; the broadcast of its signals |
| `gtk` | the signal in `controller_rx_handler`, and the callbacks of its control that remain: each takes the controller's lock on its own |
| `bus` | `AppEvent::ControlChange`, MIDI in and out, loads and dumps of the edit buffer |
| `raw`, `dev` | the edit buffer's values; the device's registers (external) |
| `panel`, `actors`, `slow` | what is looked at, who acts, and whether they wait for each other; chosen in `Init` |

| panel | wiring | |
|---|---|---|
| `delay` | `wire_14bit` (POD 2.0) | a value of 14 bits and its halves |
| `effects` | `wire_effect_select` (POD 2.0) | the effect, the raw number that also says whether it has a delay, the delay's switch |
| `tempo` | `wire_tempo`, `wire_14bit` (PODxt) | tempo and modulation speed, in halves, and the note value that ties them |
| `stomp` | `wire_dynamic_params` (PODxt) | a parameter and two ways to show it |
| `pedal` | `wire_pedal_assign` (PODxt) | a range and a choice |

`Shown` are the controls with a widget, `Values` what a control can hold,
`Registers` what a device can; `ControlsAssumption` says that users and devices
keep to them. `Addressed` and `Sent` are the controls with a place in the edit
buffer and with a control change number. `LoadOne` is one turn of the loop of
`load_from_raw`; five turns do for the largest panel.

Taken for granted: the cable is collapsed into the bus (the device answers at
once); the device keeps the rules note / tempo / speed and effect / delay in its
own registers; the effects table is reduced to one effect with both numbers
(Bypass), one only with a delay (Auto Swell) and one only without (Rotary);
`MidiSwitch` behaves as a switch that is not inverted; the user acts only when
the GTK queue is drained, since the receivers run at `Priority::HIGH`
(`main.rs:459-479`) before any widget event.

### MidiSession: the connection over the life of the program

| TLA+ | code |
|---|---|
| `startup` | the detection of `autodetect::detect` and its result |
| `config`, `named`, `isUsb`, `cancels`, `joins` | fields of `State`; `cancels` and `joins` name the session they belong to |
| `sessions` | the MIDI-in and MIDI-out task of every `midi_in_out_start`: running, told to end, in the quiet time of `MIDI_CLOSE_QUIET_TIMEOUT`, gone |
| `dialog`, `stopping`, `workers` | the settings dialog, the sessions its tasks await, the Autodetect and Test tasks |
| `bus`, `uiq` | `AppEvent`s of the hand-over and the shutdown; `UIEvent`s |
| `ctx`, `share` | the application task's context and `ctx_share`, each named by its configuration |
| `panic`, `quitting`, `closing` | failed unwraps; the shutdown and the session it awaits |

`SetMidiInOut`, `Start` and `Stop` are `set_midi_in_out`, `midi_in_out_start`
and `midi_in_out_stop`; the handlers have the names of the events. The dialog
runs a main loop of its own, so results and events arrive while it is open. A
"patient" user acts when the program has done what was asked; a "hasty" one at
any moment. `line` and `user` are chosen in `Init`. A USB device can be opened
by one at a time (`Free`), which is what `UsbDevice` shows.

### Detect: the search for the device

A bench is what is attached: devices, the input each is heard on, the outputs it
hears, its channel, what it replies and how many inquiries it ignores first. A
job is what is asked for: the attempts (MIDI ports, then USB: `run_autodetect`)
or a test (`test_with_ports`). A reply travels, is queued by its input port, and
is read when a probe reads that port: the queue outlives the probe, so that a
late reply is taken for the answer to the next one. `Probe`, `Retry` and
`ProbeAgain` are the loop of `detect()`, the actions of `phase` "input",
"output", "channel" the three steps of `autodetect_with_ports`, the binary
search over the outputs included (`Slice`, `Probed`); `Opened` the indices taken
from one listing and used in another. The ports of the operating system are
external; `punctual` says that every reply comes before its probe's delay is over.

### UsbStream, UsbDevice: the USB transport

`UsbDevice` has one device and several owners (threads and tasks that open it,
send, and drop its two halves).

| TLA+ | code |
|---|---|
| `plug`, `wire`, `sent`, `driver`, `claimed` | the device, what it still holds, the kernel driver and the claim of the interface (external) |
| `known`, `weak`, `devices` | `DEVICES`: the `Device` listed, its `Weak<DeviceInner>`, the mutex |
| `pc`, `inner` | where an owner stands in `Device::open`, `DeviceInner::close` and `close_inner`; its `DeviceInner` |
| `xfers` | every `Transfer`: status, what libusb does with it, its memory, what its callback sent to the channel |
| `completed`, `event` | `libusb_handle_events` and the callback it runs |

`Transfer::callback` is four steps, because its lock and its memory are what the
canceller races with: it takes the status lock (`CallbackStart`), handles the
result and submits again (`CallbackRun`), gives the lock back (`CallbackEnd`),
frees the transfer (`CallbackFree`). `SubmittedTransfer::cancel` (`CancelRead`) is
one step under that lock. `Joined` says that a device is opened only after those
who dropped it have finished closing, as `midi_in_out_stop` followed by the
awaited handles guarantees.

Every call of libusb may fail with the device there, at any time and whatever
failed before: the configuration is not to be had (nothing is listed, so nothing
is claimed), a driver passes for absent, a detach fails, setting the
configuration makes the kernel bind its driver again, a claim fails, a read, a
write or a resubmission is refused. Opening goes on with all of these but the
last, as the code does, and a refused read gives back what was taken
(`ReadRefused`, `close_inner`). That libusb refused a transfer is noted in
`refused` for the properties, which promise no packets from such a read. Left out
are `handle.reset()` and `set_alternate_setting`, whose errors are logged and
which change nothing modelled (a reset after which the device is another one is
an unplugging). Assumed is that a transfer needs a claimed interface, which
excludes the kernel driver, that the kernel driver is bound when a device is
plugged in, and that releasing and attaching fail only when the device is gone or
the interface is still claimed: the code logs other errors and has nothing else
to try.

`UsbStream` is what this promises a reader: each stream yields packets in the
order they were sent, no packet comes twice, by whatever stream, and nothing
comes after the end.

### MidiNumbers, MidiCodec, UsbFramer, MidiPath: bytes

`MidiCodec` is `MidiMessage::to_bytes` and `from_bytes`: 25 layouts of system
exclusive messages, control and program change; a layout is constant bytes and
fields, each with the conversion of its value (`MidiNumbers` for numbers in 7
and 4 bits and the PODxt's two ways of numbering programs). A number the code
does not convert is a panic, bytes that fit nothing are refused. `UsbFramer` is
the two framers in both directions. `MidiPath` is the way between a USB device
and the application: the device's bytes arrive in transfers that end anywhere.

Two facts about the device are assumed: an event packet is not split over two
transfers, and a transfer of a PODxt ends with a control or program change (its
framer takes all that follows for a part of it).

### Locks

The mutexes that the GTK thread and the application task share, and every
critical section of either as the list of locks it takes and gives back, in the
order of the guards' scopes. The two threads do their sections in any order,
which is more than they can; between two sections of a handler nothing is held.
`ui_controller` and the reroute table are only ever taken last and alone, so
that nobody can wait for them for ever; they are left out.

## The runs

Twelve runs. Ten must pass; two end in a violation that is a finding. Where a
run is a sequence of acts "one at a time", the sequence has no end and any
order: the state is finite because everything comes to rest in between. A
"burst" is two acts at any two moments: two are the least that can race, and the
theorems cover any number.

| Run | Asks | Bounds |
|---|---|---|
| `PodCore_seq` | One thing at a time by user, device and librarian (flags of the POD 2.0): `TypeOK`, `UnmodifiedMatchesDevice`, `GridShowsDump`, `SavedEditsAreMarked`; fair: `Settles`, `UserActionsArrive`. | Two programs, manual mode, tuner, `MaxBacklog` = 0; the patches differ in two values of the control, or in two names (`same`; then only the user acts, without the tuner) |
| `PodCore_burst` | From rest on a selected program, two further acts at any moment, one of them possibly the connection of another device (flags of the Pocket POD): `EditBufferFollowsControls`, `PreviousCatchesUp`, `RouteIsAwaited`. | `MaxActs` = 2; the backlog bound is never reached |
| `Xt_seq` | One thing at a time on a PODxt that may refuse dumps: `UnmodifiedMatchesDevice`, `RestIsComplete`; fair: `LoadArrives`, `StoreArrivesOrStaysMarked`. | As above with one effect patch; the device starts on its second, edited program |
| `Xt_burst` | After the startup two acts at any moment, answers late, lost and negative, dumps of a peer: `StoreIsWatched`, `StoreIsNotBlocked`. | `MaxActs` = 2; one value of the control, since these do not speak of contents |
| `Xt_loads` | `UnmodifiedMatchesDevice` is violated by two quick loads. | Two loads |
| `Usb_device` | Two owners open, send, drop; the device is unplugged and plugged in again at any moment, and libusb may fail any step of an opening and any transfer: `NoDanglingTransfer`, `OpenDeviceIsHeld`, `DriverIsGivenBack`, `ImplementsStream` (the refinement); fair: `TransfersEnd`, `PacketArrives`. | Two owners, transfers, packets and plugs: a second opening meets an open device, the close of an old plug the use of a new one, a read a write (`Joined`: no opening starts while another owner closes) |
| `Session` | A patient or a hasty user opens the dialog, tests, connects, cancels, quits, over MIDI or USB; the detection ends when it likes, the device may be unplugged: `PatientUserIsSafe`, `DialogHasTheLine`, `CtxMatchesConfig`; fair: `Quits`. | Three sessions, two dialogs: one session is stopped, one runs, one follows; two dialogs can be confused |
| `Detect_ports` | Devices on two inputs, three outputs and USB, ports that do not open or do not send, late replies: `FoundIsRight`, `SearchKeepsDevice`; fair: `AttachedIsFound`, `SearchEnds`. | Two devices, three outputs (an uneven half), `MaxReplies` = 4 |
| `Midi_path` | Every kind of message, either framer, every way to cut the stream: `ReceivedInOrder`, `SentArrives`, `BufferSuffices`, `NumbersSurvive`; and what the theorems assume of a message (`MessagesAssumption`, `ParsedBack`). | Two messages, transfers of at most 16 bytes and a buffer of 36 in place of 1024: what counts is that the longest message and one transfer fit, an assumption (`MidiPathAssumption`) |
| `Controls` | Five panels, moved by the user, the device or both, slowly or at any moment: `ControlsAgree`, `BufferMatches`, `AgreesWithDevice`, `OnlyUserSends`, `ValuesSurvive`; fair: `ControlsSettle`. | Two acts; values that share one half and that differ in both |
| `Controls_load` | `LoadsSendNothing` is violated by two quick program changes. | Two patches |
| `Locks` | Every pair of critical sections in every interleaving: `OnlyKnownDeadlock`. | None: the sections are all there are |

Deadlock is checked where the system runs for ever (`PodCore_seq`, `Xt_seq`).
The others stop at their bound: the burst is handled, the program has quit, the
device is found, the acts are used up; in `Locks` the deadlock is the question.

What some of the properties mean beyond their comments:

- `UnmodifiedMatchesDevice` and `GridShowsDump` speak of states at rest when one
  thing is done at a time. Under races they do not hold (see below).
- `ControlsAgree` holds at rest whatever races. The speed that a note gives in a
  tempo (`SpeedFollows`) is a part of `AgreesWithDevice`, which asks for a user who
  waits: who moves the speed while the tempo is under way is left with the note.
- `BufferMatches` holds at rest whatever races, too, except that controls with
  halves may disagree with the buffer after two quick changes (`cc_handler` writes
  the value of the moment, of one half, later), and that the bytes of a speed
  derived from a note are not written at all (`Derived`).
- `OnlyKnownDeadlock` states the one pair of sections that *can* stop both
  threads, `update_edit_buffer` against a name that is typed or the start of a
  new configuration's controls, and that no other can.
- `FoundIsRight` says less when replies are late: only input and configuration
  are then those of a device.

### Fairness

Weak fairness of what runs whenever it has something to do: the GTK loop, the
application task, the MIDI tasks, libusb's event thread, the detection's task,
and the device, which reads its cable and answers. None of these is disabled by
another once it has input, so weak fairness suffices. Timers of the PODxt
handler are strongly fair: a user who acts again and again leaves rests in
between, and five seconds pass however often he acts. A USB transfer completes
in the end because each has a timeout (`READ_DURATION`, `WRITE_DURATION`).
Users, knobs, plugs and the device's own messages need not move.

In `Session` the quiet time of a closing MIDI-in task ends in the end, except
on a USB device that was unplugged, whose port returns at once for ever
(`Spins`): `Quits` is therefore promised for MIDI cables only. `SearchEnds`
excludes a port that never sends: the loop around it counts nothing.

## Findings

1. *Two quick loads mix up two patches* (`Xt_loads`). Every load sends the head
   of the queue, in flight or not (`mod-xt/handler.rs:66`, 181); the answer to
   the repetition is put in the other slot, unmarked.
2. *A patch is loaded with another one's effect* (`Controls_load`). The callback
   of `effect_select` reads the controller when it runs and writes
   `effect_select:raw` with the origin UI, whoever set the effect
   (`mod-pod2/wiring.rs:207`, 233). Select two programs quickly: the callback of
   the first puts its effect over that of the second, and sends it.

TLC reached these, too, in instances that are not kept as runs; each is a
behaviour of the modules here:

- *A saved edit loses its mark*: edit a control and select another program before
  the mark has gone through the bus. The program change saves the edit buffer to
  the slot left while the edit flag is not yet set; the queued
  `Modified{Current}` then marks the new program (`generic.rs:75`).
- *A device change touches one slot*: "program:prev" is not reset with the new
  device, and the first program selected saves the blank edit buffer to the slot
  of the program used with the old one, unmarked (`generic.rs:194`).
- *One patch dump of Line 6 Edit stops all loads of a PODxt*: the flag that asks
  for an acknowledgement is never reset (`mod-xt/handler.rs:216`).
- *A copy is lost while a store's status is awaited*, and its reroute stays
  (`mod-xt/handler.rs:200`).
- *A hasty user can make the program panic*: the context is taken back by a
  second `NewConfig` before the `NewCtx` of the first (`main.rs:878`), or the
  dialog is cancelled before a configuration is there (`settings.rs:514`).
- *A cancelled dialog may not reconnect*: the state says "not USB" for whatever
  was detected, and the device is looked for among the MIDI ports
  (`autodetect.rs:115`).
- *The last port is never probed* when the program's own port is listed before
  it: the indices of a filtered listing are used in the unfiltered one
  (`midi_io.rs:458`), which is why `Attached` asks for an output that `Opened`
  has.
- *A control of the patch before stays on the screen*: after two quick loads a
  14-bit control can keep the first patch's value, its buffer bytes the second's.
- *The edit flag stays set after a load* of the current patch, so that leaving
  the program marks its slot again (`generic.rs:552`).
- When two stores are on the bus before the first is handled, the status of the
  first clears the marks of both (`mod-xt/handler.rs:368`); and the edit buffer,
  requested past the queue, is taken for the patch at its head while patches are
  loading (`mod-xt/handler.rs:168`).

## Proofs

All theorems hold for every value of the constants that satisfies the named
assumptions, and for the specification without fairness: every interleaving,
every bound. They rest on nothing else.

**The patch library** (`PodCoreProofs`; from `PodCoreAssumption`:
the named buffers and special programs are distinct, the numbering is injective,
the blank patch is a patch).

- `TypeCorrect`: `TypeOK`. One step per action; lemmas on queues and on the
  events each handler sends. The conjunct `reroute[All] = NoRoute` is the
  strengthening it needs: data for all programs has another shape than that of a
  single buffer.
- `PreviousCorrect`: `PreviousCatchesUp`, inductive together with `TypeOK` and
  `HiddenIsSilent` (the hidden program is only ever selected with no origin): the
  signal of a program change is dropped exactly when the origin is NONE or the
  program is the hidden one, and the property must survive both.
- `EditBufferCorrect`: `EditBufferFollowsControls`, inductive with `TypeOK`. The
  delicate step is `HandleControl`: it consumes a signal that could be the last
  reason, and re-establishes equality because it writes the controller's value.
- `RouteCorrect`: `RouteIsAwaited`, inductive with `TypeOK`. Each event, message
  or request that an entry waits for turns into the next one on the way, and the
  data event removes the entry.

**The patch library, one thing at a time** (`PodCoreRest`; `PodCoreAssumption`):
`UnmodifiedCorrect` (`UnmodifiedMatchesDevice`), `GridCorrect` (`GridShowsDump`) and
`SavedEditsCorrect` (`SavedEditsAreMarked`), for any number of programs and modes,
every numbering and every combination of the device flags, under `OneAtATime`:
`MaxBacklog = 0`, and the device is not changed for another. Both are needed:
two acts in flight lose a mark, and `program:prev` survives the device (see the
findings); `PodCore_seq` is an instance that satisfies both. The
properties speak of states at rest, and say nothing of the states between two
of them. `RestInv` does:

- `AloneInv`: what an act sets off either keeps the program and the data of all
  slots (`Leads` is false of it) or is the only thing under way in all queues,
  from the button to the device's answer and back. What is harmless may be
  several (a load of the edit buffer signals, marks and renames), but never
  together with something that leads. Each handler answers with one event that
  leads, or with any number that do not.
- `FlightInv`: a dump on its way to the device is what the slot holds, one on its
  way back is what the device holds (`CarryInv`), a copy of the edit buffer has
  its event, with the buffer's content (`CopyInv`), and the hidden program
  has no slot to come back to (`SwitchInv`).
- `UnmarkInv`: a mark is only taken back when the slot is as on the device or its
  dump is going there, which is why clearing the mark before the device has
  answered is safe here.
- `StateInv`: every slot is as on the device, marked, or will be one of these, and
  so are the edit buffer, the names and the marks in the grid. While a
  program change is handled, the program in the edit buffer is `InEdit`: the new
  one after the buffers were exchanged, before `program:prev` says so.

`RestInv` is inductive together with `AnyTime`, which is proved without the
hypothesis: `TypeOK`, `PreviousCatchesUp`, `RouteIsAwaited`, and `SilentIsHidden`
(only the hidden program was selected by nobody). There is one lemma per action,
and lemmas for what handlers have in common: an answer (`AnswerKeeps`), a
dump stored (`StoredKeeps`), an event passed on (`PassOn`). TLC found no violation
of `RestInv` and `AnyTime` on the instance of `PodCore_seq`, with two values or two
names and with four combinations of the device flags.

**The PODxt's stores** (`XtHandlerProofs`; `PodCoreAssumption` and
`XtHandlerAssumption`): `StoreWatched` and `StoreNotBlocked`. Neither property is
inductive: when `XtDataOut` sends a patch dump, what will start the timer is an
end marker that nothing in them puts on the bus. `StoreInv` adds `Ended(bus)`:
behind the data of every store on the bus there is an end marker. That holds
because the bus is first in, first out and `store_handler` sends the marker in
the same step as the data, and it survives any step that takes the head and adds
data only with its marker. Every action but six is such a step and leaves the
store's variables alone (`QuietSteps`). `IsFiniteSet(storing)` is needed for the
events of the programs drained to be a sequence at all.

**The PODxt at rest** (`XtHandlerProofs`; `PodCoreAssumption`, `XtHandlerAssumption`
and `XtStartupAssumption`: there is a program to load at the start, every effect
is asked for, and no effect's name is empty, which is how "not yet known" is
told). At rest nothing is left over: no request in the queue, no part of the
startup, no entry of the reroute table. A request is retired by its answer, and
the answer does not say whose it is, so the proof is about what is under way.

- `XtAnswersAndStartsUp` (`RestMeansAnswered`, `StartedUp`) assumes nothing of the
  user, who may act at any moment, nor of the statuses and their timers; only
  that the device sends dumps when asked (`~PeerDumps`) and does not ask for any
  itself (`~PeerRequests`): a dump that nobody asked for retires a request that is
  not its own (see the findings). `AnyInv` says that
  the request at the head of the queue or its answer is under way (`Answering`);
  that the startup's marker stands where its handler finds the queue as it left
  it (`NumberFirst`); that the device's program is known or asked for (`ReportInv`);
  and that an effect without a name waits behind the head, or is the head and
  its dump is in front of every end under way (`EffectsInv`). The last one needs
  the order of everything that comes in: `Incoming` is the bus followed by the
  cable, seen as one stream, and `Paired` says that no end overtakes its
  dump there. Each handler takes the head of that stream, or puts something
  in the middle of it that does not come in; the receiver thread leaves it as it
  is, and the device appends to it.
- `XtRestComplete` (`RestIsComplete`) is the run's whole property, and adds the
  reroutes. It assumes what `Xt_seq` does: the user acts at rest
  (`MaxBacklog = 0`) and waits for the timers (`Timely`), no unasked dumps, and every
  store gets a status (`~StatusMayBeLost`), which may be negative; the peer may ask
  for dumps. A copy onto the device is dropped while a status is awaited, and
  leaves its entry: so `StatusInv` shows that a handle that is not "none" has a
  status coming, `CopyAlone` that a copy finds nothing else in flight, and
  `RouteShape` lists the states between the copy and the data that takes its
  entry: one short path through the handler's own store, one through the
  device. Without the last two hypotheses the property is false, as the findings
  say of a copy that is lost.

TLC found no violation of `AnyInv` on the instance of `Xt_loads` and none of
`SeqInv` on that of `Xt_seq`, before they were proved.

**The USB transport** (`UsbDeviceProofs`; `UsbDeviceAssumption`).

- `UsbTypeCorrect` and `TransfersAreSafe` (`NoDanglingTransfer`), from `UsbInv` =
  `UsbTypeOK`, `OpeningInv` (who holds the mutex of `DEVICES` while a device is
  opened), `TransferInv` (a transfer libusb has is allocated, and one that is still
  wanted is with libusb), `EventInv` (each completed transfer is queued
  once, and is not the one the event thread works on). The argument is the one
  the code rests on: a callback that ends the transfer sets the status under the
  lock before it frees, and the canceller looks at the status under that lock.
- `StreamsImplement` (`ImplementsStream`): every behaviour of `UsbDevice`, under
  the mapping of `UsbDeviceProps`, is one of `UsbStream`. Steps of `CallbackRun`
  that deliver are `Yield`, the end of a read is `End`, everything else stutters.
  `StreamInv` adds that the packets delivered are older than those completed and
  those older than the ones the device still holds, and that no packet is in two
  places; `Newest` is a maximum, which exists because packets are bounded.
- `DeviceIsHeld` and `DriverReturns`, under `Joined`: an open device is claimed
  and without kernel driver, and an idle one is given back. Without `Joined`
  both are false (a `Weak` no longer upgrades while its `DeviceInner` still
  closes); the `HoldInv` of the proof says who of all owners may have claimed,
  released or remembered a driver at each step of opening and closing: as long as
  the device stays plugged in, what is claimed was listed by the owner at work, and
  a driver that is detached is one it will attach, however the opening fails.

**The session** (`MidiSessionProofs`; `MidiSessionAssumption`): `PatientIsSafe`,
`ContextMatches`, `DialogHasLine`, from `SessionInv`. `CtxInv` says that while the
context is not that of the configuration, a hand-over is coming or the new one
is announced, for every user. `PatientInv` says that for a patient one there is
one event, one dialog and one worker at a time, and that every task that is not
gone belongs to the session whose handles are kept, that the dialog awaits, or
that the shutdown awaits: this is what `DialogHasTheLine` needs and does not say.

**The search for the device** (`DetectProofs`; `BenchAssumption`,
`JobAssumption`): `FoundRight` (`FoundIsRight`) and `SearchKeeps`
(`SearchKeepsDevice`), from `DetectSound`: `DetectInv` is invariant, for any
number of devices and ports. Whether or not replies are late, `QueueInv`,
`RepliesInv` and `SourceInv` say that every reply read is one that a device gave on
an input that is open. When they are punctual, `TimelyInv` carries the rest:

- `ClearInv`: between two probes nothing is under way, so that what `ProbeInv`
  says holds, every reply read was caused by this probe;
- `InputInv`: every device that hears the first probe has a reply under way or
  counted, which is why one counted reply means one device (`OnlyInv`), and why
  two of them are not taken for one;
- `OutputInv`: the device is still reached by an output of the chunks that are
  not ruled out (`Heading`): a chunk that stays silent is ruled out only after
  all of its replies were waited for, and halving loses no output (`Slice`).

**The wiring** (`ControlsProofs`; `ControlsAssumption`): `Agreement`
(`ControlsAgree`) and `NoEcho` (`OnlyUserSends`), from `ControlsSound`:
`ControlsInv` is invariant, for all moves, patches and any number of acts.

- `AgreeInv` is what "the controls agree" becomes in the middle of things. A
  half may differ from its whole only while a change of the whole is yet to be
  handled (its signal waits, or none of its callbacks has run), or one of the half
  that the user did not make, and which will be joined; a way to show a
  parameter may differ only while the parameter's change waits, or one by
  the user that will set the parameter. The origins matter because the callbacks
  look at the origin of the moment: a change by the user that overtakes one by
  the device takes its callback away, and the proof has to find another one that
  is still to come.
- `QuietInv`: while only the device acts, no value and no signal has the origin
  UI. The effects panel breaks this by construction (`to_raw` writes as the
  user), and there the argument is another one: the device's events come to a
  panel at rest (`Alone`), so that when the callback of the effect runs, effect,
  number and switch belong together (`Matches`) and `to_raw` writes the number
  that is there. Without `slow` that is false: it is the finding of `Controls_load`.
- `AllValuesSurvive` (`ValuesSurvive`) says of the kinds of controls what the run
  computes for the listed ones: `Declared` names what a kind asks of its bounds, steps
  or function, one lemma per kind (`ShortSurvives`, `LongSurvives`, ...) shows for all
  bounds that no value is lost, or how far a long range is off, and `AllDeclared`
  that the devices' controls are declared so.
- `BufferCorrect` (`BufferMatches`) rests on `BufferInv`, which the runs `Controls`
  and `Controls_load` checked before it was proved. Its first part, `Written`: what
  the edit buffer stores for a control is the control's value, or a change of it
  that has an origin is `Pending` (its signal waits, is at the GTK thread, or is on
  the way to `cc_handler`, which writes the value of the moment). A change without
  an origin is not written, so whatever sets a stored control without one must leave
  it as it is. For a panel without halves that follows from what each callback sets
  (`CallbackSpeaks`: a control that is stored is only ever set by the user, by the
  device or by the load that writes the buffer itself). With halves it does not: a
  patch that sets the whole, or both halves, makes the callbacks split and join
  without an origin. The rest of `BufferInv` says why nothing new comes of that when
  the user and the device wait for each other. What is under way then has one
  origin (`OneOrigin`, as what the device sends `ComesAlone`); and if that is none,
  each half is the one of its whole, or will not be handled again (delay), or is
  yet to be joined before the whole is split (tempo, `Unjoined`): a split that
  follows finds the halves as they must be. Two quick acts mix origins, and the
  property is not claimed for them.

**Numbers in messages** (`MidiPathProofs`): `NumbersComeBack` (`NumbersSurvive`).
The run computes every program number and the numbers at the boundaries; the
lemmas are for all that fit (`PatchSurvives`, `MidiPatchSurvives`, `SavedSurvives`,
`SevenBits`, `FourBits`), and `NibblesSurvive` for dumps of any length.

**The way of the messages** (`MidiPathProofs`; from `MidiPathAssumption`: the
buffer holds the longest message and a transfer): `MessagesInOrder`
(`ReceivedInOrder`), `BufferHasRoom` (`BufferSuffices`), `AppMessagesArrive`
(`SentArrives`), for messages of any length, any number of them and transfers that
end anywhere. `MessagesAssumption` says that each message is in bytes a whole one:
0xf7 stands at the end of a system exclusive message and nowhere before (its bytes
are of 7 bits), a control or program change has its length, on the channel that
the framers know. `MessagesInOrder` has a hypothesis on top, `ParsedBack`: each
message alone is parsed as it was written. That is a matter of the codec's tables
and of one message, which the run checks of every kind (the first message received
is the first one sent); what the theorem adds is that no cut of the stream mixes
or loses any.

- `PathInv` is the invariant behind the first two: the messages received are the
  first `k` of those sent, and what the framer keeps, with the bytes that were not
  transferred yet, is the stream of the others (`At`). In event packets (`MidiAt`)
  the framer keeps the first `3 * j` bytes of the next message, and its packets from
  the `j`-th on are under way. With a PODxt (`XtAt`) it keeps its first `j` bytes,
  whose command byte is corrected already, so that the next call of the framer
  starts with bytes the device did not send so: `Aligned` says at which place of
  the bytes a message starts, and in which of the two spellings.
- A transfer keeps `PathInv` (`MidiTransfer`, `XtTransfer`): the first by what one
  packet does (`MidiStep`), the second by what one turn of the framer's loop does
  (`AlignedStep`), where a control or program change is complete because the
  transfer ends with it (`LastIsShort`, the assumption about the device).
- When nothing is under way, nothing is kept (`AtAll`); and what is kept is a part
  of one message (`AtRest`), hence the buffer's room.
- `SentInv` is the invariant behind the third: the device reads the packets as
  the bytes of all messages; the chunks of a message join to it (`ChunksJoin`).

The framers and `FlattenSeq` are recursive. The provers cannot use the induction
theorems of the library, which take an operator; what holds for every length is
shown for a set of numbers or sequences instead (`Induct`, `SeqInduct`), from a
well-founded order of the numbers.

**Only model-checked**: `UnmodifiedMatchesDevice` with the PODxt's handlers (it
needs `RestInv` again, for handlers that answer in several steps); of `Controls`,
`AgreesWithDevice` (it depends on the order of all that is queued, and on what the
device makes of it); that the codec parses what it wrote (`ParsedBack`: the layouts
are data, and the run computes them for every kind of message); `Locks`, which has
no parameter to generalise; and all properties under fairness (`Settles`,
`UserActionsArrive`, `LoadArrives`, `StoreArrivesOrStaysMarked`, `TransfersEnd`,
`PacketArrives`, `Quits`, `AttachedIsFound`, `SearchEnds`, `ControlsSettle`), which
are out of the prover's reach.

## Not modelled

- GTK widgets, glade files, drawing and layout; logging; the crash report, the
  command line, the update check, the module registry: no state that the rest
  depends on.
- The tables of controls, effects, amplifiers and devices: data; one of each kind
  is taken. `raw.rs` is used by no handler.
- The tuner and the installed packs of the PODxt (a poll and a display); the
  delay note of the PODxt, which is `wire_tempo`'s pattern once more; the tweak
  control of POD 2.0 effects.
- A bus that lags (`main.rs:760`): every bus is unbounded. Its capacity is far
  above what one act or one answer puts there; a lost event would falsify every
  property about its arrival.
- USB hotplug callbacks that only refresh the list of names, and the attach and
  detach messages in the dialog.
- Universal device inquiry as an event of the running program (it only notifies);
  during detection it is modelled.
- Two loads of different kinds in flight on a PODxt (`mod-xt/handler.rs:168`):
  what two loads do to each other is shown by `Xt_loads`.

## Plan

The order was: the patch library (`PodCore`), the PODxt's handler, the session
and the context, the detection, the USB transport with its refinement, the way
of the bytes, the wiring, the locks. All of it is here. What would come next:

1. an abstract `PatchLibrary` (a slot is the device's or marked) that `PodCore`,
   one action at a time, implements, and a FIFO of requests for `XtHandler`;
2. `UnmodifiedMatchesDevice` with the PODxt's handlers as a theorem, on top of
   `XtHandlerProofs`;
3. `AgreesWithDevice` as a theorem;
4. the tuner and the delay note of the PODxt, and a bus that loses events.
