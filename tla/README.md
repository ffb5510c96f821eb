# Verification of the Silverware ESP32 transmitter

The repository is the firmware of a drone transmitter (an ESP32 that reads a
Bluetooth gamepad and drives an nRF24 radio as an XN297, speaking the Bayang
protocol of an NFE/Rajawali Silverware flight controller, FC) and a Python
ground station that records what the transmitter exports over its serial port.
This directory holds TLA+ modules translated from that code, TLC configurations
that check them on small instances, and TLAPS proofs of the results that matter
most, for every value of the constants.

`PROJECT.json` lists the runs, the definitions with the source lines they
model, a mutant for every property, the hazards and the findings.

## 1. The system

| Component | State it keeps | Operations | Talks to |
| --- | --- | --- | --- |
| Control and RF task (`main/app_main.cpp`) | previous state and buttons, pre-arm stamp, hop index, failure counter, AUX selections, gesture player | one loop iteration per 5 ms: snapshot, state machine, pre-arm, packet, transmit, listen, publish | everything below |
| Safety state machine (`main/safety/failsafe.cpp`) | `current_state`, `bind_start`, last gamepad stamp | `failsafe_update_at`, complete/cancel pre-arm, report radio error | called by the control task |
| Pre-arm guard (`main/safety/prearm_guard.cpp`) | none | decides whether telemetry confirms the selections | telemetry, profile |
| Gamepad manager (`main/gamepad`) | `current_state`, the pad pointer | poll, callbacks, snapshot, button edges | gamepad bridge |
| Gamepad bridge (`components/bluepad32_arduino`) | shared controller slot, mutex, per-core bookkeeping | Bluetooth callbacks on core 0, poll on core 1 | Bluepad32 |
| NFE Silverware profile (`main/radio/nfe_silverware_profile.cpp`) | AUX selections and edges, gesture player | toggle, pack/unpack flags, start/advance/cancel gesture | control task |
| Radio (`xn297.cpp`, `nrf24.cpp`, `bayang.cpp`) | the chip's registers and FIFOs | mode scripts, payload, status, IRQ pin | the FC, over the air |
| Telemetry (`main/telemetry/telemetry.cpp`) | `current_telemetry` | decode, freshness | control task, guard, export |
| PC export (`pc_telemetry_export.cpp`) | queue, sequence numbers, drop counter | publish (control task), send (export task) | ground station |
| Feedback (`main/feedback`) | requested and active transition, time in it | mailbox store, 10 ms task | control task |
| Settings (`main/storage`) | NVS: transmitter ID, AUX byte | load, generate, save | `setup`, control task |
| Console (`main/console`) | status mailbox, event queue | publish, print | control task |
| Ground station (`ground_station.py`) | port and buffer, last sequences and timestamp, gap counters, displayed data, remembered values of the event tracker | open, read, cut, decode, accept, detect a restart, give up a silent handle, close the books | serial port, recorder |
| Blackbox (`blackbox.py`) | queues, inventory, files of a session, the logs directory | offer, write, rotate, compress, prune, close, recover | three threads; other processes |

What is hard about it:

* **timing and freshness**: every safety decision compares a stamp with now,
  while iterations may be late;
* **two cores and several tasks** that share a slot guarded only in part, a
  mailbox, a queue whose producer also consumes from it;
* **an unreliable link**: packets and answers are lost, answers come late, noise
  is captured, and the driver cannot tell whether the FC heard a packet;
* **power loss** between any two steps, with selections and identity in flash;
* **crashes of the ground station** in the middle of file operations, and
  several processes that recover and prune one directory.

What makes the components correct: motors are commanded only from a fresh
report while ACTIVE; ACTIVE is entered only after the FC has acknowledged what
will be armed; every disarm takes effect in the packet of its iteration; timed
states end; a dead radio is noticed and stays off; identity and selections
survive power loss; no record is lost uncounted between the FC and the disk;
what a crash leaves is readable and is not touched while it is owned.

## 2. Modules

| Module | Models | Used by |
| --- | --- | --- |
| `Failsafe` | `failsafe.cpp` as operators from state and inputs to state | `ControlTask`, `Feedback` |
| `Telemetry` | decoder and freshness, ages | `PrearmGuard` |
| `SilverwareProfile` | AUX selections, gesture player | `ControlTask` |
| `PrearmGuard` | the confirmation test | `ControlTask` |
| `ControlTask` | the composition: the loop of `control_radio_task`, with gamepad, radio, FC, flash and power as environment | `MCControlTask`, `ControlTaskProofs` |
| `ArmingProtocol` | abstract: what pilot, transmitter and FC may do to arm and disarm | implemented by `ControlTask` |
| `GamepadBridge` | both cores around the shared slot | `GamepadBridgeProofs` |
| `RadioFrame` | one SPI command at a time against the chip | `RadioFrameProofs` |
| `TransmitterId` | startup, NVS faults, binding | `TransmitterIdProofs`, `AirLink` |
| `Bits`, `Bayang`, `PcRecord` | bytes: bits and CRC; sticks, packets and XN297 frames; records, COBS and their decoding | `AirLink` |
| `AirLink` | `TransmitterId` with the frames that carry the identity, commands, answers and records | implements `TransmitterId` |
| `Feedback` | LED and buzzer | `Console`, `ControlTaskProofs` |
| `Console` | the text console beside them | |
| `PcBridge` | export queue, line, loss counters at both ends | `PcBridgeProofs` |
| `GroundStation` | the viewer loop: port, framing, event log, shutdown | `MCGroundStation`, `GroundStationProofs` |
| `Blackbox` | one recording session, three threads, files | `MCBlackbox`, `BlackboxProofs` |
| `BlackboxStore` | a logs directory shared by processes | `BlackboxStoreProofs` |
| `MC*` | the inputs of the small instances: reports and replies, frames and damage, sessions, stories | the runs |

A definition whose name ends in a suffix such as `_NoReset` and whose comment
begins "Wrong variant" is a plausible bug; nothing uses it. `PROJECT.json`
pairs each with the property that must fail when it takes the place of the
definition next to it.

### ControlTask

The iteration is four steps, `control -> transmit -> receive -> publish`, cut
where the world can change: the FC hears or misses the packet, a reply arrives
or does not. Everything the code does between two cuts is one action: the
control step reads the snapshot, computes edges, runs `failsafe_update_at`,
decides pre-arming, resets the hop index, toggles and saves selections, plays
gestures and builds the packet, in the code's order. The three control actions
(`GamepadAbsent`, `GamepadSilent`, `GamepadReport`) are the three outcomes of
`gamepad_update`.

Stamps are kept as ages that saturate at `AgeCap`, greater than every timeout;
`Transmit*` and `Publish` make them grow. `Publish(d)` with d up to `MaxStall`
is a late iteration. A failed transmission may have reached the FC, since the
driver only knows the chip's flags. A valid reply presupposes that the FC heard
the packet of this iteration; that the code really cannot read an older answer
is what `RadioFrame` checks (`ReplyIsFromThisFrame`). Likewise the snapshot is
one report of one pad, which `GamepadBridge` justifies (`ReportsAreNotMixed`),
and `gamepadAge = 0` on a report is off by at most one poll (`StampIsHonest`).

`fcConfig` (what the FC received last), `heard`, and the history variables
`unsaved`, `lastHop` and `latched` are not in the code; no action of the task
reads them except through `p.valid => heard`, which is the FC's behaviour.

### ArmingProtocol

Three phases, `safe`, `asking` and `armed`, the pilot's buttons and throttle,
the selections and what the FC received last. Asking begins with a new press of
Start at idle throttle and ends with a new press of Start or B; arming needs,
besides, that the last packet the FC received had CH5 off and the selections in
use; a packet carries CH5 only when armed. Standing is allowed at any time:
liveness is a matter of the run `operation`. `ControlTask` maps ACTIVE to
`armed`, PREARM_MODE to `asking` and every other state to `safe`; the pilot is
what the last snapshot shows. It replaces single properties about new presses
and about disarming in the same cycle, which are now consequences.

### GamepadBridge

`controllers_[0]` is a record of index, data and the `data_updated` flag; the
build has one slot. Core 0 stores a report under the mutex and wipes the slot
on disconnection without it. The wipe is a data race with the reader on core 1,
modelled as pieces cleared one by one in any order while the reader copies
field by field. A report is its number, so a mixture of two shows.

### RadioFrame

A frame is a script of SPI commands and pin changes, taken from
`xn297_set_tx_mode`, `xn297_write_payload` and `xn297_set_rx_mode`. Between any
two of them the chip may send, capture an answer or noise, and the bus may
break, after which reads give all zeros or all ones, or only writes no longer
arrive (`deaf`). The chip is external, modelled from the commands. Assumed: the
chip sends within the code's timeout or not at all; an answer is at most one
frame late.

### TransmitterId

Startup call by call, each NVS call failing or not, power failing between any
two. Between `nvs_set_blob` and a successful `nvs_commit` the flash may hold
either value. The FC learns, saves and forgets addresses as the bind and save
gestures make it do.

### AirLink, with Bits, Bayang and PcRecord

The byte layouts as operators: `bayang_build_*`, checksum and hop channels,
`xn297_write_payload`/`read_payload` with scrambling, bit order and CRC,
the mapping of sticks to channels, the envelope, CRC and COBS of a record, the
overlay of saved flags, and the Python decoder. The mapping is in exact
arithmetic; for every stick position the single-precision result of the code,
truncated, is the same (checked by computing both). The nRF24 and the FC's
XN297 are external. `AirLink` adds to `TransmitterId` the exchange of one
period: bind frame, data frame, or an answer and its export. Where
`TransmitterId` lets the FC learn the ID, `AirLink` lets it learn what it reads
out of a possibly damaged frame, and is shown to implement `TransmitterId`
(`BindingIsImplemented`).

### Console

`EXTENDS Feedback`: the control task announces each change to both. Events go
through a queue that drops, samples through a mailbox that overwrites; the
printing task drains events and then waits for a sample. A line is the state it
names.

### Feedback

Time in periods of the 10 ms task. The control task walks the transitions that
`Failsafe` allows at any speed and overwrites the mailbox. In each state the
time wraps once all one-time cues are over and with the period of what repeats,
so that the model is finite without cutting a behaviour off.

### PcBridge

`enqueue` is its three queue calls: send, discard the oldest, send again, with
the export task free to take a record in between. A record is type, sequence
number, timestamp and the number of the FC's packet in it, of which the packet
holds the nibble. The air loses packets, the line loses records and keeps
order. The receiver is `TelemetryModel.accept`: restart detection, gap
counting, displayed data. The nibble is counted twice, by `parse_extended` in
the transmitter and by `FcTelemetry.update` in the ground station; both forget
it when a packet of the other protocol arrives (`Parsed`). The FC may be
switched off and on, or exchanged for one of the other protocol (`FcRestart`):
its nibble starts again and neither counter is told.

### GroundStation

One loop of `run_viewer`: `Open` and `Connected`, `Read(n)`, then one `Accept`
or `Malformed` per segment, then `Overflow` and `Check` (silence). What the code
writes in several statements is several steps where Ctrl+C between them leaves a
trace: handle and connection event, event and close, and for bad frames and
overflows the count, the event and the reset. A byte is a symbol that knows its
frame and position, so that a splice of two frames shows; a segment decodes when
it is one whole frame, which is what `RecordsArriveIntact` says of the real
bytes. A device plugged in again leaves a handle that raises or stays silent.
Ctrl+C (`Interrupt`) may come before any step, once. The log is what a reader of
`events.jsonl` and `session.json` would conclude: last arm state and transmitter
state, malformed frames reported, connection open or not. A story fixes what the
frames say and where the transmitter reboots.

### Blackbox and BlackboxStore

`Blackbox` is one session: the viewer offers items and closes, the writer takes
items, writes, rotates, saves `session.json` and prunes, the compressor
compresses, verifies, replaces, unlinks and records. Files are sets of items.
Whether a rotation, save, scan or timeout is due is left to choice, since it
depends on time and sizes. The chunks a scan may prune are a set of places in the
inventory, taken from the oldest on. `_close_chunk` may fail before the chunk is
in the inventory (`LoseStream`) or after it and before the compressor is told
(`CloseFails`). In a hostile scenario an I/O call may fail, a
wait of `close()` may end early, and the process may die at any step, after which
the next launch recovers, if it can write `session.json`.

`BlackboxStore` is the directory: each launch recovers and prunes under
`.quota.lock`, owns its session by `.active.lock`, records, and closes outside
the quota lock. Reading the list, trying a lock and acting on it are separate
steps, as in the code. A session on the list may be unreadable or its lock fail
(`RecoverSkip`, `PruneSkip`), the recovery's write and `rmtree` may fail, in both
cases without an effect on the rest of the list; an error in the recording ends
the writer and leaves only `close()` (`WriterFails`). `due` is the recovery's
debt: the sessions that were dead when it read the directory, less those on
which it met such an error.

## 3. Runs

Every passing run finishes in under three minutes on two cores.

| Run | Checks | What it shows |
| --- | --- | --- |
| `arming` | MotorCommandsAreFresh, PrearmReplyProvesReceipt, SelectionsSurvivePowerLoss, ArmingIsImplemented, HeldButtonTogglesOnce | arming and disarming, selections toggled, saved or not and restored, under lost packets, stale and fresh legacy and extended replies, silent pads, stalls and power cycles; every step is one of `ArmingProtocol` |
| `operation` | HopsInOrder, HeldShortcutPlaysOnce, TimedStatesEnd, SilenceDisarms | binding, hopping, gestures and failures with the code's own 4 channels and limit 3; binding, pre-arming and gestures end and a silent pad stops the motors |
| `gamepad_bridge` | ReportsAreNotMixed, TornOnlyWhileGone, StampIsHonest, GoneIsCleared | the two cores around the slot, when a pad needs longer than a poll to come back |
| `radio_frame` | ReplyIsFromThisFrame, SentMeansOnAir, DeadRadioIsDetected | late answers, noise, leftover flags and a bus broken in one or both directions |
| `air_link` | NeverBoundToZero, BindingSurvives, FramesArriveIntact, RecordsArriveIntact, BindingIsImplemented | identity across faults and power failures; what each end understands of damaged frames and records |
| `feedback` | CueIsComplete, StateIsShown, StateIsPrinted | cues, alarms and the console, whatever mailbox and queue swallowed |
| `pc_bridge` | EveryLossIsCounted, NewestRecordsWait, GapsAreLosses, OneBootOnDisplay | every lost packet and record is accounted for, from the air to the gap counters, up to what a restart of the FC adds |
| `ground_station` | LiveIsReplay, BooksAreClosed, EventLogIsCurrent, DeadHandleIsReplaced | every chunking of a damaged stream, reconnections, overflow, reboots, and one Ctrl+C before any step of the loop |
| `blackbox` | NoSilentLoss, ChunksStayReadable, CompletedIsComplete, NewestChunksKept, CloseCompletes | recording, rotation, compression and shutdown with faults, timeouts and crashes; without them, pruning of the running session while the compressor works, and a shutdown that ends |
| `blackbox_store` | LaunchRecovers, OwnedSessionsUntouched, OnlyFinishedRemoved | three launches in one directory, with failing reads, writes and removals |

`SentMeansOnAir` and `DeadRadioIsDetected` name one exception, `StuckFlag`: when
only writes to the chip are lost and TX_DS was set, the driver reports success
for ever. `GapsAreLosses` compares modulo the range of a counter: sixteen
packets lost in a row look like none. Where it speaks of the nibble it allows,
for each restart of the FC, an error below that range, and is exact without one.
`LaunchRecovers` excepts a session on which this launch met an I/O error:
`blackbox.py:394` goes on with the next one and leaves it active for the next
launch. `BooksAreClosed` names the places where Ctrl+C leaves the log wrong, and
by how much (`stopped`). `FramesArriveIntact` covers single bit
errors and pairs across byte bounds; two opposite flips of equal weight pass
the additive checksum of an answer.

Two runs show a disagreement between the code and what the repository says of
it; the quotations and lines are under "findings" in `PROJECT.json`.

| Run | Property | Disagreement |
| --- | --- | --- |
| `confirmed_mode` | FirstArmedPacketIsConfirmed | an AUX button that is held in the iteration of the confirmation, pressed then or earlier while pre-arming, changes the mode in the first armed packet |
| `close_race` | CompletedStaysCompleted | a session that closes cleanly while a launch looks at it is marked interrupted |

Other disagreements met while modelling, which a reader can reproduce by
stating the sentence on the left as an invariant or action property of the
module:

| Sentence in the repository | Module | What the code does |
| --- | --- | --- |
| `docs/controls.md:35`: Start only arms when throttle is zero | `ControlTask` | up to `ARM_THROTTLE_MAX` (10 of 1023) counts as zero and is sent as it is (`app_main.cpp:192`) |
| `docs/how-it-works.md:69`: Stale at 500 ms or older | `Telemetry` | exactly 500 ms is Fresh (`telemetry.cpp:253`) |
| `docs/controls.md:54`: shortcuts work only while LOCKED, pressed once | `SilverwareProfile` | cancelling forgets that a shortcut is down, so one held since before the disarm plays on entering LOCKED (`nfe_silverware_profile.cpp:88`) |
| `tools/ground_station/README.md:43`: `events.jsonl` records reboots | `PcBridge` (`hidden`) | a reboot is missed when the first record to arrive has a timestamp at or beyond the last one of the old boot (`ground_station.py:391`) |
| `tools/ground_station/README.md:42`: `session.json` has the chunk inventory | `Blackbox` | recovery calls chunks uncompressed from an inventory saved before they were compressed (`blackbox.py:385`) |
| `tests/test_blackbox.py:130`: one record is counted once | `Blackbox` | a crash between replace and unlink (`blackbox.py:860`) leaves both files of a chunk, and the inspector reads both |
| `docs/pc-telemetry-bridge.md:32`: the nibble reports telemetry responses lost between the FC and ESP32 | `PcBridge` (`GapsAreLosses` without `restarts`) | a restart of the FC adds up to 15 responses that were never sent, at both ends (`telemetry.cpp:178`, `ground_station.py:250`) |
| `tools/ground_station/README.md:78`: a session left active by a crash is marked interrupted on the next launch | `BlackboxStore` (`LaunchRecovers` without `due`) | if its `session.json` cannot be written then, it stays active (`blackbox.py:394`) |
| `docs/binding.md:70`: the TX starts with its stored ID | `TransmitterId` | one failed read at startup generates a new ID and overwrites the stored one (`app_main.cpp:358`) |

### Bounds

* `ControlTask`: an iteration takes two units or more, and stalls add up to 2
  in `arming`. The telemetry timeout of 3 lets an answer from before the Start
  press still be fresh at the next decision, the pre-arm timeout of 3 leaves
  room for two pre-arm packets, and every timeout can be undershot and exceeded
  by a stalled iteration. `AgeCap` is above all of them, so that saturation
  cannot be seen. Reports and replies are sets chosen per run
  (`MCControlTask`): each holds every button and page the run's properties
  distinguish. Channels and failure limit are the code's in `operation`; in
  `arming`, where nothing depends on them, they are one. That pre-arming is
  answered for every failure limit is proved.
* `GamepadBridge`: four reports over three connections: one being read, one
  being stored, one wiped, and one after a reconnection. Two fields are the
  least that can be mixed. `FastReconnect` is FALSE: a pad that is back before
  one poll has missed it (5 ms; Bluetooth needs longer) raises no callback, and
  TornOnlyWhileGone and GoneIsCleared would fail. ReportsAreNotMixed and
  StampIsHonest are proved without this assumption, TornOnlyWhileGone under it.
* `RadioFrame`: six frames with the code's limit of 3: a break after a success,
  three failures and the frame after; a bind between data frames; a wrap of the
  four channels.
* `AirLink`: two boots (generate and save, then load or lose and regenerate), for
  the identity alone the theorems hold for any number. `Zero` and `FirstByteOne`
  are the two IDs the code treats specially, the third has a fourth byte that
  reaches the highest channel. Sticks at both ends, at both edges of the dead
  zone, beside each other in the middle. On the air every single bit and every
  pair across a byte bound is inverted; on the line every byte is lost once and
  every bit of the first record, its delimiter and the next code, and every
  seventh bit of the second record is inverted.
* `PcBridge`: a queue of 2, ranges of 2 for sequence and nibble and uptime 3 make
  the queue overflow and both numbers wrap; two boots give one restart of the
  transmitter. Four packets of the FC are a loss, a wrap and up to three
  restarts or changes of protocol in between; that the bound on what they add
  holds for every number of them is proved.
* `Feedback`: real cue times in steps of 10 ms. An event queue of 2 fills, drops
  and drains like the code's 8. `MCSpec` leaves out the runs in which feedback
  task and console both exist: they share nothing but the announcements, each
  run has one of them or none, and every property is about one.
* `GroundStation`: frames of two symbols, three frames, one damaged symbol, a
  device plugged in twice, a buffer limit of one frame: enough for a splice over
  a reconnection, an overflow, a forged delimiter and a reboot. One Ctrl+C.
* `Blackbox`: three items of every kind, one rotation and one prune with all
  faults; four items of two kinds and three rotations for the quota, which
  keeps two chunks of each kind, so that the third closed chunk makes one
  prunable.
* `BlackboxStore`: three launches: one that crashed, one that closes, one that
  recovers and prunes.

`CHECK_DEADLOCK FALSE` appears only where the modelled run really ends: a
closed session, exited launches, the uptime bound, a radio in RADIO_ERROR, the
viewer after Ctrl+C.

### Fairness

* `ControlTask`: weak fairness of the task as a whole. It is the
  highest-priority task on its core, every wait in its loop has a time limit,
  and `vTaskDelayUntil` returns. Nothing is assumed of gamepad, FC or flash.
* `GamepadBridge`: weak fairness of the poll, which runs in that loop, and of a
  Bluetooth callback once begun. The mutex is held for a copy only.
* `Feedback`, `Console`: weak fairness of the 10 ms task, of the status sample,
  which the control task takes five times a second, and of the console task. It has
  the lowest priority of the three, and the others sleep for most of each
  period. `StateIsPrinted` has the alternative that changes never stop: the loop
  that drains events could then starve the samples.
* `GroundStation`: weak fairness of the loop: `read` has a time limit, and a
  device that is plugged in can be opened. Nothing is assumed of transmitter,
  cable and keyboard.
* `Blackbox`: weak fairness of each thread's next step, as the interpreter
  schedules every runnable thread, and strong fairness of taking an item: the
  writer's `get` waits with a time limit and retries, so that it is not passed
  over for ever while items keep coming back. `CloseCompletes` is checked
  without I/O errors; with them the time limits of `close()` take over.

## 4. Proofs

| Module | Theorem | Result |
| --- | --- | --- |
| `ControlTaskProofs` | TypeCorrect | type invariant |
| | CommandsAreFresh | MotorCommandsAreFresh |
| | ReplyProvesReceipt | PrearmReplyProvesReceipt |
| | ArmingRefinement | ArmingIsImplemented: `Spec` implements `ArmingProtocol` |
| | ArmingIsAnswered | ArmsOnlyWhatFcReceived |
| | FailureLimit, StateIsAnnounced, HoppingInOrder | FailureLimitStopsRadio, AnnouncedState, HopsInOrder |
| | SelectionsSurvive | SelectionsSurvivePowerLoss |
| | HeldButtonIsOneToggle, HeldShortcutIsOneGesture | HeldButtonTogglesOnce, HeldShortcutPlaysOnce |
| | AnnouncementsAreSuccessors | what the control task announces is a step that `Feedback` and `Console` allow |
| | FeedbackTypeCorrect, PilotHearsCue | type invariant and CueIsComplete of `Feedback` |
| `GamepadBridgeProofs` | NotMixed, HonestStamp | ReportsAreNotMixed, StampIsHonest |
| | TornWhileGone | TornOnlyWhileGone, assuming `~FastReconnect` |
| `RadioFrameProofs` | TypeCorrect | type invariant |
| | SentWasOnAir, DeadRadioDetected | SentMeansOnAir, DeadRadioIsDetected |
| | ReplyFromThisFrame | ReplyIsFromThisFrame |
| `PcBridgeProofs` | TypeCorrect | type invariant |
| | LossesAreCounted, OldestIsDiscarded | EveryLossIsCounted, NewestRecordsWait |
| | GapsCountLosses, OneBootDisplayed | GapsAreLosses, OneBootOnDisplay |
| `GroundStationProofs` | ClosedBooks, CurrentEventLog | BooksAreClosed, EventLogIsCurrent |
| | LiveEqualsReplay | LiveIsReplay |
| `BlackboxProofs` | TypeCorrect | type invariant |
| | ChunksReadable, NewestKept | ChunksStayReadable, NewestChunksKept |
| | NothingIsLostSilently, CompletedHoldsAll | NoSilentLoss, CompletedIsComplete |
| `BlackboxStoreProofs` | OwnersAreSafe, ActiveIsNotRemoved | OwnedSessionsUntouched, OnlyFinishedRemoved |
| | RecoveryIsComplete | LaunchRecovers |
| `TransmitterIdProofs` | ZeroIsNotBound, BindingIsKept | NeverBoundToZero, BindingSurvives |

The only assumptions are the named `ASSUME`s on the constants, which TLC
evaluates in every run of the module, and the hypothesis of `TornWhileGone`. The
type invariants are proved and not part of a run. So are ArmsOnlyWhatFcReceived,
FailureLimitStopsRadio and AnnouncedState of `ControlTask`: the first is implied
by the refinement, and the limit is checked against the chip in `radio_frame`.

* **ControlTask.** `IInv` adds to the type invariant what was sent and who heard
  it: while pre-arming, the packet of the iteration carries the selections with
  CH5 off (`PacketWhilePrearming`); in the receive window, `heard` means the FC's
  last packet is this one (`HeardIsReceived`). Only then is a reply younger than
  the pre-arm stamp a proof of receipt; time preserves "younger" because both
  ages saturate at a cap that pre-arming cannot reach. The failure counter stays
  in its type only because RADIO_ERROR does not transmit, so that part and
  `FailureLimitStopsRadio` are proved together. `HopPosition` ties the hop index
  to the last packet in each step of the iteration. The refinement maps each
  step of the iteration to one step of `ArmingProtocol`; arming needs `IInv`,
  because the guard sees telemetry and the protocol speaks of what the FC
  received. `ProfileInv` is about the past that the profile keeps: a button that
  toggled and was not seen up is among those the AUX state remembers, also while
  it is not updated (`LatchedIsRemembered`), and while LOCKED the player remembers
  the shortcut of the last snapshot (`RequestIsRemembered`). Cancelling forgets it,
  which is why `HeldShortcutPlaysOnce` speaks of staying LOCKED.
* **Feedback** (at the end of `ControlTaskProofs`, which extends both modules:
  they share the state machine). One iteration of the control task can update the state,
  confirm or cancel pre-arming and give up the radio; it announces only the net
  change. Outside PREARM_MODE a cycle never gets past the update, since the age
  of a pre-arming just begun is 0, so without a power cycle each announcement is
  one of `Successors`. How many tones have begun is a function of the transition
  and of the time in it (`TonesBegun`); that, and the buzzer's windows, is what
  `CueFollowed` adds. The time that jumps back loses nothing, because the windows
  of all tones but the alarms end before the first jump.
* **GamepadBridge.** The slot holds fields of the last report or neutral values
  (`SlotIsLastReport`), because the mutex keeps a second report out while one is
  copied (`MutexHeld`, `CopyIsLastReport`) and the unlocked wipe only writes
  neutral values. The stamp is honest because a set flag has been seen by at
  most one poll (`FlagIsYoung`). For torn reports `WholeInv` follows a report
  from the slot over the copy to the state: each is whole unless its pad is
  leaving. It needs that a pad that comes back has been missed by a poll
  (`MissedIsCurrent`, `OnePad`), hence the hypothesis.
* **RadioFrame.** A script in progress is an end of the one the code wrote
  (`ScriptIsEnd`), so how many commands are left says what has been done. TX_DS is
  cleared before the payload is written, so while the bus works a set flag is
  of this packet (`FlagIsFresh`); a frame that ends after the bus broke is a
  failure that was counted (`FailuresAreCounted`). An answer one frame late is on
  the channel of its packet while the chip has hopped to another
  (`AnswerIsBehind`), and the FIFO is flushed while the chip is off
  (`CapturesAreFresh`). Both are needed: the flush does not help against an answer
  that comes after it. `HoppingAssumption`, more than one channel, is what
  `config.h` gives; with one channel the theorem is false.
* **PcBridge.** After the discard there is room, and the control task is the
  only producer, so the room is still there at the second send (`EnqueueStep`).
  With it, counting and numbering of records are preserved by every call. A
  sequence number is a serial number modulo its range (`NumberedFromSerial`), and
  what waits is newer than what was accepted (`LineIsSound`, `LineIsOrdered`):
  then the difference of serial numbers is positive and the gap is its remainder
  (`GapsAreLosses`). For the FC's packets the numbers start with the FC: between two
  packets of one run of it the difference is what was missed, and over a restart
  the gap is one below the range at most (`BookFollows`, `BookCounts`). What is
  displayed is of the boot of the last accepted record of its type (`Accepted`),
  and a noticed restart clears all types at once.
* **GroundStation.** The log lacks just the malformed frames counted since the last
  event and the one that is being counted (`UnreportedIsMissing`), and a connection
  is open in the log exactly while the loop has a port, but for the moment between
  handle and event (`OpenIsPort`). Ctrl+C freezes both where it falls, so they speak
  of `Place`: where the loop is, or was when it came. The tracker
  agrees with the displayed model (`TrackerFollowsModel`) and the log with the
  tracker (`LogFollowsTracker`). Neither depends on how the stream is cut or on
  what a segment decodes to.
  `LiveIsReplay` does depend on both: the program cuts what is left of the last
  read and the new bytes, the replay the whole capture. `BufferIsTail` says that
  the buffer is the end of the capture behind its last delimiter or, after it was
  cleared, the end of a segment that is longer than any frame. `AcceptedInOrder`
  says that without an overflow the frames up to some place were accepted, in
  order and once, and the segments behind it are waiting; `AllHeard` that every
  frame was accepted or is waiting, with overflows too. The lemmas before them
  are about the operators: a finite set of numbers has exactly one ascending list
  (`OrderIsUnique`), which grows at its end when a larger number is added
  (`OrderAppend`), and cutting a joined stream is cutting its parts, the segment
  at the seam being made of both (`ReadCuts`). Where they need an induction over
  a stream they take a least or greatest number of a set, which the prover can do.
* **Blackbox.** `ShapeInv` gives inventory, files, streams and queues their
  shapes, which every other part needs. Readable: `os.replace` comes before
  unlink (`ReplacedBeforeUnlink`). Newest: a chunk that is pruned or a candidate
  has two newer ones that are neither (`NewestInv`); a candidate has to be
  included, because the scan and the unlinks are separate steps. Loss: ids are
  used once, so counting what is queued, at hand, buffered or stored is enough
  (`LossInv`). Completed: the stop item is the viewer's last (`StopIsLast`), so a
  writer that leaves its loop has written everything; every chunk is in the
  inventory or open (`InventoryIsComplete`), chunks being compressed are those with
  a task (`TasksInv`), the end of the compressor comes after its last task
  (`EndIsLast`), without errors the files are what the inventory says
  (`FilesMatchInventory`), and only a session without errors is called completed
  (`StateInv`).
* **BlackboxStore.** A session is unknown to others until it is locked
  (`FreshIsUnseen`, `LaunchMakesSession`), a target that will be written or
  removed has no owner and no process acquires the lock of a session not its own
  (`TargetHasNoOwner`), and a session read as finished stays finished
  (`FinishedStays`), so a stale list is harmless for pruning. The same staleness
  is what breaks `CompletedStaysCompleted`. Recovery is complete because a
  session that was dead when the directory was read stays dead and without an
  owner (`DueIsDead`), so its lock cannot be held when its turn comes; as long as
  it is active and no I/O error has excused it, it is still on the list or the
  target (`RecoveryIsPending`).
* **TransmitterId.** While the flash can be read, a stored ID that the FC saved
  keeps startup away from the generator (`StoredStays`).

Only model-checked:

* the liveness properties, which need fairness and are beyond the prover:
  `TimedStatesEnd`, `SilenceDisarms`, `GoneIsCleared`, `StateIsShown`,
  `StateIsPrinted`, `DeadHandleIsReplaced`, `CloseCompletes`;
* `FramesArriveIntact`, `RecordsArriveIntact` and `BindingIsImplemented` of
  `AirLink`, whose operators rest on `Bitwise` and on recursion over bytes.

## 5. Not modelled

* The measurements in telemetry pages and the fields of the local-state payload:
  they are carried and displayed, no decision depends on them.
* The initial register set-up of the nRF24 and its read-back: sequential, before
  any task runs; its failure is an initial state of `ControlTask`.
* The decoders `pc_telemetry_decode_*` in C++: only tests call them.
* Expo, reversal and the trigger as throttle: off in `config.h`.
* Dashboard, samples, health events, record and CSV formats, the inspector's
  report: they read state and do not feed back. The inspector also tries a
  session's lock; as a further process of `BlackboxStore` it makes three launches
  too many states for a run.
* The orphan directory of a crash before the first `session.json`: sizes are not
  numbers in `BlackboxStore`.
* A second Ctrl+C, which can cut the `finally` block of the viewer short, and one
  before its `try`. One inside `Read` or `Accept` is taken to come before or after
  it: those change the capture, the displayed data and the tracker, of which
  nothing is claimed once the loop has ended. A record that `accept` rejects after
  its envelope (`ground_station.py:410`): the transmitter makes none.
* Bluepad32 and BTstack (vendored, and by far most of the repository's lines),
  ESP-IDF, FreeRTOS: only as used.
* Real durations: only the order of stamps and timeouts counts.

Met on the way, none of it a disagreement with a document:

* full right stick (raw 511) gives channel 1022, full left (raw -512) gives 0;
* Ctrl+C inside the loop of the viewer can falsify the log by one statement: a
  disconnect recorded twice (between `ground_station.py:1866` and 1868, or 1880
  and 1882), one recorded without a connection (between 1797 and 1800), malformed
  frames reported twice (between 1844 and 1850), or one frame or overflow counted
  and not reported (between 1839 and 1840, or 1855 and 1856). `BooksAreClosed`
  says that there is nothing else;
* the first transmitter state is not in the event log when the initial state was
  taken from an FC record (`ground_station.py:577`);
* a status line of the console can be older than an event printed before it,
  since the sample waits in the mailbox while events are drained;
* `factory_reset_transmitter_id` has no caller.

## 6. Plan

The system's own code is modelled as far as section 5 says, and every safety
property is proved but those of `AirLink`. To prove these, checksum, COBS and CRC
would have to be described without bit operations and recursion, and such a
description would be further from the code than the present one.
