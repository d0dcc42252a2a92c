# A verification model of frgb

frgb drives fans, AIO pumps, fan LEDs and fan LCDs of a PC from a daemon, with
a command line client and a graphical one. This directory holds TLA+ modules
that model it, TLC configurations that check them on small instances, and
TLAPS proofs for the parts where a mistake costs most. `PROJECT.json` lists
the components, the runs, a mutant of the code for every property, the lines
each definition translates, the hazards and the theorems.

To check one run: `tlc -workers 2 -config HwmonCrash.cfg MCHwmonTakeover.tla`.
To check the proofs of one module: `tlapm FanProofs.tla`.

## 1. Inventory

Paths are below `src/crates/`. The daemon is one thread: a main loop
(`frgb-daemon/src/main.rs`) accepts connections, reads at most one request of
each, runs `Engine::tick`, and dispatches the events of both. A few threads
stand beside it: the OpenRGB server with a thread per client, and a signal
handler that sets a flag. The clients are processes of their own. So what is
hard here is less a data race than the *order of ticks, requests and device
outcomes*, what a failure half-way leaves behind, and what a crash leaves
behind in hardware and files.

| component | state it keeps | operations | talks to | hard behaviour | what makes it correct |
|---|---|---|---|---|---|
| hwmon backend (`frgb-core/src/hwmon_backend`) | `pending_restores`, `hwmon-saved.json`, cached chip path, recovery cooldown | open, set_speed, recovery, shutdown, panic hook | sysfs, the state file; called by `System` | a crash between any two writes, retry of half a call, a renumbered chip | no header is left in manual mode for good |
| show runner (`show_runner.rs`) | library, a playback per group | start, stop, save, delete, reload, tick | handler, engine tick, config | requests between ticks, late ticks, shows edited while they play | the right step at the right time |
| schedules (`scheduler.rs`) | entries, last look, last minute looked at | add, delete, clear, evaluate | engine tick, config | a minute between two looks, or looked at twice | each entry once, in its minute |
| IPC (`frgb-ipc`, `ipc.rs`, `main.rs`, `bridge.rs`, CLI) | connections, subscriptions, pending events | accept, read, respond, dispatch; connect, call, listen, reconnect | everything | slow and dying peers, half frames, restart, events among replies | a subscriber sees every change in order; a reply answers its request |
| speed control (`handler.rs`, `curves.rs`, `alerts.rs`, `engine.rs`, `system.rs`) | curves, last speeds, cached readings, active alerts, recorded speeds | speed requests, poll, pump keepalive | RF backend, sensors, config | four sources command one fan, a send fails, discovery re-reads what was sent | manual means manual, curves follow, a pump never starves |
| lighting (`handler.rs`, `engine.rs`, `temp_rgb.rs`) and profiles (`app_profiles.rs`, `power.rs`) | mode of each group, running indications, last colours, profiles, last matches | SetRgb, SetBrightness, Indicate, profile requests and switches | RF backend, config | an indication that ends after another mode was set, a send cut in the middle | the registry says what is shown; an indication is undone |
| effects, composition, compression (`frgb-rgb`, `services/rgb.rs`) | encoder state, otherwise none | generate frames, compose zones, compress | RF backend | index arithmetic per ring size, two ways to find a zone, encoder and decoder state | each LED shows what its zone is asked for; decompress of compress is the identity |
| RF link (`rf_backend.rs`, `sequencer.rs`, `transport.rs`, `session.rs`), registry (`registry.rs`, `System::discover`) | channel, master MAC, caches; records by group | scan, discover, bind, unbind, send | USB devices | time-outs that look like silence, replugged dongles, repeated sends | an Ok means it was done; a pass finds what answers |
| USB handles (`frgb-usb`) | handle, cooldown, counters | with_recovery, reopen | libusb, hidraw | retry after reopen | at most one reopen per cooldown |
| sensors (`frgb-core/src/hwmon.rs`, `curves.rs`, `lcd_manager.rs`) | inputs found at the start | read, calibrate, classify | curves, alerts, panels | two users pick differently among inputs | the same temperature everywhere |
| LCD manager, backend and rendering (`lcd_manager.rs`, `lcd_backend.rs`, `frgb-lcd-render`) | per panel: config, frames, timing, hash of the last frame | set_config, load_preset, tick, send | USB, sensors | frames suppressed as repeated, panels that come and go, late answers | a panel shows the configured content |
| configuration (`config_cache.rs`, `frgb-core/src/config.rs`) | file, copy in memory, copies of the runners | load, save, reload, import, export | every request | a crash within a save, other writers, runners that keep old copies | what was answered survives |
| wired backends (`aura_backend.rs`, `wired_ene_backend.rs`) | handle, cooldown, channel states | frames, effects, speeds | HID | an error between two reports of a frame | a frame is shown whole or not at all |
| OpenRGB server and client (`openrgb_server.rs`, `openrgb_backend.rs`) | snapshot, threads, command channel | accept, answer, paint | foreign programs | a pause within a packet, a snapshot that ages, two layouts of a frame | a group shows only whole frames meant for it |
| graphical interface (`frgb-gui`) | what is on the pages | show, edit, apply | IPC | stale lists, failed reads, events that arrive late | pages show what the daemon has; the fans show what the page showed |
| protocol (`frgb-protocol`), data model (`frgb-model`), printing (`frgb-cli`) | none | encode, validate, print | all | numeric edges | tables and layouts |

The hazards that follow from this are in `PROJECT.json` at the line where they
bite, with the properties that would catch them, or the reason why none does.

## 2. How the modules fit together

| module | models | extends or instantiates | abstract specification |
|---|---|---|---|
| `HwmonTakeover` | custody of the motherboard's headers | | `FanLedger`, a write-ahead ledger, refined |
| `ShowRunner` | effect cycles and sequences | | a show's plan (`ScheduledAt`, `PlannedScenes`) |
| `Scheduler` | the entries of the week | | |
| `IpcEvents` | main loop, framing, three kinds of client | | per connection, a window of the event log |
| `SpeedControl` | requests, poll, curves, alerts, keepalive | | what was asked of a fan (`asked`) |
| `Lighting` | modes, indications, temperature colours, profiles | | what the LEDs show (`lit`) |
| `Effects` | what each effect paints | | |
| `RgbCompose` | which zone shows which source | `Effects` | |
| `TuzCodec` | encoder and decoder of the LED buffer | | |
| `RgbUpload` | a mode from request to played frames | `RgbCompose`, `TuzCodec` | the mode alone (`Asked`), the identity |
| `LightPages` | the LED editor and the ring page of the GUI | `RgbUpload` | what the page showed (`wanted`) |
| `RfLink` | requests and discovery over the air | | what the receivers do |
| `Sensors` | inputs, calibration, classification | | |
| `LcdRender` | what a picture says | `Sensors` | |
| `LcdPanel` | manager, backend and panels | `LcdRender` | the picture of the content (`Fits`) |
| `Settings` | file, cache, runners' copies, roles | | the answers so far (`answered`) |
| `GuiPages` | settings pages and the request thread | `Settings` | |
| `BoardLights` | AURA controller and ENE hub | | |
| `OpenRgbServer` | server threads, clients, main loop | | what the clients sent (`sent`) |

Each `MC...` module gives a specification the constants of its run;
`MCEngineTimers` puts the two runners that go by the clock on one machine that
uses the one or the other. Each `...Proofs` module holds the theorems of its
component; `FanProofs` and `LightingProofs` take two components each and `EngineProofs`
three, whose definitions have names of their own. No module that is proved about reaches a RECURSIVE operator.

## 3. The modules

### 3.1 HwmonTakeover, FanLedger

A motherboard header is in a mode `pwmN_enable` of the firmware's choice
(`native`). Setting a fan's speed puts it in manual mode (1); if frgb then
vanishes, the fan stays at the last duty for ever. The code therefore records
the firmware's mode in memory and on disk first.

| model | code (`frgb-core/src/hwmon_backend`) |
|---|---|
| `enable`, `native` | sysfs; `native` never changes: nobody else writes it |
| `file` | `hwmon-saved.json`; no entries: no file |
| `pending` | `pending_restores` |
| `stale`, `cooling`, `retried` | the cached `chip_path`, `recovery_cooldown`, the attempt of `with_recovery` |
| `pc`, `cur`, `job`, `hook`, `hookJob` | where a process is in `open`, `set_speed`, `shutdown`, the panic hook, and what its loop has still to write |
| `Open*`, `RestoreEntry`, `OpenDone` | `open`, `init_with_chip` |
| `SetManual`, `Snapshot`, `Save`, `EnableManual`, `SetDuty` | `set_speed(Manual)`, `ensure_snapshot_at`, `save_state_file` |
| `SetPwm`, `Release`, `Unrecord` | `set_speed(Pwm)`, `release` |
| `OpFails`, `CooldownElapses` | `with_recovery` |
| `Exit*` | `shutdown`, `Drop` |
| `Panic`, `ThreadPanic`, `Hook*` | the panic hook's `emergency_restore`, then unwinding |

One step is one sysfs or file operation, so a kill or panic falls between any
two. `Faults` is a constant: which faults the environment has. With the faults
that the code is meant to survive (`io`, `releaseSave`, `kill`, `panic`,
`noChip`) everything holds; the others (`Lossy`) break custody by design of the
code (a failed save is only logged), and under them only `KeptUntilGivenBack` is claimed.

Left out: two panics at once in one process; a failing `remove_file`; channels
of the other chip when another chip was picked; other programs that write
`pwm_enable`. The length of the cooldown is abstracted to "it elapses".
A write through a stale path always fails.

`FanLedger` is what custody promises in three actions: an entry is on the
ledger before a header is borrowed, and is struck out only for a header at
home. `ImplementsLedger` maps `mode` to `enable` and `ledger` to `file`.

### 3.2 ShowRunner

`active` is the map of playbacks, `library` the sequences by name, `present`
the groups of the last discovery. Requests (`SetEffectCycle`, `StartSequence`,
`StopSequence`, `StopAllSequences`, `SaveSequence`, `DeleteSequence`,
`ReloadConfig`) are the handlers; `Tick(e)` is `ShowRunner::tick` with the
elapsed time `e`, followed by `apply_scene` (`shown`). `Advance`, `NextIdx`,
`NextDir`, `NextLeft`, `Ends` are `advance` and the end-of-round logic.

The plan of a show (`ScheduledAt`, `Total`, `PlannedScenes`) is stated without the
runner, from the durations and the mode alone. Two history variables are compared with
it: `clock` counts the time since the first step, up to the whole time of a finite show,
and `scenes` the scenes a finite show has shown. `OnSchedule` relates plan and clock.
`PlayedInFull` judges every playback a tick ends; one that fell behind ends after its
time, when the clock stands still, and must have shown all its scenes like any other.

Left out: roles change only between runs; a step's `target`, `transition` and
a scene's `lcd` (the code ignores them); steps of zero duration are allowed by
the proofs but not in the instance; the sending of a scene (a failure is only logged).

That the unchecked `steps[step_index]` never leaves the show (`IndexInRange`)
and that no step is skipped are proved for all instances (section 6), so no run
states them.

### 3.3 IpcEvents

The daemon's loop is `ReadNothing`, `ReadHalf`, `ReadRequest` (one visit of
`retain_mut`), `Tick`, `Dispatch`, `Dispatched`; `Crash` and `Restart` are the
process's. `sweep` is what the current `retain_mut` has still to visit, so
clients run between any two visits. A frame is a header and a body written one
after the other; the daemon gives up on a body after 50 ms. Clients: `Streams` (GUI event threads:
connect, hello, subscribe, status, listen, reconnect), `Panels` (the GUI's
request thread, which keeps its connection), `Commands` (one-shot CLI calls).

What requests change is one value, `mode`, named by the number of its last
change, so "which event, in which order, how often" is all there is to know.

Left out: a header of 4 bytes is written at once; the answer to a bad frame and
the drop are one step; `hello` is always accepted; lengths of back-off; the
CLI's direct mode. Names of connections are used again once closed at both ends.

### 3.4 SpeedControl

One variable per piece of state of `CurveRunner`, `AlertRunner`, the registry
(`present`, `known`, `mbSync`) and the device (`told`, `decayed`). A request is
one action that removes or installs curves, sends, and records, in the
handler's order (its names say `Speed` where the headers have the same); `Poll` is the periodic part of `Engine::tick`: discovery, keepalive, sensors,
curves, alerts, schedules, in that order, with what each reads from the one before.

A failed send is a choice (`broken`), and breaks all sends of that action to
that group, except for the two halves of `set_mb_sync` and `set_speed`, which
can fail one by one (`half`). A failed discovery keeps `present`; a successful
one may find any subset. `asked` is a history of what was asked of a fan.

`ApplyScene` is the speed a profile or the scene of a show sets. A `Machine` is
what is installed; the run has one with a fan group and one with a pump.

Left out: several sensors, alerts at the same threshold; fractions are exact where the code has doubles.

### 3.5 Lighting

| model | code |
|---|---|
| `mode`, `present` | `DeviceState::rgb_mode` of the groups in the registry |
| `lit` | what the LEDs show |
| `restores` | `Engine::indicate_restores`, without the deadlines |
| `profiles` | the profiles of the config |
| `hue`, `lastHue` | `TempRgbRunner`: readings, as the colours they give, and `last_color` |
| `apps`, `matched`, `power`, `lastAc` | `AppProfileRunner`, `PowerRunner` |
| `Send`, `Command` | `System::set_rgb`: `compose`, the two rounds of `send_rgb`, `update_state` |
| `SetRgb`, `SetBrightness`, `Indicate`, `SwitchProfile`, `SaveProfile`, `DeleteProfile`, `CopyProfile`, `SetAppProfiles`, `SetPowerConfig`, `Discover` | the requests |
| `Restore` | the end of an indication in `Engine::tick` |
| `Refresh`, `Alerts`, `AppProfile`, `PowerProfile`, `Schedule` | the poll in `Engine::tick`, in the order of `phase` |

A mode is a colour, which stands for effects and led maps too, and a
brightness. A send may fail before the device has taken the mode, or between
the two rounds, when the device shows it and the registry does not know
(`torn`). `RgbMode::TempRgb` (`Gradient`) cannot be composed, so it never gets
sent. One alert and one schedule entry per poll stand for several: a second one
would be another `Command` of the same kind. `sensors_dirty` is left out: it is
set and cleared within one poll, and without it the colours are the same ones
as last time. Where the focus, the power source and the readings come from is
a choice.

Left out: speeds in profiles and scenes, what a `Reset` does to the LEDs (it
leaves the registry as it is), groups without LEDs (`set_rgb` answers Ok).

### 3.6 Scheduler

`Pass` is time, in seconds; `Poll` the schedule part of `Engine::tick`, at least
`PollEvery` after the last and no later than `PollLatest`; `Evaluate` is
`ScheduleRunner::evaluate` with `execute_schedule_command`, at least `Spacing` (55 s)
after the last look, passing over the minute of the day it looked at last.
`AddEntry`, `RemoveEntry`, `ClearEntries` are the requests. Commands are data
here; what they do to fans and lights is in `SpeedControl` and `Lighting`. The
clock is never set: jumps and summer time may repeat or skip an entry. A
target by role stands for all groups.

### 3.7 Effects, RgbCompose, TuzCodec, RgbUpload

`Effects` says for each of the 57 effects which LEDs of a ring it paints in a
frame, with which hue and shade, in both directions; indices are computed as
the code does, so one that leaves the ring is seen to leave it (in the code
`set_led` would panic). Brightness scales all marks alike and is left out;
rings have four LEDs or more (`virtual_leds` in `devices.toml` are 24 to 96; a channel
of a board may be configured with fewer).

`RgbCompose` is `services/rgb.rs`: the specification of each fan, which ring
and which sub-zone an LED belongs to, the loops of shorter sources, LED maps
(also those of `frgb led` and of OpenRGB clients), and what is refused.

`TuzCodec` is the greedy match finder with its hash chains and the encoder
with the state it carries from token to token; the decompressor is that of the
fans, modelled from the format. Window, chain length and the limits from which
lengths and positions are coded differently are constants, and small in the
run, so that buffers of a dozen LEDs reach all of them.

`RgbUpload` takes a job from the request over `Compose`, `DrawFrame`,
`PassLiteral`, `WriteMatch`, `FinishStream` to `ReadToken` in the fans. Only
buffers of `MaxSymbols` are followed through the codec.

### 3.8 LightPages

The LED editor (`pages/led.rs`) and the ring page (`pages/rgb.rs`) over
`RgbUpload`: `Sync` is what a page takes from a mode the daemon tells,
`LedColorChanged`, `ApplyPerLed`, `ApplyLed`, the presets, `Adjust`,
`RingChanged`, `ApplyAll`, `OffAll`, `SelectGroup` are what a user does. `means`
and `wanted` are histories: which light the lists of the editor stand for, and
what the page that sent the last mode showed.

A page is open for the jobs in `PageJobs`; users act when the daemon has drawn
the last mode. Events that a later one has superseded are left out. Where the
editor reads a mode otherwise than it was composed (`means` is None then; the
cases are in section 8) nothing is claimed until it is applied. Drawing, hit
tests and the validation of preset names are left out.

### 3.9 RfLink

The fans, the loss of frames and what happens to the two dongles are the
environment: a receiver knows its master, group, channel, speed and effect, and
takes a frame that is addressed to it on its channel. A request is a list of
operations, an operation a script of frames that `with_tx_recovery` runs as a
whole; `Recover` reopens the handle at most once per cooldown and starts the
script over. A discovery pass scans for the channel, syncs, queries the pages of
devices, refreshes the registry and lets the other backends report. Repeats
that only make up for lost frames are constants. `job.lost` counts the frames
lost for the request, `job.smooth` whether the pass met trouble: both are
histories for the properties. Slots, names, RPM values and the places of bytes
are left out; reset, merge and LCD indices are frames without an effect on the rest.

### 3.10 Sensors, LcdRender, LcdPanel

`Sensors` is the scan of `/sys/class/hwmon`, `read`, the calibration, and how
the curves and the panels take an input for a sensor by the words of its label.
`LcdRender` says what can be read off a picture (values, units, bars, colours
of ranges), with rounding and the tenth of a degree at which a template is
drawn again. `LcdPanel` is the manager: `Ask` is `SetLcd` with `set_config`,
`PollPanels` reads the sensors and computes the actions of all panels, `Carry` sends one of them, with the
answers the panel owes read in order (a late one is taken for the next). Time is counted
in polls of two seconds; the bounds of the run scale down what takes many. Its definitions have names of
their own (`LcdInit`, `LcdNext`) because `EngineProofs` takes it beside the other runners.

Left out: the upload of H.264 (no caller in the daemon), reboot, fonts and
places, JPEG, encryption, the mapping of groups to panels.

### 3.11 Settings, GuiPages

`Settings` has the file, the temporary file a save writes first, the copy of
the daemon, the copies of the runners, roles and names in the registry, and the
wear counters. A request is `Change` and then a save in two steps, `Write` and
`Rename`, between which the process may crash; `SaveFails` is a full disk.
`Boot`, `Stop`, `Reload`, `Export`, `Poll` with a discovery that finds any
groups, and other writers: `Edit` and `Garble` for an editor, `CliLoad` and
`CliSave` for `frgb mobo name`. `answered` is what the answers so far add up to.

`GuiPages` adds the pages: `Click` puts calls in the queue of the request
thread, `Accept`, `Returns`, `Follow` are the call, its answer and what the
callbacks then ask; `Unreachable`, `TimesOut`, `Denied` are its errors.

Left out: the migration of version 0, the contents of profiles, a queue that is
full (section 8).

### 3.12 BoardLights

A request is a list of items, an item a list of reports for one channel or fan; `Write`
is one report the device takes. `Recover` is the reopening and the second
attempt, which sends the whole list again. The controller has a frame buffer per port and
latches a frame on the last report; that it holds one pending effect, and that a
write that fails was not taken, is what the model assumes of the firmware. The
process's end turns managed channels off. The RPM query and merge order are left out.

### 3.13 OpenRgbServer

The accept thread, a thread per connection that frames and answers packets, the
snapshot the server was started with, the channel of commands and the main loop
that drains it, and the stop. Clients discover as frgb's own OpenRGB backend does.
Packets travel in pieces and a client may pause for longer than the read
timeout between two. A discovery
changes the groups (`Rediscover`) but not the snapshot (`SnapshotAfter`).

A frame is laid out by its client (`Payload`) and parsed by the server (`ParseColors`),
in words of 16 bits, and the two ends need not agree. `Layout` says for each client
whether it counts LEDs in one word, as `parse_colors` and its test have it, or in
two, as `build_led_update` does; of the second kind the server reads every colour two
bytes early, and the LEDs show the blue of the one before as red (section 8). A word
carries client, packet, LED and place in the colour, so a frame that is mixed up or
shifted is seen: `InPlace` says which colours an LED may get.

Left out: version negotiation, the layout of controller data,
what zone updates carry, sizes above 16 MiB, reconnecting (there is none).

## 4. The runs

| run | instance | what it shows |
|---|---|---|
| `HwmonCrash` | 2 processes, 2 headers, 3 modes; `io`, `releaseSave`, `kill`, `panic` | clean exits, restarts that restore, the ledger is implemented, and after a crash each header does come back |
| `HwmonFaults` | 1 process, 2 headers, all faults but a second process | no error path of a live process loses or overwrites a recorded mode |
| `ShowPlayback` | shows: 2 groups, six shows of all modes, ticks of 1 and 2, 2 starts, lag up to 4; schedules: minutes of 12 s, days of 3 minutes, a week of 2 days, 3 changes of 2 entries | playbacks keep to their plan; entries are carried out once and in their minute |
| `IpcEvents` | 1 stream, 1 panel, 3 connections, sockets of 2 messages, 2 changes, 1 fault | no event lost, no orphan reply, streams come back, calls return |
| `Speed` | a fan group with hardware sync or a pump, 2 curves, 4 readings, 1 alert, 1 schedule, 1 fault | curves, manual speeds, alerts and the keepalive keep their promises |
| `Lighting` | 1 group coloured by temperature, 2 hues, 2 levels, 2 profiles, 2 applications, 3 requests, 1 fault | the registry is truthful; indications and temperature colours keep their promises |
| `RgbUpload` | rings of 8, 24, 26, 44 LEDs; all effects; zones, sub-zones, LED maps on two fans; every buffer of 12 symbols of two colours and of 7 of three; two edits on the light pages | effects stay on the fan and loop, LEDs show what mode and page ask for, the fans decode what was encoded |
| `RfLink` | 3 receivers in three constellations, 2 channels, 3 requests or faults in all | no reopen storm, Ok means done, passes are truthful, fans are found again |
| `LcdPanel` | 2 panels (standard and WinUSB), 10 contents, 2 requests, 1 fault, readings a tenth apart | panels show what was asked last, settings arrive, an unplugged panel comes back |
| `Settings` | 1 group, 2 roles, 1 value, 2 requests and 2 troubles, 3 of both | answers survive, runners follow, roles come back, pages show what the daemon has |
| `Boards` | a fixed zone and a header of one and two reports, a hub, 4 requests or starts, 2 faults | whole frames, a true status, one hiccup fails nothing |
| `OpenRgb` | a client of each layout, 2 groups of 1 and 2 fans, 8 packets, 1 trouble | frames land whole where they were meant, of one layout two bytes late; every connection is served, every frame for a known controller arrives |

Why these bounds are enough:

- *Hwmon.* Headers interact through the file, which is rewritten as a whole, so
  two suffice to have one entry written while the other is released. Three modes tell
  "manual", the header's own and another one apart. Two processes are needed
  for one to start while the other has crashed.
- *ShowPlayback.* One time unit of the shows is one 50 ms tick. Ticks of 1 and
  2 with steps of 1 to 3 give exact, early and late ends and, in a show of one round and one
  of three, a runner that falls behind and ends after its time
  (`MaxLag` stops it there: more lag changes nothing but the number).
  Two starts let one show replace another. For the schedules a minute keeps the
  proportions of the code: `Spacing` and the latest poll make just one minute
  (55 s and polls of up to 5 s), so a minute has one look or two, and days wrap round
  before and after the week does.
- *IPC.* Two changes give an order to get wrong; two messages of room make the
  daemon wait for a full socket; three connections let a stream reconnect
  beside the panel while its old connection is still in the vector.
- *Speed.* Groups interact only through `SetSpeedAll` and `StopFans`, which
  treat each alike, and the shared sensor, so a machine with one fan and one with one pump show every
  case; the readings lie below the stop point, on
  both sides of the threshold, in its hysteresis and within one deadband of each other.
- *Lighting.* No step reads the state of one group to set another, so one group
  shows every case of its own. Three requests let a profile be saved, copied and switched to, or an
  indication be repeated and interfered with, between any number of polls.
- *RgbUpload.* Effects depend on the ring's length, its parity and quarters:
  8 is short, 24, 26 and 40 are the fans sold. Buffers of 12 symbols pass
  `DictSize`, `ChainLen`, `BigPos` and `SmallPos` as they are set; three colours
  are needed for two matches at one distance with another between. Two edits
  are one to bring a page out of step with the daemon and one to send it.
- *RfLink.* The receivers are on a channel the backend does not start on; two
  of them share a group, the third is a pump, free, of another controller, or
  ours. Three events are a fault before, within and after the request it disturbs.
- *LcdPanel.* Two requests replace one content by each other one, and one fault
  is a late answer, a failed write or an unplugged panel within them.
- *Settings.* Every request sets one section; two of them and two troubles
  (crash, full disk, stop, edit), three altogether, put a crash within a
  save and another writer before it. Entries of the daemon's own list are enough
  for a stale index: the run starts with one, which another request may delete first.
- *Boards.* Two reports make a frame that can be cut; a third channel has no
  LEDs; four requests or starts let an effect, a frame, a restart and a frame
  follow each other; two faults are what `OneHiccupSurvived` needs to fail.
- *OpenRgb.* Eight packets let both clients discover and paint, and let one whose
  answer came late discover again, take a controller's data for the number of
  controllers, and paint one beyond the snapshot. One trouble is a pause in a packet, a late
  answer, a change of the groups, a client that leaves, or the stop, after which no frame
  is shown any more. More troubles, packets and clients are the theorem's.

Deadlock is checked except where the instance ends: `ShowPlayback` (time ends at
`LastSecond`), `RgbUpload` (a job ends), `Settings`, `Boards` and `OpenRgb` (the
bounds on requests and troubles are used up).

## 5. Fairness

- `HwmonTakeover!FairSpec`: `WF(Open)`, because the unit file has
  `Restart=on-failure`; `SF(RestoreEntry)`, because kills may come again and
  again but some start lives long enough to write one entry.
- `MCEngineTimers`: `WF(EngineTick)`: the main loop ticks in every iteration.
  `FiredInItsMinute` is a safety property: that polls come at all is `PollLatest`.
- `IpcEvents!FairSpec`: the loop runs, systemd restarts it, a client's threads
  run, `run_event_loop` reconnects for ever. Nothing obliges a user to ask, a
  panel to connect, or a fault to happen; faults are bounded, for nothing
  comes back under endless crashes.
- `SpeedControl!FairSpeedSpec`: the loop polls for ever. Its outcomes are not
  fair; only the number of faults is bounded.
- `RfLink!Spec`: the loop polls and goes on with what it began (`WF(Step)`),
  and cooldowns end. Frames may get lost and dongles break only `MaxEvents` times.
- `LcdPanel!LcdSpec`: the daemon polls and carries out what it computed. It is
  weak fairness with what enables the two actions written out: `pending` is
  empty, or not. Nothing obliges the readings to change: `ReplugRecovers` speaks of
  runs in which they do.
- `OpenRgbServer!FairServerSpec`: every thread of the daemon keeps running, clients
  need not.
- The runs `HwmonFaults`, `Lighting`, `RgbUpload`, `Settings` and `Boards`
  state safety alone. In `Lighting` deadlines are not modelled, and a repeated
  `Indicate` may put off a restore for ever; in `Settings` nothing obliges a
  daemon to be started again.

## 6. Proofs

All assumptions are those named in the modules (`HwmonAssumption`,
`ShowsAssumption`, `ScheduleAssumption`, `SpeedAssumption`, ...); TLC evaluates
them in every run. Each proof is of an inductive invariant, which says besides
the property what the state remembers that the property rests on.

`FanProofs`, the headers (for every set of processes, channels and modes):

- `TypeCorrect` and `KeptHolds` under every fault, from `TypeOK /\ InCall`.
- `CustodyCorrect`: `Spec => []IInv`, if no fault is in `Lossy`. `WriteAhead`
  alone is not inductive: whether a step of a restore loop may strike
  an entry depends on what the loop has done, so `Custody` adds, for each point
  of a process, what it knows of the headers away from home (`Phase`), that
  memory and file agree (`HeldInMemory`, `FileCoversMemory`), that all
  recorded modes are the firmware's (`SavedIsNative`, `JobsAreNative`), and
  that one process owns the chip (`OneOwner`).
- From it: `WriteAheadHolds`, `SavedIsNativeHolds`, `CleanExitHolds`,
  `RestartRestoresHolds`, and `LedgerRefined`: `Spec => Ledger!Spec`. The write-ahead
  invariant is not checked by a run: `ImplementsLedger` implies it.

`EngineProofs`, the show runner (for all groups, shows, tick sizes and bounds):

- `TypeCorrect`, and `Inductive` with `IInv`: `TypeOK`, the index in range, and
  `Sound`, which says of each playback that its show has steps, that its
  direction is 1 unless it bounces, and that the leftover time is
  less than the current step if ticks fit into steps.
- From it `IndexStaysInRange`, `NoBacklogHolds`, `NoStepIsSkipped`.
- `TimeInductive`: the plan of a show knows nothing of the runner, so its
  steps' starts (`StartTime`, a sum from the first step on) are related to a playback by
  `TimeInv`: the time since the first step is the rounds played, the start of the
  place in the round and the time left over, up to the show's whole time. It
  rests on lemmas about `StartTime` (it exists, it is a natural number, starts are in
  order, the last one plus its step is the round) and about one `Advance`.
- From it `StaysOnSchedule`.
- `CountInductive`: `CountInv` says that the scenes a finite show has shown are those of the
  rounds behind it and of its place in this one (`Counted`); one `Advance` adds one
  (`AdvanceIsCounted`). From it and `TimeInv` `FiniteShowsPlayInFull`, with ticks of any
  length: no playback that ends is excepted, however far it is behind.

`EngineProofs`, the schedules (for any clock, minutes, days, entries and polls, if the
spacing of looks and the longest time between two polls fit into a minute):

- `AlwaysLooking`: `ScheduleInv` says that no poll and no look is overdue, that
  what is remembered is the minute of the last look, and that this minute's
  commands are those of its one look.
- From it `FiresInItsMinute`. The three facts on division it rests on
  (two times less than a minute apart lie in one minute or in two that follow
  each other) are lemmas of their own.

`EngineProofs`, the panels (for any panels, products, contents, requests and faults):

- `LcdInductive`: `LcdInv` says that every handle reaches a panel or none and no two
  the same (`PanelsInv`; `Reopen` takes the first panel of the product, which another handle
  may hold), that what waits to be sent carries the settings of the last `SetLcd`
  (`Agreed`), that both settings of a device are taken by the same tick
  (`TakenTogether`), and that what was taken is at the panel, waits, or is in `amiss`
  (`Underway`). It rests on a lemma for each operation of the backend, on what they leave alone
  (`KeepsSettings`, `KeepsOthers`), on one that finds both settings among the actions of a tick
  (`TickIs`), and on two about lists: flattening keeps the items of every list
  (`FlattenIs`), and an order of the devices has them all (`OrdersAll`).
- From it `SettingsReach`. Assumed is that the backend opens panels that are there
  (`PanelsAssumption`).

Where a recursive function is reasoned about, induction is an instance of
the library's `WFMin` (`Induction`): a set of naturals with 0 that is closed
under the next number holds them all.

`IpcEventsProofs` (for all clients, connections, buffers and faults):

- `Invariance`: `LoopInv` has every open connection in the daemon's vector, or
  still to be visited, once; `OwnInv` gives each connection one client; `LinkInv`
  relates what a connection carries down to the log since its `Subscribe`
  (`Tally`: read, on the way and owed add up); `StreamInv` and `HeardInv` say where
  in its handshake a stream is and what that means for what it has read;
  `ReqInv` and `PanelInv` keep requests and answers in step.
- From it `SubscribersMissNothing`, `RequestsStayPaired`, `StreamsInSync`.

`LightingProofs` (for all groups, colours, profiles, mappings and bounds):

- `Inductive`: `Spec => []IInv`. `StateTruthful` is inductive by itself; the
  action properties need what the runners remember to be right: `FlashKept` (the pending
  entry is the mode the group showed), `ShotKept` (a profile holds what was
  shown; this rests on `StateTruthful`), `HueNoted` (no reading is waiting to
  be coloured) and `MatchNoted` (the last match is that of the last focus).
- From it `TypeCorrect`, `StateTruthfulHolds`, `TempFollowsHolds`,
  `FlashUndoneHolds`, and two that no run states: `ProfileShowsHolds`
  (switching to a profile brings back what its groups showed when it was
  saved) and `SwitchedOnlyOnChangeHolds`.

`LightingProofs`, the OpenRGB server (for any clients, groups, fans, packets and
connections that break; the definitions of `OpenRgbServer` have names of their own
because this module takes both):

- `ServerInductive`: `ServerInv` says of each client's connection (`Row`) that every
  piece of a packet is on its way at most once, and no piece of the packet a thread
  has begun to read comes again (`InStream`); that a client that waits has exactly its
  one question on the way to the thread or its answer on the way back (`Matched`); and that what
  a client knows of the devices is the snapshot. `InChannel` says of the channel and of what
  the main loop has drained that a command names the group its packet
  was meant for. It rests on a lemma for each thing a row can do (`Moves`, `Forgets`,
  `ReadsOn`, `Handles`, `SendsRow`, `Answered`).
- `ParsedIsPart`: what `parse_colors` makes of a payload is as many LEDs as were sent, in
  the server's own layout their colours, in the backend's what lies two bytes before
  (`Lands`).
- `AssignedAsSent`, by induction on the fans: cutting what was parsed into fans and these into
  rings puts every LED in its place.
- From them `ShownAsSentHolds`. As in the property, a client whose own read timed
  out may mean another group, for its next answer may be that to an earlier question; and
  "in its place" is two bytes late for the backend's layout.

`FanProofs`, the speeds (for all fans, curves, alerts, readings and failures):

- `CurveInv`, with types, `CurveFollows` and `NoCurveUnderManual` (no curve is
  installed on a fan whose last request was a speed).
- From it `CurveFollowsHolds`, `ManualHoldsAlways` and `AlertsTrue`: the deadband
  moves the cached reading at most one from the sensor's, and an alarm fires or
  clears on the cached reading alone.

`RfLinkProofs` (for all fans, channels, repeats and mishaps):

- `NoReopenStormHolds`, from `RecoveryInductive`: a side that has been reopened in
  this period is in its cooldown. Every operation, with all it retries, is shown to
  touch cooldown and count in `Recover` alone.
- `LinkInductive`: the shape of a job at each of its phases, and `PassTruth`: while
  nothing has gone wrong in a pass all handles are open, the channels scanned had
  no receiver of ours on the air, and what was found is all there is. From it
  `PassIsTruthfulHolds`.
- `RequestsInductive`: `OkInv` says that the receiver a request is for still hears
  the controller, and what it has taken after each frame (`Effect`), counting the
  frames lost against the repeats and rounds to come; an upload whose first frame
  was missed is made up for by its second round because no receiver has seen
  that round's index (`Indices`). From it `OkMeansDoneHolds`.

`SettingsProofs` (for all groups, roles, values and requests; about `Spec`, the
daemon with any requests, and where said, the window beside it):

- `Inductive`: the shapes of the copies, `EngineFollows`, and `RolesInv`: the
  role a request is about to give is in the cache and the registry
  (`WishesCached`, `WishesShown`), those already answered are in what was
  answered and in the file (`AskedAnswered`, `AskedOnDisk`).
- From it `EngineFollowsHolds` and `RoleSurvivesHolds`. Other writers of the
  file leave the groups alone (`EditsAssumption`): an editor may take a role away.
- `AnsweredSurvivesHolds` with `KeptInv`: between requests the daemon has what it
  answered last, or that with the wear counters made sane; and so has the file, but for
  sections others wrote and saves that failed.
- `PagesInductive`, about the window beside the daemon (`PagesSpec`): for each section that
  is not shown as it is, a call that will read it is in the queue, or the
  request being answered will bring one (`Due`). From it `PagesShowDaemonHolds`;
  `KeptBesidePages` carries the three results above over to this composition.

`BoardLightsProofs` (for any table, requests and number of faults):

- `OneHiccupHolds`, from `HiccupInductive`: what is against a device has been
  counted (absent twice, in its cooldown once, with a stale handle once), and
  the cause of a second attempt is counted although the cooldown it began may be over.
- `LightsInductive`: the packets of the request being carried out that a port has
  taken are a beginning of the frame's (`JobInv`), a port shows one frame or none
  (`Plain`), and what is recorded is what the port shows unless the port restarted
  since or the recording is the next thing to happen (`ChannelTrue`, `HubTrue`). Lemmas
  say that the packets of a frame put together are the frame.
- From it `FramesAreWhole` and `LightsAreAsRecorded`.

`RgbUploadProofs` (for any jobs, effects, directions and frames, any window, chain
length, hash and length of a literal line; alone and beside the light pages):

- `FansDecodeBack`, from `CodecInv`. Encoder and decoder share nothing but the tokens,
  so the invariant relates their states: what is written so far reads back, token by
  token, to what the encoder has passed (`EncodingRight`), with the decoder holding the
  same last distance (`Remembers`); and while the fans read, reading on ends
  with the buffer (`DecodingRight`). It rests on one lemma for each piece of a token
  (control bits, a number in groups of bits, literal line, distance: what is written is
  what is read) and on `BestMatchRepeats`: whatever the hash chains hold, what the
  match finder offers does repeat what was there that far back.
- `PictureOnRing`: a lemma per shape of effect (tails, pieces, arcs, meteors,
  sweeps, stacks, fills, ...), for every frame and both directions. `LoopingLoops`:
  the frame after the last is the first one, by facts on remainders (`FullTurns`).
  The proof of `HeartBeatRunway` did not go through for rings of 1 or 4 LEDs more than a
  multiple of 8, and TLC gives the reason on 44 LEDs (section 8): the property
  excepts that effect on those rings (`EndsInBeat`).
- From these, with `SourcesInv` (a mode that is drawn is made of sources, for
  a ring), `EffectsStayOnTheFan` and `EffectsLoop`. The light pages build modes
  from what they hold, and `HeldInv` says that this is sources again, over every
  edit, adjustment and mode sent, loaded or taken from an event.

What the proofs ask of the constants is no more than the code or the meaning of
the names gives: a text that does not parse is no configuration
(`GarbledAssumption`), the pages import nothing (`ClicksAssumption`), an effect's name is
not that of a state of its channel (`EffectsAssumption`), what is repeated is
sent at least twice (`RepeatsAssumption`: three and ten times in
`rf_backend.rs`), there are finitely many receivers (`FansAssumption`) and those that are
ours at the start are in a group (`FirstFansAssumption`), a request names a kind of mode and of source that there is, for
rings of four LEDs or more (`JobsAssumption`, `RingsAssumption`, `PageRingsAssumption`), a hash of an
effect is a byte (`HashAssumption`), and the snapshot of the OpenRGB server
is a list of groups with fans (`GroupsAssumption`). Each client has one of the two layouts (`LayoutAssumption`).

Only model-checked:

- All liveness (`ComesBack`, `StreamsComeBack`, `CallsReturn`, `PumpKept`,
  `FansReachable`, `ReplugRecovers`, `FramesArrive`), which needs fairness and ENABLED.
- `ZonesTruthful` of `LightPages`: it compares counts of LEDs by zone in tables of each
  device, which TLC evaluates and the provers would have to be told one by one.
- `PanelCurrent` of `LcdPanel`, which compares pictures by content: each of the ten
  contents would need an invariant of its own for the time between drawing and sending.

`TypeOK` of `HwmonTakeover`, `ShowRunner` and `Lighting` is proved; those of the
other modules document the state and were checked while the modules were written.

## 7. Not modelled

- `frgb-model`'s types and validation, `frgb-cli`'s printing: no state.
- Pixels, fonts, JPEG, H.264, encryption, the places of bytes in packets (but for OpenRGB frames): data
  no property here tells apart. Speed bytes are modelled, for 0 % collides.
- libusb and HID I/O below "a write fails, times out or is taken".
- The GUI's drawing and debouncing, its speed and LCD pages.
- The migration of configurations of version 0; what a saved profile contains
  beside the modes and speeds of groups; sequences a profile carries.
- RPM values and their anomaly events; the RPM query of the hub; merge order.
- `frgb --direct` beside a daemon is a fault of `HwmonTakeover` (`direct`) that
  no run enables: nothing in the source promises anything then.
- Fault injection in the OpenRGB negotiation; sizes beyond 16 MiB.

## 8. Divergences and weak spots seen while modelling

The models do what the code does, so no run states these; each is in the model or
noted as left out. Lines are of the files below `src/crates/`.

**Where a comment, message or document says otherwise**

- `StopSequence` for a target that resolves to no group stops everything
  (`handler.rs:356`, `show_runner.rs:92`; `ipc.rs:238`).
- `connect_and_subscribe` may take an event for the answer to `Status`
  (`event_stream.rs:121`; `client.rs:25`).
- Closed connections stay in the vector (`main.rs:285`; `main.rs:249`).
- 0 % and motherboard control are one byte: after a discovery `SetSpeedAll`
  passes over fans stopped at 0 % (`color.rs:58`, `registry.rs:270`; `handler.rs:136`).
- A second `Indicate` on a flashing group leaves it white (`handler.rs:61,77`; `ipc.rs:83`).
- `frgb led` lights nothing on strips and AIOs (`services/rgb.rs:580,589`; `commands.rs:684`).
- `Unbind` takes the first MAC of a record that may be gone (`handler.rs:686`; `ipc.rs:93`).
- A preset is cleared by the very request that loads it (`handler.rs:400`, `lcd_manager.rs:507`).
- With two CPU inputs every poll sends sensor events (`curves.rs:77`, `hwmon.rs:196`).
- Saving settings in the GUI drops the temperature alerts when the read of them failed (`pages/settings.rs:119`).
- On the ring page an event of its own composed mode sets the stored ring to
  "both", and a later click on a ring saves the controls to both
  (`pages/rgb.rs:513`; `rgb.rs:3`: "tracked independently").
- The first call after a restart of the daemon fails on a dead socket, so the
  profile list is not read again (`frgb-gui/src/main.rs:126`: "on every reconnect").
- `shutdown` writes back through the cached path and deletes the record even if
  that failed (`hwmon_backend/mod.rs:246`; `mod.rs:229`).
- `SetBrightness` leaves `SubZones` as it is (`handler.rs:1237`: "all brightness fields").
- `ForgetGroup` removes the group from the configuration alone ("from config and registry").
- The RPM history is never pruned, though its comment says so.
- The poll interval may be 60 s (`config.rs:584`), and then a schedule's minute
  can fall between two looks (`scheduler.rs`: "within a minute of their target time").

**Events.** Events of requests are sent after those of the tick that ran later, so subscribers
may be left with the older mode of a group that both changed in one pass (`main.rs:298`);
`InSync` excepts it. A subscriber that never reads stops the main loop (`ipc.rs:86`).

**Speed.** A ramp stops half-way when readings stay steady (`curves.rs:100`).
`SetMbSync` and `MoboAuto` leave a running curve, as do the speeds of profiles
and scenes. `SetSpeedAll` with a curve activates none and answers Ok;
`ApplyCurve` changes nothing (`system.rs:209`). A group one discovery misses
comes back without its record, so a pump gets no keepalive.

**Light.** An indication that ends puts its mode over one set meanwhile, and if
the send fails the group stays white. A temperature colour that could not be
sent is not sent again until the colour changes. Modes are not written to the
configuration. A group lost for one discovery has no mode. The LED editor
shows a static ring on both rings, an effect in a zone as black, ignores brightness, and a
late event overwrites edits. `HeartBeatRunway` counts four frames per LED, but its beat
is 32 frames long: on the 44 LEDs of an SL-INF fan the light jumps each time
the frames repeat (`heartbeat_runway.rs:79`). "Apply to all" with one ring darkens the other.

**Schedules.** The minute remembered has no day: after the list was emptied and
filled again a minute looked at the day before is passed over. Reloading the
configuration does not reload them.

**Radio.** `bind` takes the first device that is not ours, another controller's
too (`handler.rs:269`). The command counter is refreshed by discovery alone, so
off-on-off within one poll is ignored. The scan accepts a channel on which only foreign
fans answer. Only one page of devices is asked for. A failed discovery clears the unbound devices
and leaves later backends stale (`system.rs:58`). Timeouts never recover a handle (`recovery.rs:51`).

**Panels.** The hash is stored before the frame is sent, so a still picture that
failed is not sent again (`lcd_manager.rs:424`). A template with core bars alone
is never drawn again. Late answers are taken for those of the next command. A panel is
found by its product, so the first of two alike. It is not initialised again
after a reopen, and nothing stops its clock. The weighted
sensor plots the CPU's temperature. For these, `PanelCurrent` leaves out presets, core bars and
panels whose frame failed.

**Configuration.** An import tells no runner, a reload two sections alone. A
failed save is only logged. A file that cannot be parsed becomes the defaults and
is overwritten. `frgb mobo name` overwrites what the daemon saved meanwhile, and the
daemon what it saved. Pages delete schedules by index in a list that may be old,
and turn "all roles" into three. The request thread's callbacks fill its own bounded queue.

**Boards.** `Reset` does not clear the recorded speed. A channel that runs an effect
takes no frames until a restart, though `SetRgb` answers Ok. A reconnected controller is
not initialised again. ENE and OpenRGB devices are all group 0; ports beyond
the first and a second hub are unreachable.

**OpenRGB.** Answers are not matched to requests, so one that comes after the 500 ms
timeout shifts all later ones: a client may take a controller's data for the number of
controllers and paint one that is not there, which the server drops without a word
(`openrgb_server.rs:240`); `FramesArrive` is about the others. A discovery that
fails is an empty one. Zone updates
are ignored. The backend writes the number of LEDs in 32 bits and the colours from byte
8 on (`openrgb_backend.rs:222`), the server reads 16 bits and the colours from byte 6 on
(`openrgb_server.rs:429`): every colour arrives two bytes late, and an LED has the red
meant for it as its blue. `ShownAsSent` says just that of such a client.
Colours of OpenRGB clients bypass the engine, so no event tells of them.
