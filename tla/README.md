# A formal model of uwbl

TLA+ modules, TLC runs and TLAPS proofs for `uwbl`, the keyboard-backlight
daemon, client and kernel driver for Uniwill laptops. Paths below are relative
to the repository.

## The system

| Part | Code | State | Operations |
|---|---|---|---|
| Controller | `uwbl-core/src/controller.rs` | profiles for AC and battery, fan boost, power source, idle flag, dirty flag, the running engine | `apply_all`, `tick`, `set_*`, `set_profile`, `reset_to_config`, `poll_hw_brightness`, `set_idle_off`, `set_power_source`, `resume`, `take_state` |
| Effect engine | `uwbl-core/src/effect.rs`, `color.rs` | effect, last frame written | `frame_at`, `apply` (skips a frame equal to the last), `invalidate` |
| Backend | `uwbl-core/src/backend.rs` | sysfs paths, last content of `brightness_hw_changed` | writes of level, intensity, fan mode, fan boost; `take_hw_brightness_change` |
| Configuration, state file | `uwbl-core/src/config.rs`, `state.rs` | `config.toml`, `state.toml` | parse and merge; save by temporary file and rename |
| Daemon tasks | `uwbld/src/main.rs` | two `Notify` permits | effect loop, Fn-key poll, debounced save, save at shutdown |
| D-Bus service | `uwbld/src/dbus.rs` | – | methods under polkit, `StatusChanged`, resume from suspend |
| Idle and power | `uwbld/src/idle.rs`, `power.rs` | time of the last input | switch off after a timeout, on again at input; follow the mains plug |
| Client, panel | `uwbl/src/main.rs`, `Panel.qml` | last status seen | read a status, write a value computed from it |
| Driver: EC access | `kernel/uniwill-laptop/uniwill-acpi.c` | regmap's cache, `ec_use_wmi` | ECRR/ECRW over the memory window, the WMI mailbox as a fallback, access tables |
| Driver: settings | same | EC registers, `struct uniwill_data` | sysfs attributes, LEDs, hwmon, platform profile, battery, USB-C |
| Driver: life cycle | same | features, saved registers | probe, remove, shutdown, suspend, resume |
| Driver: events | same, `uniwill-wmi.c` | the work of the LED core | notifier chain, adapter events, Fn keys, LED worker |

The tasks of the daemon share the controller through one mutex. Whoever changed
it releases the mutex and then calls `notify_changed`, which wakes the effect
loop (`wake`) and the emitter (`changed`); the emitter waits 50 ms, reads the
status, emits it and saves the state. The controller writes the LED through
sysfs to the driver, which writes the EC. A Fn key takes the opposite way: the
EC changes the level, the driver reports it in `brightness_hw_changed`, the
daemon polls that file. In the driver, processes in sysfs stores, handlers of
WMI events and the worker of the LED core run in parallel, each with its mutex
or none; the EC changes its registers by itself.

What is hard:

- many paths write the LED, each with its own list of writes, and each of the
  writes may fail after earlier ones and after the stored state changed;
- the engine skips frames it believes to be on the keyboard, which an EC reset
  or a failed write makes wrong; regmap skips writes it believes to be in the EC;
- decisions are taken outside the lock (idle, power, effect schedule, status)
  and notifications are sent after it is released;
- Fn reports arrive late and carry no sequence number;
- a sleep resets the EC, may take its memory window away, and the driver brings
  registers back by three different ways: from the cache, from copies it made at
  suspend, from copies it made at every write;
- an adapter event may come at any moment, also in the middle of a probe or a
  suspend, and only a driver that is registered for it hears it;
- some switches can only be flipped, so they are read first;
- a save may be cut by a crash, fail half-way, or meet another save.

What makes each part correct:

- *controller and engine*: keyboard and fans show the active profile, a dark
  keyboard stays dark, success means shown, the engine runs the effect of the
  active profile, whatever failed;
- *daemon*: no wake-up, signal or save is lost; changes are saved in the end;
- *idle and power*: input lights the keyboard again; the daemon ends on the
  profile of the plug;
- *state file*: a crash leaves the last saved state or a later one, never a torn
  one, and what is not dirty is saved;
- *driver*: only a request changes a setting; cache and EC agree; AC and battery
  lightbar agree; manual mode lasts as long as the driver; no value of a dead
  memory window is taken for a reading;
- *threads of the driver*: a flip is atomic, what the adapter undid is done
  again, the last colour stored is the one shown, nobody waits for ever.

## Modules

### Daemon

`Controller.tla` – the synchronous core. Every method of `Controller` is an
action of the same name. Since the daemon calls it under one mutex, a call is
one atomic step, sysfs writes included. The engine and the hardware are records
passed through operators that mirror the calls: `apply_all` is `light`
(`apply_brightness()?; invalidate(); tick()?`) on a new engine, then
`apply_fans`. `light` is also the tail of `set_enabled`, `set_brightness` and
`set_idle_off`. A write fails when its kind is in the set `fails` an operation
picks from `Faulty`; the operators stop where the code's `?` stops. No operation
writes one kind twice, so choosing up front loses no behaviour.

| Variable | Code |
|---|---|
| `profiles`, `fan_boost`, `power`, `idle_off`, `dirty` | the fields of `Controller` |
| `engine` | `EffectEngine`: `effect`, `last_frame` |
| `result` | what the last operation returned (a Rust caller sees it; here a property does) |
| `hw` | level, intensity, fan mode and boost the hardware is at |
| `notice` | content of `brightness_hw_changed`; `last_hw_changed` is the backend's copy |
| `resuming`, `unread` | an EC reset awaits `resume()`; a Fn key awaits a poll |

A colour at a phase of its animation is a member of `Frames`: the constant
`Shade` gives the intensity of a colour at a `wave`, so fades and periods are a
finite table and `Black` stands for a colour whose intensities round to 0.

`Daemon.tla` – EXTENDS `Controller` and adds the tasks of `uwbld`. A method or
event is a step of the controller that leaves a notification *owed*; a second
step makes it. The effect loop is `EffectTick`, then `EffectWake` or
`EffectTimer`; the emitter is `EmitWait`, `EmitStatus`, `EmitSignal`,
`SaveTake`, `SaveWrite`; idle detection is `IdleCheck` or `IdleActivity`, then
`set_idle`; the power watch is `PowerDetect`, then `PowerSwitch`. Between any
two of these steps every other task can move. `told` is the status clients know.

`StateFile.tla` – the state file below `SaveWrite`: the two savers
(`emit_changes` and `main` after SIGTERM), each a `SaveTake` under the lock,
then `atomic_write` as `Create`, `Write` and `Rename` of one temporary name,
each of which may fail; `Crash` between or within them, `Start` as
`State::load`. `tmp` and `path` say which file a name stands for, so that a
saver may go on writing to a file the other has renamed; a state is the number
of changes it has seen. `Overlap` says whether both savers may be at work at
once, as they may in the code; with `FALSE` one waits for the other.

`Store.tla` – the promise: a save brings the disk forward to a state the
controller had, a restart begins with what the disk has.

### Kernel driver

`Regmap.tla` – the EC and the way to it. A handler is a sequence of accesses
that ends at the first error, so it is an operator on a record `s`: the fields
of the EC's registers (`ec`), the `window`, the switch to the mailbox
(`use_wmi`), regmap's `cache` with its two flags, the copies in
`struct uniwill_data` (`last`), and a `fuse` that lets the n-th access from now
fail. `EcWrite` is what the EC does with a write: it flips a switch on a trigger
bit, takes the level over only with its apply bit, and shows the factory colour
for black. `RegisterOf` says which register a field is in. `Read`, `Write`,
`UpdateBits`, `WriteBits` and `regcache_sync` are the kernel's regmap as the
driver relies on it (external), the two transports and
`uniwill_ec_check_transport` the driver's. The sync sends the cached registers
in the order of their addresses until one fails; since no register it sends
changes another one it sends, it is written in closed form, as the set of
registers that come before the fuse.

`Driver.tla` – EXTENDS `Regmap`. One operator per store and show function,
per function of `uniwill_probe`, `uniwill_suspend` and `uniwill_resume`; one
action per call from outside:

| Action | Code |
|---|---|
| `Probe`, `ProbeStep` | `uniwill_probe`, one step for each function it calls, with what devm undoes after a failure |
| `Unload` | unbinding and `uniwill_shutdown` |
| `Store(a, v)`, `Show` | a write to an attribute, LED or battery property; a read that fills the cache |
| `LedWork(a)` | the LED core's worker sets the level or colour that a write to a LED has queued |
| `Suspend`, `SuspendStep`, `SuspendDone` | `uniwill_suspend`, one step for each function it calls |
| `Sleep` | the EC may forget everything, the memory window may go |
| `Resume`, `ResumeStep` | `uniwill_resume`, likewise |
| `Plug`, `Notify` | the adapter makes the EC forget; `uniwill_notifier_call` |
| `HotKey(a)` | a key the EC handles itself |

`pc` is the set of functions that a probe, suspend or resume has still to call;
they are called in the order of their positions in `ProbeCalls`, `SuspendCalls`
and `ResumeCalls` (`Due`). Between two functions of a probe the adapter may
change and users may write to what is registered already (`Offered`): LEDs,
battery and platform profile by the function that registers them, the driver's
own attributes once the probe has ended. A function fails at one of its accesses
or when it registers (`Registered`). The notifier is registered by the last one,
`input`: an event before it reaches nobody (`Listening`).

A write to a LED puts its value into `queue` and has succeeded; `LedWork` makes
the accesses later, and nobody learns of its errors. Other writes make their
accesses in the step of the call.

`sys` is the record of `Regmap`; `lost` is bookkeeping of the model. It names the
settings that a failed access has left to chance, of which properties promise
nothing until the code has set them anew, and more: `manual` and `ctgp` for
manual mode and the dynamic boost, `colour` and `uneven` for a colour that is
not applied and a lightbar written by half, and `adapter` for an adapter event
that is lost for good: it came after a probe had copied what the EC held and
before the notifier was registered, or its handler has failed. The next event
that is handled, or a resume, takes `adapter` away again.

`Machines.tla` – five of the device descriptors, one of each kind that differs
in what it keeps over a suspend. `MCDriver.tla` – EC contents and user values.

`Settings.tla` – the promise: only a request changes a known setting. A failing
access may make it unknown, a sleep may change the two settings the driver does
not save, loading the driver the ones it sets anew. `Driver` implements it with
`View` as the value of each setting: of a LED the one in the queue; else that in the
copy the driver has taken, from the end of a suspend function to its counterpart
in the resume; else in the cache, else in the EC.

`Threads.tla` – the same code one access at a time, for what runs in parallel:
processes in store functions, handlers of WMI events, the LED core's worker, the
EC. `task` is where each thread is, `lock` who holds each mutex. `ToggleRead`
and `ToggleFlip` are the two halves of `write_super_key_enable` and
`write_fan_boost`; `ChargeWrite`, `ChargeRemember` and
`uniwill_restore_charge_type` of the charge type; `UsbCLookup` comes before the
mutex as in the code. The LED core queues one work, whatever is queued already,
and `WorkBegin` to `WorkLevel` are its accesses, without `led_access`.

`Switch.tla` – the promise of the flipped switches: a request sets its switch in
one step. `Threads` implements it: a switch counts as set from the moment its
status is read under the mutex.

### Instances, proofs, mutants

`MCController.tla`, `MCDaemon.tla`, `MCDriver.tla`, `MCThreads.tla` – constants
for TLC. `ControllerProofs.tla`, `HealthyProofs.tla`, `DaemonProofs.tla`,
`ThreadsProofs.tla`, `StateFileProofs.tla` – theorems. `RegmapProofs.tla`,
`HandlerProofs.tla` and `DriverProofs.tla` – the proofs of the driver in three
layers: one access, one handler, one step.

Operators whose comment says *Mutant* are plausible bugs of the definition
after them. The project's list of mutants pairs each property of each passing
run with one that must break it; they are no part of the specification.

## Runs

| Run | What it asks | Result |
|---|---|---|
| `Controller.cfg` | healthy colour keyboard with fans, no Fn reports: keyboard and fans follow the profile, dark stays dark | holds |
| `Faults.cfg` | level and intensity writes may fail, Fn keys are reported: the engine and coalescing are right all the same, and success or following still means shown | holds |
| `Daemon.cfg` | clients, Fn keys, effect loop and emitter interleaved: no wake-up, signal or save is lost, and the disk ends with the controller's state | holds |
| `DaemonEvents.cfg` | idle, power and resume tasks with animated effects: wake-ups, input, plug and the restored keyboard | holds |
| `Driver.cfg` | five machines through the steps of a probe, requests, LED work, keys, adapter events, suspend, sleep, resume, unloading and a failing access: `Driver` implements `Settings`, cache and EC agree, and the other promises of the driver | holds |
| `Threads.cfg` | two processes, a handler, the worker, keys and the adapter: `Threads` implements `Switch`, the charge type is kept, the last colour is shown, all comes to rest | holds |
| `StateFile.cfg` | crashes and failures at any file operation: `StateFile` implements `Store`, never torn, clean means saved | holds |
| `FnRepeat.cfg` | `README.md`: the daemon notices a Fn key | violated: a key that ends at the level reported last is not seen |
| `BrightnessOnly.cfg` | `backend.rs`: degrades to brightness-only | violated: turning on works and reports an error; fans are never set |
| `DaemonErrors.cfg` | `dbus.rs`: after every change, signal and save | violated: a method that fails after its change notifies nobody |
| `UsbC.cfg` | `uniwill-acpi.c`: the mutex protects the USB-C write and state | violated: the value to restore is looked up before the mutex is taken, a store in between is undone |
| `TwoSavers.cfg` | `config.rs`: a crash never leaves a truncated file | violated, without a crash: the saves of `emit_changes` and of the shutdown write one temporary file |

### Bounds

*Controller and daemon.* Two power sources are all there are. Two colours with
two phases tell an old frame from a new one, an animated one from a still one,
and one of the four shades is black, so that the guard against `[0,0,0]`
matters. Levels shown are 0, 1 and 2: `SetBrightness` is asked for 0, 1 or 3
(beyond the LED, rejected), and a profile stored by `SetProfile` asks for 3,
which is shown as 2. In the daemon's runs one colour at one level is enough,
because what they tell apart is old from new, and an effect that needs the loop
from one that does not; where clients act (`Daemon.cfg`) one phase is enough
too, as the schedule depends on the kind of effect and not on its frames. One
client suffices: methods of several differ only by the notifications they owe,
and those merge in one permit; `DaemonProofs` covers any number. No variable is
a counter, so these runs explore their whole state space, without constraint.

*Driver.* `MaxRequests` 2, `MaxSleeps`, `MaxUnloads` and `MaxFaults` 1, and
`MaxSum` 3 of them together; suspends that do not sleep and adapter events are
not bounded. A setting goes wrong by a request, a sleep or an unloading, and one
failure among them, in any order; two requests tell a value from an earlier one
and write a switch back. An access fails by its number, up to the longest
handler or function of a probe. The run explores 828,070 states. The EC starts as it comes up or as a user has left it, with or without
its memory window where a fallback exists.

*Threads.* Two processes and a handler with two calls: two processes in one
store, one in each of two, or one twice. Two adapter events, so that one comes
while another is answered, and a key of each kind. Colours are black, which is
never sent, and one it can be torn with, in two channels.

*State file.* Four changes, two crashes, two failures: a save of each of two
savers with a change in each of their gaps, a restart between them, and a
failure or crash on both sides of it. Three files are enough: the one of each
name, and one that a saver still has open.

### Fairness

Each task of the daemon is weakly fair, since tokio polls every ready task and
every timer fires. `select!` takes a ready branch at random, so the idle task
does not pass over `activity` for ever: strong fairness of `IdleActivity`.
Clients, Fn keys, suspends, the plug, input and the passing of the idle timeout
are not fair. `EventuallySaved` speaks of the disk: what a restart would load is
in the end, and stays, the controller's state, unless that changes again and
again for ever. It needs a disk that takes its writes, as in the run. `RelitOnInput` and `FollowsMains` therefore speak of an input that
is not followed by another timeout, and of a plug that comes to rest.

In `Threads` every process, handler and the worker is weakly fair: the kernel
schedules each thread that can go on, a mutex of the kernel hands over to
waiters, and a queued work runs. Calls, keys and the adapter are bounded, so a
mutex is not taken for ever by others. `Driver` and `StateFile` state safety
only. `Threads` ends when its bounds are reached, so its deadlock check is off;
`ComesToRest` says that it ends with every thread done.

## Proofs

Each theorem holds for all values of the constants that satisfy the named
assumptions of the module, which only say that limits are non-zero bytes,
inputs of the right types, and special values none of the ordinary ones. Those
of `Driver` say a little more, see below.

- `ControllerProofs`: `TypeCorrect`, `EngineCorrect`, `FrameCorrect`, whatever
  writes fail and whether Fn keys are reported or not. The inductive invariant
  `IInv` is their conjunction: the frame argument needs the types, in particular
  that no frame is `[0,0,0]`, or the backend's clamp would write another frame
  than the engine remembers. From the same invariant follow the action
  properties: `DarknessKept` and `SuccessMeansShown`, again whatever fails, and
  `FollowedIsShown` for a LED with at most `MAX_BRIGHTNESS` levels. On one with
  more levels a Fn key can reach a level that a profile cannot name; the driver
  offers no such LED (its highest level is 4, as is `MAX_BRIGHTNESS`).
- `HealthyProofs`, under `Healthy` (colour LED, no failing write, no Fn reports,
  `restore_on_resume`): `KeyboardCorrect` and `FansCorrect`. `HealthyInv` joins
  the two; it is inductive only together with `IInv`, because a tick that skips
  its write shows the right frame only if the remembered frame is on the
  keyboard. The assumptions are needed: a Fn key not yet polled, a failed write
  or an EC reset that is not restored each part keyboard and profile.
- `DaemonProofs`: `DaemonTypeCorrect` whatever fails; `WakeupsArrive`,
  `SignalsArrive` and `SavesArrive` under `Reliable` (colour LED, no failing
  write), the last also without a failing disk. The assumption is needed:
  `DaemonErrors.cfg` is the counterexample. The core is `ChangesAnnounced`: a
  step outside effect loop and emitter owes a notification, or leaves what
  clients see and what is saved as it is. `SignalInv` adds to `NoLostSignal` the
  status the emitter has taken and not yet sent, `SaveInv` to `NoLostSave` the
  state the saver has taken and not yet written.
- `ThreadsProofs`: `ThreadsTypeCorrect`, `ChargeIsKept`, `ColourIsShown`, and
  `TogglesAreAtomic`, the refinement of `Switch`. The invariant says who holds which mutex
  (`Holding`: a thread holds it exactly between its first access and its last),
  that what a thread carries fits its operation (`Fits`), and what the middle of
  a charge-type write has already done (`Charged`). For the colour it says what
  core, worker and EC still owe: the worker may be ahead of a store or behind it,
  and may take one channel of each, but then a work is queued that will send both.
- `StateFileProofs`, for savers that do not overlap: `StateFileTypeCorrect`,
  `FileIsWhole`, `CleanIsSaved`, and `FileIsStore`, the refinement of `Store`,
  for any number of changes, crashes and failures. The invariant says that one
  saver is at work (`Alone`), on a file that is not the state file (`Apart`), and
  that saved, being saved and current states come in this order (`Ordered`).
  Where savers do overlap, `TwoSavers.cfg` shows that the theorems fail.

- `DriverProofs`: `DriverTypeCorrect`, `CacheIsCoherent`, `LightbarIsSame`,
  `ManualIsBound`, `AdapterIsApplied`, `ReadingsAreReal`, `BoostIsFollowed` and
  `ColourIsInForce`, every invariant of the driver's run, without a bound on
  requests, sleeps, unloadings, failures or adapter events.

All follow the code: lemmas on what the operators return, then the actions by
kind, then the temporal step.

### The driver

A handler is up to thirty accesses, each of which may fail, so that expanding it
is out of the question. The proof has three layers.

`RegmapProofs` says once what an access does whatever happens to it: `Reads`,
`Writes` and `Puts` (an update of bits) give the fields, copies and switches that
may differ afterwards (`Touches`), what holds if it succeeded, and that cache and
EC stay coherent if it did; `Synced` says it of `regcache_sync`. The failing
write of a cached register is the one step that parts cache and EC.

`HandlerProofs` says of each handler, from those lemmas only, what it may change
and what a success means: `Stores` of a write to an attribute, `Suspended` and
`Resumed` of a function of a suspend and a resume, `Notifies` of the adapter
handler, `Probed` of a function of a probe, `Releases` of what devm undoes.

`DriverProofs` has the inductive invariant `IInv`. The properties speak of a
driver in use (`phase = "on"`), and are not inductive: what holds after a resume
follows from what each of its functions has restored, and that from what was
saved before. So each part of `IInv` says, for every phase, what is done and what
is still owed:

| Part | Says |
|---|---|
| `SysInv`, `CountInv` | shapes and types; the cache serves alone exactly while asleep |
| `FeatureInv` | the features are those of the descriptor, and perhaps the boost |
| `CallInv` | the calls left of a probe, suspend or resume are its last ones: if one is done, all before it are |
| `QueueInv` | only values for a LED that is registered are queued |
| `CacheInv`, `LastInv` | what a bound driver has in its cache and its copies, whatever failed: manual mode, a colour in range, both halves of the lightbar alike, copies that name a value |
| `AliveInv` | window or mailbox answers, in a resume once the transport is checked |
| `SyncInv` | cache and EC agree; or the cache is marked dirty and the sync still to come |
| `ManualInv`, `BoostInv`, `ShownInv`, `AdapterInv` | the registers behind each property, in a probe or resume once the function that sets them is done (`Past`) |

`CacheInv` must hold after failures as well, since a later resume writes the
cache back and with it repairs what the failure broke.

The constants are assumed to be what the code gives them.
`MachinesAssumption`: a descriptor has the charge limit or the charge modes, not
both. `EcAssumption`: whatever state the EC is in, the registers that identify
the machine say the same, the charging profile has two bits and the USB-C
priority one. `StartAssumption`: before the driver is loaded the EC is not in
manual mode, and if its colour is in the range the driver takes over, the keys
show it. `ValuesAssumption`: users write only what the store functions accept.
`StartAssumption` is needed: a probe does not apply a colour it finds in range,
so an EC that starts with a stored and not shown one is not mended by it. TLC
has found `IInv` to hold in each state of `Driver.cfg`.

### Only model-checked

- `ImplementsSettings` of `Driver`: it follows the value of every setting
  through every handler, where the invariants above follow registers;
- liveness, which the prover cannot treat.

## Weak spots the code has and no property claims otherwise

- A suspend given up after the keyboard was switched off leaves it off: the
  kernel does not call the resume of the device that failed.
- A resume returns at its first error; what comes after it is not restored.
- A failing write to a cached register is in the cache: the retry of the same
  value sends nothing and succeeds.
- An adapter event between the reading of the charge type or USB-C priority by a
  probe and the registration of the notifier is heard by nobody: the EC disagrees
  with the driver's copy until the next event or resume. An event whose handler
  fails is not handled again either. `AdapterApplied` excepts both by name.
- A write to a LED returns before its accesses and without their result.
- Queued LED work is not flushed by the driver's suspend; the model takes it for
  done by then, since processes are frozen first and a worker needs none.
- A save that fails is not repeated before the next change, and the save at
  shutdown finds nothing dirty. A write that fails on a power switch is not
  repeated by the next detection of the same source, which returns early.
- `ac_auto_boot` survives a sleep that resets the EC only if something has read
  or written it before; fan boost and platform profile do not survive it without
  the daemon, which applies its profile at resume.
- A probe that fails between colour and apply bit leaves a colour in the
  registers that is not shown, and the next probe finds nothing to do.

The model follows the code in each (`lost`, `Unknown`, `Unsaved`).

## Not modelled

- *Daemon*: formatting and parsing, polkit, discovery of the LED, the scan of
  input devices, property reads, the fake backend, packaging; the arithmetic of
  colours, waves and periods, a table here; the merge of partial profiles.
  Start-up happens before the tasks run and is one initial state; a saved state
  differs from a configured one only in its profiles.
- *Driver*: the bytes of the mailbox; the DMI table and the descriptors that
  differ from the five in no kept setting; forced loading; the list of batteries
  with its hooks, and readings of the power supply; key maps; allocations that fail;
  hwmon's strings and all but one of the sensors of each scale. A failing access
  in `Threads`: the failures are those of `Driver`. A lightbar colour is its
  brightest channel in `Driver`, three registers are one field.
- *Client, D-Bus proxy, panel*: no state of their own. Two relative changes by
  two commands at once are ordered by nobody, and the last one wins.
- *Race of a Fn key with LED work that is queued*: the driver orders neither, so
  which level stays is open; `Threads` contains the race and claims only the
  colour.

`PROJECT.json` lists every part with what is left out and every hazard with
the properties that cover it.
