------------------------------ MODULE Threads ------------------------------
(***************************************************************************)
(* What runs in parallel in the kernel driver: processes that write to its *)
(* attributes, handlers of WMI events, the worker of the LED core, and the *)
(* EC, which handles its keys and the power adapter by itself.             *)
(*                                                                         *)
(* One access of a register, or of data shared by the threads, is one      *)
(* step.  A mutex is taken with the first access under it and given back   *)
(* with the last.                                                          *)
(***************************************************************************)
EXTENDS Integers, FiniteSets

CONSTANTS
  Caller,         \* the processes
  Handler,        \* the handlers of WMI events that may run in parallel
  Nobody,
  Toggle,         \* the switches that can only be flipped
  ChargeType, FactoryType,       \* charge types, and that of a new adapter
  Option, FactoryOption,         \* the same for the USB-C power priority
  Level,          \* levels of the keyboard
  Colour,         \* colours: the intensities of two channels
  MaxCalls, MaxKeys              \* bounds of the model

Thread == Caller \cup Handler

Event == {"adapter", "kbd_led"}

ASSUME ThreadAssumption ==
  /\ Nobody \notin Thread \cup [of : Toggle, to : BOOLEAN]
  /\ Caller \cap Handler = {}
  /\ Toggle \subseteq {"super_key_enable", "fan_boost"}
  /\ FactoryType \in ChargeType /\ FactoryOption \in Option
  /\ Colour \subseteq Nat \X Nat
  /\ MaxCalls \in Nat /\ MaxKeys \in [Toggle \cup Event -> Nat]

VARIABLES
  task,           \* what each thread does: [op, step, arg]
  lock,           \* the holder of each mutex
  status,         \* the switches in the EC
  profile, last_charge_type,     \* in the EC, and in struct uniwill_data
  usb_c, last_usb_c_power_priority_option,
  led,            \* the keyboard in the EC: [level, rgb, shown]
  core,           \* its LED class device: [brightness, intensity]
  work,           \* the work of the LED core
  pending,        \* the WMI events on their way, of each kind
  calls,          \* how many calls the processes have made
  keys            \* presses of each key, and changes of the adapter

switches == <<status, profile, last_charge_type, usb_c,
              last_usb_c_power_priority_option>>

vars == <<task, lock, switches, led, core, work, pending, calls, keys>>

Mutex == Toggle \cup {"charge_type", "usb_c_power_priority", "led_access"}

Idle == [op |-> "none", step |-> "enter", arg |-> Nobody]

(* The values that a process may write to an attribute.                    *)
Args ==
  [op \in Toggle \cup {"charge_types", "usb_c_power_priority", "brightness",
                      "multi_intensity"} |->
     CASE op \in Toggle -> BOOLEAN
       [] op = "charge_types" -> ChargeType
       [] op = "usb_c_power_priority" -> Option
       [] op = "brightness" -> Level
       [] op = "multi_intensity" -> Colour]

At(t, op, step) == task[t].op = op /\ task[t].step = step

Free(m) == lock[m] = Nobody
Take(m, t) == lock' = [lock EXCEPT ![m] = t]
Release(m) == lock' = [lock EXCEPT ![m] = Nobody]

Goes(t, step) == task' = [task EXCEPT ![t].step = step]
Returns(t) == task' = [task EXCEPT ![t] = Idle]

(* A process enters the store function of an attribute.                    *)
Enter(t, op) ==
  /\ task[t].op = "none" /\ calls < MaxCalls
  /\ \E v \in Args[op] :
       task' = [task EXCEPT ![t] = [op |-> op, step |-> "enter", arg |-> v]]
  /\ calls' = calls + 1
  /\ UNCHANGED <<lock, switches, led, core, work, pending, keys>>

-----------------------------------------------------------------------------
(* Switches that can only be flipped: the super key and the fan boost      *)

(* Mutant: without the mutex.                                              *)
ToggleRead_unlocked(t, a) ==
  /\ At(t, a, "enter")
  /\ IF task[t].arg = status[a]
     THEN Returns(t) /\ UNCHANGED lock
     ELSE Goes(t, "flip") /\ Take(a, t)
  /\ UNCHANGED <<switches, led, core, work, pending, calls, keys>>

ToggleRead(t, a) ==
  /\ At(t, a, "enter") /\ Free(a)
  /\ IF task[t].arg = status[a]
     THEN Returns(t) /\ UNCHANGED lock
     ELSE Goes(t, "flip") /\ Take(a, t)
  /\ UNCHANGED <<switches, led, core, work, pending, calls, keys>>

(* Mutant: the mutex is not given back.                                    *)
ToggleFlip_holding(t, a) ==
  /\ At(t, a, "flip")
  /\ status' = [status EXCEPT ![a] = ~@]
  /\ Returns(t)
  /\ UNCHANGED <<lock, profile, last_charge_type, usb_c,
                 last_usb_c_power_priority_option,
                 led, core, work, pending, calls, keys>>

ToggleFlip(t, a) ==
  /\ At(t, a, "flip")
  /\ status' = [status EXCEPT ![a] = ~@]
  /\ Returns(t) /\ Release(a)
  /\ UNCHANGED <<profile, last_charge_type, usb_c,
                 last_usb_c_power_priority_option,
                 led, core, work, pending, calls, keys>>

-----------------------------------------------------------------------------
(* Charge type and USB-C priority: written to the EC, then remembered      *)

ChargeWrite(t) ==
  /\ At(t, "charge_types", "enter") /\ Free("charge_type")
  /\ profile' = task[t].arg
  /\ Goes(t, "remember") /\ Take("charge_type", t)
  /\ UNCHANGED <<status, last_charge_type, usb_c,
                 last_usb_c_power_priority_option,
                 led, core, work, pending, calls, keys>>

ChargeRemember(t) ==
  /\ At(t, "charge_types", "remember")
  /\ last_charge_type' = task[t].arg
  /\ Returns(t) /\ Release("charge_type")
  /\ UNCHANGED <<status, profile, usb_c, last_usb_c_power_priority_option,
                 led, core, work, pending, calls, keys>>

UsbCWrite(t) ==
  /\ At(t, "usb_c_power_priority", "enter") /\ Free("usb_c_power_priority")
  /\ usb_c' = task[t].arg
  /\ Goes(t, "remember") /\ Take("usb_c_power_priority", t)
  /\ UNCHANGED <<status, profile, last_charge_type,
                 last_usb_c_power_priority_option,
                 led, core, work, pending, calls, keys>>

UsbCRemember(t) ==
  /\ At(t, "usb_c_power_priority", "remember")
  /\ last_usb_c_power_priority_option' = task[t].arg
  /\ Returns(t) /\ Release("usb_c_power_priority")
  /\ UNCHANGED <<status, profile, last_charge_type, usb_c,
                 led, core, work, pending, calls, keys>>

-----------------------------------------------------------------------------
(* Handlers of WMI events                                                  *)

(* A handler is called for an event.                                       *)
uniwill_wmi_notify(h, e) ==
  /\ task[h].op = "none" /\ pending[e] > 0
  /\ task' = [task EXCEPT ![h] = [Idle EXCEPT !.op = e]]
  /\ pending' = [pending EXCEPT ![e] = @ - 1]
  /\ UNCHANGED <<lock, switches, led, core, work, calls, keys>>

(* Mutant: the remembered type is written without the mutex.               *)
uniwill_restore_charge_type_unlocked(h) ==
  /\ At(h, "adapter", "enter")
  /\ profile' = last_charge_type
  /\ Goes(h, "usb_c")
  /\ UNCHANGED <<lock, status, last_charge_type, usb_c,
                 last_usb_c_power_priority_option,
                 led, core, work, pending, calls, keys>>

(* One write under the mutex.                                              *)
uniwill_restore_charge_type(h) ==
  /\ At(h, "adapter", "enter") /\ Free("charge_type")
  /\ profile' = last_charge_type
  /\ Goes(h, "usb_c")
  /\ UNCHANGED <<lock, status, last_charge_type, usb_c,
                 last_usb_c_power_priority_option,
                 led, core, work, pending, calls, keys>>

(* The value to restore is looked up before the mutex is taken.            *)
UsbCLookup(h) ==
  /\ At(h, "adapter", "usb_c")
  /\ task' = [task EXCEPT ![h] = [op |-> "adapter", step |-> "restore",
                                  arg |-> last_usb_c_power_priority_option]]
  /\ UNCHANGED <<lock, switches, led, core, work, pending, calls, keys>>

usb_c_power_priority_restore(h) ==
  /\ At(h, "adapter", "restore") /\ Free("usb_c_power_priority")
  /\ usb_c' = task[h].arg
  /\ Returns(h)
  /\ UNCHANGED <<lock, status, profile, last_charge_type,
                 last_usb_c_power_priority_option,
                 led, core, work, pending, calls, keys>>

(* The LED core takes over the level that the EC has.                      *)
KbdRead(h) ==
  /\ At(h, "kbd_led", "enter") /\ Free("led_access")
  /\ task' = [task EXCEPT ![h] = [op |-> "kbd_led", step |-> "sync",
                                  arg |-> led.level]]
  /\ Take("led_access", h)
  /\ UNCHANGED <<switches, led, core, work, pending, calls, keys>>

KbdSync(h) ==
  /\ At(h, "kbd_led", "sync")
  /\ core' = [core EXCEPT !.brightness = task[h].arg]
  /\ Returns(h) /\ Release("led_access")
  /\ UNCHANGED <<switches, led, work, pending, calls, keys>>

-----------------------------------------------------------------------------
(* The LED class device: its stores leave the register writes to a worker  *)

(* Queueing a work that is queued already changes only its level.          *)
Queue(level) == work' = [work EXCEPT !.queued = TRUE, !.delayed = level]

BrightnessStore(t) ==
  /\ At(t, "brightness", "enter") /\ Free("led_access")
  /\ core' = [core EXCEPT !.brightness = task[t].arg]
  /\ Queue(task[t].arg)
  /\ Returns(t)
  /\ UNCHANGED <<lock, switches, led, pending, calls, keys>>

(* The channels are stored one by one.                                     *)
ColourStore(t) ==
  /\ At(t, "multi_intensity", "enter") /\ Free("led_access")
  /\ core' = [core EXCEPT !.intensity[1] = task[t].arg[1]]
  /\ Goes(t, "rest") /\ Take("led_access", t)
  /\ UNCHANGED <<switches, led, work, pending, calls, keys>>

ColourStored(t) ==
  /\ At(t, "multi_intensity", "rest")
  /\ core' = [core EXCEPT !.intensity[2] = task[t].arg[2]]
  /\ Queue(core.brightness)
  /\ Returns(t) /\ Release("led_access")
  /\ UNCHANGED <<switches, led, pending, calls, keys>>

Black == <<0, 0>>

(* uniwill_kbd_led_mc_brightness_set, a step for each access: it looks     *)
(* whether the colour is black, then reads each intensity once more.       *)
WorkBegin ==
  /\ work.step = 0 /\ work.queued
  /\ work' = [work EXCEPT !.queued = FALSE, !.step = 1,
                          !.level = work.delayed,
                          !.min_intensity = IF core.intensity = Black
                                            THEN 1 ELSE 0]
  /\ UNCHANGED <<task, lock, switches, led, core, pending, calls, keys>>

(* Mutant: black is written as it is.                                      *)
WorkChannel_black ==
  /\ work.step \in {1, 2}
  /\ led' = [led EXCEPT !.rgb[work.step] = core.intensity[work.step]]
  /\ work' = [work EXCEPT !.step = @ + 1]
  /\ UNCHANGED <<task, lock, switches, core, pending, calls, keys>>

WorkChannel ==
  /\ work.step \in {1, 2}
  /\ LET intensity == core.intensity[work.step]
     IN led' = [led EXCEPT !.rgb[work.step] =
                  IF intensity < work.min_intensity
                  THEN work.min_intensity ELSE intensity]
  /\ work' = [work EXCEPT !.step = @ + 1]
  /\ UNCHANGED <<task, lock, switches, core, pending, calls, keys>>

(* The EC takes black for the colour of the factory.                       *)
Factory == <<99, 99>>

Shown(rgb) == IF rgb = Black THEN Factory ELSE rgb

WorkApply ==
  /\ work.step = 3
  /\ led' = [led EXCEPT !.shown = Shown(led.rgb)]
  /\ work' = [work EXCEPT !.step = 4]
  /\ UNCHANGED <<task, lock, switches, core, pending, calls, keys>>

WorkLevel ==
  /\ work.step = 4
  /\ led' = [led EXCEPT !.level = work.level]
  /\ work' = [work EXCEPT !.step = 0]
  /\ UNCHANGED <<task, lock, switches, core, pending, calls, keys>>

-----------------------------------------------------------------------------
(* The EC                                                                  *)

Pressed(e) ==
  /\ keys[e] < MaxKeys[e]
  /\ keys' = [keys EXCEPT ![e] = @ + 1]
  /\ pending' = IF e \in Event THEN [pending EXCEPT ![e] = @ + 1] ELSE pending

SwitchKey(a) ==
  /\ Pressed(a)
  /\ status' = [status EXCEPT ![a] = ~@]
  /\ UNCHANGED <<task, lock, profile, last_charge_type, usb_c,
                 last_usb_c_power_priority_option, led, core, work, calls>>

LevelKey(level) ==
  /\ Pressed("kbd_led")
  /\ led' = [led EXCEPT !.level = level]
  /\ UNCHANGED <<task, lock, switches, core, work, calls>>

(* The adapter comes or goes, and the EC forgets.                          *)
Adapter ==
  /\ Pressed("adapter")
  /\ profile' = FactoryType /\ usb_c' = FactoryOption
  /\ UNCHANGED <<task, lock, status, last_charge_type,
                 last_usb_c_power_priority_option, led, core, work, calls>>

-----------------------------------------------------------------------------
Init ==
  /\ task = [t \in Thread |-> Idle]
  /\ lock = [m \in Mutex |-> Nobody]
  /\ status \in [Toggle -> BOOLEAN]
  /\ profile = FactoryType /\ last_charge_type = FactoryType
  /\ usb_c = FactoryOption
  /\ last_usb_c_power_priority_option = FactoryOption
  /\ \E level \in Level, rgb \in Colour \ {Black} :
       /\ led = [level |-> level, rgb |-> rgb, shown |-> rgb]
       /\ core = [brightness |-> level, intensity |-> rgb]
       /\ work = [queued |-> FALSE, step |-> 0, delayed |-> level,
                  level |-> level, min_intensity |-> 0]
  /\ pending = [e \in Event |-> 0]
  /\ calls = 0 /\ keys = [e \in Toggle \cup Event |-> 0]

Process(t) ==
  \/ \E op \in DOMAIN Args : Enter(t, op)
  \/ \E a \in Toggle : ToggleRead(t, a) \/ ToggleFlip(t, a)
  \/ ChargeWrite(t) \/ ChargeRemember(t)
  \/ UsbCWrite(t) \/ UsbCRemember(t)
  \/ BrightnessStore(t) \/ ColourStore(t) \/ ColourStored(t)

Handles(h) ==
  \/ \E e \in Event : uniwill_wmi_notify(h, e)
  \/ uniwill_restore_charge_type(h)
  \/ UsbCLookup(h) \/ usb_c_power_priority_restore(h)
  \/ KbdRead(h) \/ KbdSync(h)

Works == WorkBegin \/ WorkChannel \/ WorkApply \/ WorkLevel

EC ==
  \/ \E a \in Toggle : SwitchKey(a)
  \/ \E level \in Level : LevelKey(level)
  \/ Adapter

Next ==
  \/ \E t \in Caller : Process(t)
  \/ \E h \in Handler : Handles(h)
  \/ Works
  \/ EC

Safety == Init /\ [][Next]_vars

(* The kernel runs every thread that can go on, and mutexes are fair.      *)
Spec ==
  /\ Safety
  /\ \A h \in Handler : WF_vars(Handles(h))
  /\ \A t \in Caller : WF_vars(Process(t))
  /\ WF_vars(Works)

-----------------------------------------------------------------------------
(* Refinement: a write takes effect when it reads the status.              *)

Effective == [a \in Toggle |-> IF Free(a) THEN status[a] ELSE ~status[a]]

Waiting(t) == task[t].op \in Toggle /\ task[t].step = "enter"

Wishes ==
  [t \in Caller |-> IF Waiting(t) THEN [of |-> task[t].op, to |-> task[t].arg]
                    ELSE Nobody]

Switches == INSTANCE Switch WITH
  Switch <- Toggle, None <- Nobody,
  on <- Effective, wish <- Wishes, keys <- [a \in Toggle |-> keys[a]]

-----------------------------------------------------------------------------
(* Properties                                                              *)

Step == {"enter", "flip", "remember", "rest", "usb_c", "restore", "sync"}

(* Every variable holds a value of its kind, and every mutex that is held  *)
(* is held by a thread that is in the middle of its access.                *)
ThreadsTypeOK ==
  /\ \A t \in Thread : task[t].op \in DOMAIN Args \cup Event \cup {"none"}
                       /\ task[t].step \in Step
  /\ \A m \in Mutex : ~Free(m) => /\ lock[m] \in Thread
                                  /\ task[lock[m]].step # "enter"
  /\ status \in [Toggle -> BOOLEAN]
  /\ profile \in ChargeType /\ last_charge_type \in ChargeType
  /\ usb_c \in Option /\ last_usb_c_power_priority_option \in Option
  /\ led.level \in Level /\ core.brightness \in Level
  /\ work.step \in 0..4
  /\ pending \in [Event -> Nat]

(* A write of a switch that can only be flipped ends as it was asked for,  *)
(* or as a key pressed after its read left it, whoever else writes.        *)
ToggleIsAtomic == Switches!Spec

(* While no adapter event is on its way and no process is in the middle of *)
(* a write, the EC charges as the driver remembers.                        *)
ChargeKept ==
  /\ pending["adapter"] = 0 /\ Free("charge_type")
  /\ \A h \in Handler : ~At(h, "adapter", "enter")
  => profile = last_charge_type

(* The same for the USB-C priority: no handler is anywhere in its restore. *)
UsbCKept ==
  /\ pending["adapter"] = 0 /\ Free("usb_c_power_priority")
  /\ \A h \in Handler : task[h].op # "adapter"
  => usb_c = last_usb_c_power_priority_option

(* Once the worker is done the keyboard shows the colour last stored, and  *)
(* black as faint white: never the colour of the factory, nor a mixture of *)
(* two colours that were stored while the worker was reading.              *)
ColourSettles ==
  /\ work.step = 0 /\ ~work.queued
  /\ \A t \in Caller : ~At(t, "multi_intensity", "rest")
  => led.shown = IF core.intensity = Black THEN <<1, 1>> ELSE core.intensity

(* Every adapter event is answered in the end, whatever the processes do,  *)
(* and the LED work is: no thread waits for ever.                          *)
ComesToRest ==
  <>[](/\ profile = last_charge_type
       /\ \A t \in Thread : task[t] = Idle
       /\ pending = [e \in Event |-> 0]
       /\ work.step = 0 /\ ~work.queued)
=============================================================================
