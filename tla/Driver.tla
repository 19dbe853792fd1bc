------------------------------- MODULE Driver -------------------------------
(***************************************************************************)
(* The kernel driver uniwill-laptop: its attributes, its probing and       *)
(* removal, the power adapter events, and suspend and resume.              *)
(*                                                                         *)
(* A call of an attribute and an event handler are one step each, in which *)
(* any one access may fail.  A probe, a suspend and a resume are one step  *)
(* for each function they call, so that keys and events come in between,   *)
(* and what is registered early is used before a probe has ended; user     *)
(* processes are frozen over a suspend.  A write to a LED is queued, and   *)
(* done by a worker in a step of its own.  Mutexes, and what else runs in  *)
(* parallel, are the subject of Threads.                                   *)
(***************************************************************************)
EXTENDS Regmap

CONSTANTS
  Machines,      \* the device descriptors to look at
  StartEC,       \* what the EC may hold when the system starts
  ResetEC,       \* what the EC holds after it lost power
  Values,        \* per setting, the values a user writes
  Unknown,
  MaxRequests, MaxFaults, MaxSleeps, MaxUnloads,   \* bounds of the model,
  MaxSum                                           \* and of their sum

ASSUME MaxAssumption ==
  {MaxRequests, MaxFaults, MaxSleeps, MaxUnloads, MaxSum} \subseteq Nat

(* The driver keeps the charge type and the charge limit in one place, so  *)
(* a machine has at most one of them.                                      *)
ASSUME MachinesAssumption ==
  \A m \in Machines :
    /\ m.fallback \in BOOLEAN /\ m.looks_for_gpu \in BOOLEAN
    /\ m.single \in BOOLEAN
    /\ ~ {"BATTERY_CHARGE_LIMIT", "BATTERY_CHARGE_MODES"} \subseteq m.features

(* What identifies the machine is the same in every content of the EC.     *)
ASSUME EcAssumption ==
  \A ec \in StartEC \cup {ResetEC} :
    /\ ec = [f \in Field \cup {"shown"} |-> ec[f]]
    /\ ec.project = ResetEC.project /\ ec.has_gpu = ResetEC.has_gpu
    /\ ec.usb_c \in {0, 1} /\ ec.profile \in 0..3 /\ ec.rgb \in Nat

(* Before the driver is loaded nobody has taken the EC over, and a colour  *)
(* that a driver can have left is shown.                                   *)
ASSUME StartAssumption ==
  \A ec \in StartEC : /\ ec.manual = 0
                      /\ ec.rgb \in 1..50 => ec.shown = ec.rgb

VARIABLES
  machine,    \* device_descriptor
  features,   \* data->features
  phase,      \* "unloaded", "probing", "on", "suspend", "quiet", "woken", ...
  pc,         \* the functions that probe, suspend or resume has yet to call
  sys,        \* the EC, the register map and struct uniwill_data
  queue,      \* the values that the workers of the LED core have yet to set
  pending,    \* an adapter event is on its way
  lost,       \* what a failed access, or an event nobody heard, left unsure
  requests, faults, sleeps, unloads

vars == <<machine, features, phase, pc, sys, queue, pending, lost,
          requests, faults, sleeps, unloads>>

-----------------------------------------------------------------------------
(* The attributes: what a write does, and what the EC's fields e mean      *)

FeatureOf ==
  [fn_lock |-> "FN_LOCK", super_key_enable |-> "SUPER_KEY",
   touchpad_toggle_enable |-> "TOUCHPAD_TOGGLE",
   rainbow_animation |-> "LIGHTBAR", breathing_in_suspend |-> "LIGHTBAR",
   ctgp_offset |-> "NVIDIA_CTGP_CONTROL",
   usb_c_power_priority |-> "USB_C_POWER_PRIORITY",
   ac_auto_boot |-> "AC_AUTO_BOOT", usb_powershare_high |-> "USB_POWERSHARE",
   fan_boost |-> "FAN_BOOST", platform_profile |-> "FAN_MODE",
   lightbar |-> "LIGHTBAR", kbd_backlight |-> "KEYBOARD_BACKLIGHT",
   charge_types |-> "BATTERY_CHARGE_MODES",
   charge_limit |-> "BATTERY_CHARGE_LIMIT"]

Setting == DOMAIN FeatureOf

ASSUME ValuesAssumption ==
  /\ Values["usb_c_power_priority"] \subseteq {"charging", "performance"}
  /\ Values["charge_types"] \subseteq {"Standard", "LongLife", "Trickle"}
  /\ Values["kbd_backlight"] \subseteq Nat \X Nat

Supports(f) == f \in features

Clamp(v, low, high) == Smaller(Larger(v, low), high)

write_fn_lock(s, v) == UpdateBits(s, "BIOS_OEM", [fn_lock |-> v])

fn_lock_show(e) == e["fn_lock"]

(* The lock can only be flipped, so its state is read first.               *)
write_super_key_enable(s, v) ==
  LET got == Read(s, "SWITCH_STATUS")
  IN IF got.ok /\ v # 1 - Seen(got, "super_lock")
     THEN WriteBits(got, "TRIGGER", [super_flip |-> 1]) ELSE got

super_key_enable_show(e) == 1 - e["super_lock"]

write_touchpad_toggle_enable(s, v) ==
  UpdateBits(s, "OEM_4", [touchpad_off |-> 1 - v])

touchpad_toggle_enable_show(e) == 1 - e["touchpad_off"]

(* Mutant: the registers for battery are forgotten.                        *)
rainbow_animation_store_ac(s, v) ==
  UpdateBits(s, "LIGHTBAR_AC", [ac_rainbow |-> v])

(* The EC has one set of lightbar registers for AC and one for battery.    *)
rainbow_animation_store(s, v) ==
  UpdateBits(UpdateBits(s, "LIGHTBAR_AC", [ac_rainbow |-> v]),
             "LIGHTBAR_BAT", [bat_rainbow |-> v])

rainbow_animation_show(e) == e["ac_rainbow"]

breathing_in_suspend_store(s, v) ==
  UpdateBits(s, "LIGHTBAR_AC", [ac_still |-> 1 - v])

breathing_in_suspend_show(e) == 1 - e["ac_still"]

ctgp_offset_store(s, v) == Write(s, "CTGP_OFFSET", [ctgp_offset |-> v])

ctgp_offset_show(e) == e["ctgp_offset"]

usb_c_power_priority_value == [charging |-> 0, performance |-> 1]

usb_c_power_priority_store(s, v) ==
  LET done == UpdateBits(s, "USB_C",
                         [usb_c |-> usb_c_power_priority_value[v]])
  IN IF done.ok THEN [done EXCEPT !.last.usb_c = v] ELSE done

usb_c_power_priority_show(e) ==
  IF e["usb_c"] = 1 THEN "performance" ELSE "charging"

usb_c_power_priority_restore(s) ==
  UpdateBits(s, "USB_C",
             [usb_c |-> usb_c_power_priority_value[s.last.usb_c]])

ac_auto_boot_store(s, v) == UpdateBits(s, "OEM_9", [ac_auto_boot |-> v])

ac_auto_boot_show(e) == e["ac_auto_boot"]

write_usb_powershare_high(s, v) ==
  UpdateBits(s, "TRIGGER", [usb_charging |-> v])

usb_powershare_high_show(e) == e["usb_charging"]

write_fan_boost(s, v) ==
  LET got == Read(s, "SWITCH_STATUS")
  IN IF got.ok /\ v # Seen(got, "boost")
     THEN WriteBits(got, "TRIGGER", [boost_flip |-> 1]) ELSE got

fan_boost_show(e) == e["boost"]

platform_profile_set(s, v) ==
  UpdateBits(s, "FAN_CTRL", [turbo |-> IF v = "performance" THEN 1 ELSE 0])

platform_profile_get(e) ==
  IF e["turbo"] = 1 THEN "performance" ELSE "balanced"

(* The value is the brightest channel, already scaled with the brightness. *)
led_brightness_set(s, v) ==
  LET level == Smaller(v, machine.lightbar_max)
      off == IF v = 0 THEN 1 ELSE 0
      coloured == Write(Write(s, "LIGHTBAR_AC_RGB", [ac_rgb |-> level]),
                        "LIGHTBAR_BAT_RGB", [bat_rgb |-> level])
  IN UpdateBits(UpdateBits(coloured, "LIGHTBAR_AC", [ac_off |-> off]),
                "LIGHTBAR_BAT", [bat_off |-> off])

kbd_led_write_brightness(s, level) ==
  WriteBits(s, "KBD_STATUS",
            [kbd_level |-> level, kbd_apply |-> 1, kbd_off |-> 0])

kbd_led_read_brightness(e) == Smaller(e["kbd_level"], machine.kbd_max)

(* A value is the level and the colour; black would bring back the colour  *)
(* of the factory, so it is written as faint white.                        *)
kbd_led_mc_brightness_set(s, v) ==
  LET coloured == Write(s, "RGB", [rgb |-> Clamp(v[2], 1, 50)])
      applied == WriteBits(coloured, "TRIGGER", [apply_rgb |-> 1])
  IN kbd_led_write_brightness(applied, v[1])

kbd_led_brightness_set(s, v) ==
  IF machine.single THEN kbd_led_write_brightness(s, v[1])
  ELSE kbd_led_mc_brightness_set(s, v)

sanitize_battery_threshold(v) == IF v = 0 THEN 100 ELSE Smaller(v, 100)

(* The charging profile of the EC for each charge type.                    *)
ChargingProfile == [Standard |-> 0, LongLife |-> 1, Trickle |-> 2]

write_charge_type(s, v) ==
  UpdateBits(s, "OEM_4", [profile |-> ChargingProfile[v]])

read_charge_type(e) ==
  CHOOSE t \in DOMAIN ChargingProfile : ChargingProfile[t] = e["profile"]

set_charge_type(s, v) ==
  LET done == write_charge_type(s, v)
  IN IF done.ok THEN [done EXCEPT !.last.charge = v] ELSE done

restore_charge_type(s) == write_charge_type(s, s.last.charge)

set_charge_limit(s, v) ==
  UpdateBits(s, "CHARGE_CTRL", [charge_ctrl |-> Larger(v, 1)])

StoreOf(s, a, v) ==
  CASE a = "fn_lock" -> write_fn_lock(s, v)
    [] a = "super_key_enable" -> write_super_key_enable(s, v)
    [] a = "touchpad_toggle_enable" -> write_touchpad_toggle_enable(s, v)
    [] a = "rainbow_animation" -> rainbow_animation_store(s, v)
    [] a = "breathing_in_suspend" -> breathing_in_suspend_store(s, v)
    [] a = "ctgp_offset" -> ctgp_offset_store(s, v)
    [] a = "usb_c_power_priority" -> usb_c_power_priority_store(s, v)
    [] a = "ac_auto_boot" -> ac_auto_boot_store(s, v)
    [] a = "usb_powershare_high" -> write_usb_powershare_high(s, v)
    [] a = "fan_boost" -> write_fan_boost(s, v)
    [] a = "platform_profile" -> platform_profile_set(s, v)
    [] a = "lightbar" -> led_brightness_set(s, v)
    [] a = "kbd_backlight" -> kbd_led_brightness_set(s, v)
    [] a = "charge_types" -> set_charge_type(s, v)
    [] a = "charge_limit" -> set_charge_limit(s, v)

(* What the attribute a shows where the fields are those of e.             *)
Shown(a, e) ==
  CASE a = "fn_lock" -> fn_lock_show(e)
    [] a = "super_key_enable" -> super_key_enable_show(e)
    [] a = "touchpad_toggle_enable" -> touchpad_toggle_enable_show(e)
    [] a = "rainbow_animation" -> rainbow_animation_show(e)
    [] a = "breathing_in_suspend" -> breathing_in_suspend_show(e)
    [] a = "ctgp_offset" -> ctgp_offset_show(e)
    [] a = "usb_c_power_priority" -> usb_c_power_priority_show(e)
    [] a = "ac_auto_boot" -> ac_auto_boot_show(e)
    [] a = "usb_powershare_high" -> usb_powershare_high_show(e)
    [] a = "fan_boost" -> fan_boost_show(e)
    [] a = "platform_profile" -> platform_profile_get(e)
    [] a = "lightbar" -> e["ac_rgb"]
    [] a = "kbd_backlight" ->
         <<kbd_led_read_brightness(e), IF machine.single THEN 0 ELSE e["rgb"]>>
    [] a = "charge_types" -> read_charge_type(e)
    [] a = "charge_limit" -> sanitize_battery_threshold(e["charge_ctrl"])

(* What the hwmon device shows of a sensor: temperatures in thousandths of *)
(* a degree, pwm from 0 to 255 where the EC counts to 200.                 *)
SensorFeature ==
  [cpu_temp |-> "CPU_TEMP", fan_rpm |-> "PRIMARY_FAN", pwm |-> "PRIMARY_FAN"]

uniwill_read(s, sensor) ==
  LET value == Seen(s, sensor)
  IN CASE sensor = "cpu_temp" -> value * 1000
       [] sensor = "fan_rpm" -> value
       [] sensor = "pwm" -> (value * 255) \div 200

(* What the attribute shows after v was written to it.                     *)
Accepted(a, v) ==
  CASE a = "lightbar" -> Smaller(v, machine.lightbar_max)
    [] a = "kbd_backlight" ->
         <<v[1], IF machine.single THEN 0 ELSE Clamp(v[2], 1, 50)>>
    [] a = "charge_limit" -> Larger(v, 1)
    [] OTHER -> v

-----------------------------------------------------------------------------
(* Probing                                                                 *)

uniwill_ec_init(s) ==
  UpdateBits(Read(s, "PROJECT_ID"), "AP_OEM", [manual |-> 1])

(* Mutant: the EC stays in manual mode.                                    *)
disable_manual_control_never(s) == s

uniwill_disable_manual_control(s) ==
  UpdateBits(s, "AP_OEM", [manual |-> 0])

(* One descriptor leaves it to its probe to find a dedicated GPU.          *)
phxarx1_phxaqf1_probe(s) ==
  IF machine.looks_for_gpu THEN Read(s, "SYSTEM_ID") ELSE s

FeaturesAfter(s) ==
  machine.features \cup
    IF machine.looks_for_gpu /\ s.ok /\ Seen(s, "has_gpu") = 1
    THEN {"NVIDIA_CTGP_CONTROL"} ELSE {}

uniwill_battery_init(s, fs) ==
  IF "BATTERY_CHARGE_LIMIT" \in fs
  THEN LET got == Read(s, "CHARGE_CTRL")
           sane == sanitize_battery_threshold(Seen(got, "charge_ctrl"))
       IN IF Seen(got, "charge_ctrl") = sane THEN got
          ELSE Write(got, "CHARGE_CTRL", [charge_ctrl |-> sane])
  ELSE IF "BATTERY_CHARGE_MODES" \in fs
  THEN LET got == Read(s, "OEM_4")
       IN CASE ~got.ok -> got
            [] got.ok /\ Seen(got, "profile") = 3 -> [got EXCEPT !.ok = FALSE]
            [] OTHER -> [got EXCEPT !.last.charge =
                 read_charge_type([profile |-> Seen(got, "profile")])]
  ELSE s

(* The settings for battery are made the same as those for AC, except that *)
(* there is no breathing animation on battery.                             *)
uniwill_led_init(s, fs) ==
  LET got == Read(s, "LIGHTBAR_AC")
      claimed == Write(got, "LIGHTBAR_AC",
                       Merged(got, "LIGHTBAR_AC", [ac_app |-> 1]))
      same == UpdateBits(claimed, "LIGHTBAR_BAT",
                [bat_app |-> 1, bat_still |-> 1,
                 bat_off |-> Seen(got, "ac_off"),
                 bat_rainbow |-> Seen(got, "ac_rainbow")])
      colour == Read(same, "LIGHTBAR_AC_RGB")
      level == Smaller(Seen(colour, "ac_rgb"), machine.lightbar_max)
  IN IF "LIGHTBAR" \notin fs THEN s
     ELSE Write(Write(colour, "LIGHTBAR_AC_RGB", [ac_rgb |-> level]),
                "LIGHTBAR_BAT_RGB", [bat_rgb |-> level])

(* The colour that the EC holds is brought into range; black and a changed *)
(* colour have to be applied.                                              *)
uniwill_rgb_kbd_led_init(s) ==
  LET got == Read(s, "RGB")
      value == Clamp(Seen(got, "rgb"), 1, 50)
  IN IF Seen(got, "rgb") = value THEN got
     ELSE WriteBits(Write(got, "RGB", [rgb |-> value]),
                    "TRIGGER", [apply_rgb |-> 1])

uniwill_kbd_led_init(s, fs) ==
  LET china == Read(s, "SUPPORT_2")
      mode == IF Seen(china, "china_mode") = 1 THEN china
              ELSE UpdateBits(china, "BIOS_OEM_2", [china_on |-> 1])
      got == Read(mode, "KBD_STATUS")
      lit == Write(got, "KBD_STATUS",
                   Merged(got, "KBD_STATUS", [kbd_apply |-> 1, kbd_off |-> 0]))
  IN IF "KEYBOARD_BACKLIGHT" \notin fs THEN s
     ELSE IF machine.single THEN lit
     ELSE uniwill_rgb_kbd_led_init(lit)

uniwill_nvidia_ctgp_init(s, fs) ==
  IF "NVIDIA_CTGP_CONTROL" \notin fs THEN s
  ELSE UpdateBits(Write(Write(Write(s, "CTGP_OFFSET", [ctgp_offset |-> 0]),
                              "TPP_OFFSET", [tpp_offset |-> 255]),
                        "DB_OFFSET", [db_offset |-> 25]),
                  "CTGP_CTRL", [ctgp_general |-> 1, ctgp_on |-> 1])

usb_c_power_priority_init(s, fs) ==
  LET got == Read(s, "USB_C")
  IN IF "USB_C_POWER_PRIORITY" \notin fs THEN s
     ELSE IF ~got.ok THEN got
     ELSE [got EXCEPT !.last.usb_c =
             usb_c_power_priority_show([usb_c |-> Seen(got, "usb_c")])]

(* What devm undoes: the LED core switches the registered LEDs off, and    *)
(* manual control ends.  Errors are of no consequence here.                *)
Release(s, fs, kbd, lightbar, manual) ==
  LET Again(t) == [t EXCEPT !.ok = TRUE]
      dark == IF kbd /\ "KEYBOARD_BACKLIGHT" \in fs
              THEN kbd_led_brightness_set(Again(s), <<0, Seen(s, "rgb")>>)
              ELSE s
      unlit == IF lightbar /\ "LIGHTBAR" \in fs
               THEN led_brightness_set(Again(dark), 0) ELSE dark
  IN IF manual THEN uniwill_disable_manual_control(Again(unlit)) ELSE unlit

(* The driver starts with an empty cache and without the mailbox.          *)
Fresh(s) ==
  [s EXCEPT !.cache = [f \in {} |-> 0], !.cache_only = FALSE,
            !.dirty = FALSE, !.use_wmi = FALSE,
            !.last = [fn_lock |-> 0, super_key |-> 0, touchpad |-> 0,
                      charge |-> 0, kbd |-> <<0, 0>>, powershare |-> 0,
                      usb_c |-> "charging"]]

(* The functions that uniwill_probe calls.                                 *)
ProbeCalls ==
  [ec |-> 1, device |-> 2, battery |-> 3, led |-> 4, kbd_led |-> 5,
   hwmon |-> 6, platform_profile |-> 7, ctgp |-> 8, usb_c |-> 9, input |-> 10]

(* What they ask of the EC: the last of them and two others ask nothing.   *)
ProbeCall(s, c) ==
  CASE c = "ec" ->
         uniwill_ec_init(uniwill_ec_check_transport(s, machine.fallback))
    [] c = "device" -> phxarx1_phxaqf1_probe(s)
    [] c = "battery" -> uniwill_battery_init(s, features)
    [] c = "led" -> uniwill_led_init(s, features)
    [] c = "kbd_led" -> uniwill_kbd_led_init(s, features)
    [] c = "ctgp" -> uniwill_nvidia_ctgp_init(s, features)
    [] c = "usb_c" -> usb_c_power_priority_init(s, features)
    [] OTHER -> s

(* The features for which a function registers something with the kernel.  *)
RegisteredFor ==
  [battery |-> {"BATTERY_CHARGE_LIMIT", "BATTERY_CHARGE_MODES"},
   led |-> {"LIGHTBAR"}, kbd_led |-> {"KEYBOARD_BACKLIGHT"},
   hwmon |-> {"CPU_TEMP", "GPU_TEMP", "PRIMARY_FAN", "SECONDARY_FAN"},
   platform_profile |-> {"FAN_MODE"}]

Registers(c) ==
  \/ c \in {"ec", "input"}
  \/ c \in DOMAIN RegisteredFor /\ RegisteredFor[c] \cap features # {}

(* It does so after its accesses, and that may fail like one of them.      *)
Registered(s, c) ==
  IF s.ok /\ Registers(c) THEN uniwill_ec_reg_read(s) ELSE s

-----------------------------------------------------------------------------
(* Suspend and resume                                                      *)

(* The functions that uniwill_suspend and uniwill_resume call, and when.   *)
SuspendCalls ==
  [fn_lock |-> 1, super_key |-> 2, touchpad |-> 3, battery |-> 4,
   kbd_led |-> 5, powershare |-> 6, ctgp |-> 7]

ResumeCalls ==
  [transport |-> 1, sync |-> 2, fn_lock |-> 3, super_key |-> 4,
   touchpad |-> 5, battery |-> 6, kbd_led |-> 7, powershare |-> 8,
   ctgp |-> 9, usb_c |-> 10]

SuspendNeeds ==
  [fn_lock |-> "FN_LOCK", super_key |-> "SUPER_KEY",
   touchpad |-> "TOUCHPAD_TOGGLE", battery |-> "BATTERY_CHARGE_LIMIT",
   kbd_led |-> "KEYBOARD_BACKLIGHT", powershare |-> "USB_POWERSHARE",
   ctgp |-> "NVIDIA_CTGP_CONTROL"]

(* A function whose feature the machine lacks returns at once: it is left  *)
(* out of the calls.                                                       *)
Suspends(c) == Supports(SuspendNeeds[c])

Resumes(c) ==
  CASE c \in {"transport", "sync"} -> TRUE
    [] c = "usb_c" -> Supports("USB_C_POWER_PRIORITY")
    [] c = "battery" -> Suspends(c) \/ Supports("BATTERY_CHARGE_MODES")
    [] OTHER -> Suspends(c)

Saved(s, r, field, value) ==
  LET got == Read(s, r)
  IN IF got.ok THEN [got EXCEPT !.last[field] = value] ELSE got

suspend_fn_lock(s) ==
  Saved(s, "BIOS_OEM", "fn_lock", fn_lock_show([fn_lock |-> OnWire(s, "fn_lock")]))

suspend_super_key(s) ==
  Saved(s, "SWITCH_STATUS", "super_key", 1 - OnWire(s, "super_lock"))

suspend_touchpad_toggle(s) ==
  Saved(s, "OEM_4", "touchpad", 1 - OnWire(s, "touchpad_off"))

suspend_battery(s) ==
  Saved(s, "CHARGE_CTRL", "charge", OnWire(s, "charge_ctrl"))

(* Mutant: switched off first, saved afterwards.                           *)
suspend_kbd_led_swapped(s) ==
  LET dark == Write(s, "KBD_STATUS",
                    [kbd_level |-> 0, kbd_apply |-> 1, kbd_off |-> 1])
  IN Saved(dark, "KBD_STATUS", "kbd",
           <<OnWire(dark, "kbd_level"), OnWire(dark, "kbd_off")>>)

(* The status is kept and the backlight switched off.                      *)
suspend_kbd_led(s) ==
  LET got == Saved(s, "KBD_STATUS", "kbd",
                   <<OnWire(s, "kbd_level"), OnWire(s, "kbd_off")>>)
  IN Write(got, "KBD_STATUS",
           [kbd_level |-> 0, kbd_apply |-> 1, kbd_off |-> 1])

suspend_usb_powershare(s) ==
  Saved(s, "TRIGGER", "powershare", OnWire(s, "usb_charging"))

suspend_nvidia_ctgp(s) == UpdateBits(s, "CTGP_CTRL", [ctgp_on |-> 0])

SuspendCall(s, c) ==
  CASE c = "fn_lock" -> suspend_fn_lock(s)
    [] c = "super_key" -> suspend_super_key(s)
    [] c = "touchpad" -> suspend_touchpad_toggle(s)
    [] c = "battery" -> suspend_battery(s)
    [] c = "kbd_led" -> suspend_kbd_led(s)
    [] c = "powershare" -> suspend_usb_powershare(s)
    [] c = "ctgp" -> suspend_nvidia_ctgp(s)

resume_fn_lock(s) == write_fn_lock(s, s.last.fn_lock)

resume_super_key(s) == write_super_key_enable(s, s.last.super_key)

resume_touchpad_toggle(s) == write_touchpad_toggle_enable(s, s.last.touchpad)

resume_battery(s) ==
  IF Supports("BATTERY_CHARGE_MODES") THEN restore_charge_type(s)
  ELSE UpdateBits(s, "CHARGE_CTRL", [charge_ctrl |-> s.last.charge])

(* Mutant: the restored colour is not applied.                             *)
resume_kbd_led_level_only(s) ==
  Write(s, "KBD_STATUS",
        [kbd_level |-> s.last.kbd[1], kbd_off |-> s.last.kbd[2],
         kbd_apply |-> 1])

resume_kbd_led(s) ==
  LET lit == Write(s, "KBD_STATUS",
                   [kbd_level |-> s.last.kbd[1], kbd_off |-> s.last.kbd[2],
                    kbd_apply |-> 1])
  IN IF machine.single THEN lit
     ELSE WriteBits(lit, "TRIGGER", [apply_rgb |-> 1])

resume_usb_powershare(s) == write_usb_powershare_high(s, s.last.powershare)

(* Mutant: the boost is left as the suspend set it.                        *)
resume_nvidia_ctgp_never(s) == s

resume_nvidia_ctgp(s) == UpdateBits(s, "CTGP_CTRL", [ctgp_on |-> 1])

ResumeCall(s, c) ==
  CASE c = "transport" -> uniwill_ec_check_transport(s, machine.fallback)
    [] c = "sync" -> regcache_sync(s)
    [] c = "fn_lock" -> resume_fn_lock(s)
    [] c = "super_key" -> resume_super_key(s)
    [] c = "touchpad" -> resume_touchpad_toggle(s)
    [] c = "battery" -> resume_battery(s)
    [] c = "kbd_led" -> resume_kbd_led(s)
    [] c = "powershare" -> resume_usb_powershare(s)
    [] c = "ctgp" -> resume_nvidia_ctgp(s)
    [] c = "usb_c" -> usb_c_power_priority_restore(s)

-----------------------------------------------------------------------------
(* Power adapter events                                                    *)

(* Mutant: only the charge type is written again.                          *)
notifier_call_charge_only(s) ==
  IF Supports("BATTERY_CHARGE_MODES") THEN restore_charge_type(s) ELSE s

uniwill_notifier_call(s) ==
  LET charged == IF Supports("BATTERY_CHARGE_MODES")
                 THEN restore_charge_type(s) ELSE s
  IN IF Supports("USB_C_POWER_PRIORITY") /\ charged.ok
     THEN usb_c_power_priority_restore(charged) ELSE charged

-----------------------------------------------------------------------------
(* Actions                                                                 *)

Bound == phase # "unloaded"

May(count, max) ==
  count < max /\ requests + faults + sleeps + unloads < MaxSum

(* The first of the functions that are left.                               *)
Due(calls) == {c \in pc : \A d \in pc : calls[c] <= calls[d]}

(* Any one of the first k accesses may fail, or none.                      *)
Fuses(k) == IF May(faults, MaxFaults) THEN 0..k ELSE {0}

Armed(n) == [sys EXCEPT !.fuse = n]

(* The handler ends in s; n names the access that has failed, if any.      *)
Ends(n, s) ==
  /\ n > 0 => s.fuse = 0
  /\ sys' = [s EXCEPT !.ok = TRUE, !.fuse = 0]
  /\ faults' = faults + Smaller(n, 1)

(* A failed write of one volatile register changes nothing.                *)
Atomic ==
  {"fn_lock", "super_key_enable", "touchpad_toggle_enable",
   "usb_c_power_priority", "usb_powershare_high", "fan_boost",
   "platform_profile", "charge_types", "charge_limit"}

Probe ==
  /\ ~Bound
  /\ phase' = "probing" /\ pc' = DOMAIN ProbeCalls
  /\ features' = machine.features
  /\ sys' = Fresh(sys)
  /\ UNCHANGED <<machine, queue, pending, lost, requests, faults, sleeps,
                 unloads>>

NoWork == [led \in {} |-> 0]

ProbeWorks(n, c, done) ==
  /\ Ends(n, done)
  /\ pc' = pc \ {c}
  /\ phase' = IF pc' = {} THEN "on" ELSE "probing"
  /\ features' = IF c = "device" THEN FeaturesAfter(done) ELSE features
  /\ lost' = IF c = "ec" THEN lost \ {"manual"} ELSE lost
  /\ UNCHANGED queue

(* What the calls before c have registered is undone, and of the call c    *)
(* itself what it did before it failed: at entered, manual control is on.  *)
(* Of no access is it known to fail then if one has failed already.        *)
ProbeFails(n, done, entered) ==
  /\ Ends(n, Release(done, features, "kbd_led" \notin pc, "led" \notin pc,
                     entered))
  /\ pc' = {} /\ phase' = "unloaded"
  /\ features' = {} /\ queue' = NoWork
  /\ lost' = (lost \cap {"manual"}) \cup {"colour"} \cup
                (IF done.fuse = 0 THEN {} ELSE {"manual"})

ProbeStep ==
  /\ phase = "probing"
  /\ \E c \in Due(ProbeCalls), n \in Fuses(12) :
       LET tried == ProbeCall(Armed(n), c)
           done == Registered(tried, c)
       IN IF done.ok THEN ProbeWorks(n, c, done)
          ELSE ProbeFails(n, done, "ec" \notin pc \/ tried.ok)
  /\ UNCHANGED <<machine, pending, requests, sleeps, unloads>>

(* The attributes that a call of the probe registers; the others are the   *)
(* driver core's to offer once the probe has ended.                        *)
RegisteredBy ==
  [charge_types |-> "battery", charge_limit |-> "battery", lightbar |-> "led",
   kbd_backlight |-> "kbd_led", platform_profile |-> "platform_profile"]

Offered(a) ==
  /\ Supports(FeatureOf[a])
  /\ \/ phase = "on"
     \/ phase = "probing" /\ a \in DOMAIN RegisteredBy /\ RegisteredBy[a] \notin pc

(* The driver's function for the attribute a is called with v.             *)
Sets(a, v) ==
  \E n \in Fuses(8) :
    LET done == StoreOf(Armed(n), a, v)
    IN /\ Ends(n, done)
       /\ lost' = IF done.ok \/ a \in Atomic THEN lost
                  ELSE lost \cup {a} \cup
                    (IF a \in {"rainbow_animation", "lightbar"}
                     THEN {"uneven"} ELSE {})

Led == {"lightbar", "kbd_backlight"}

(* A process writes v to the attribute a.  The LED core queues the value   *)
(* and returns, a later one takes the place of an earlier one.             *)
Store(a, v) ==
  /\ Offered(a) /\ May(requests, MaxRequests)
  /\ IF a \in Led
     THEN queue' = Over([led \in {a} |-> v], queue) /\ UNCHANGED <<sys, lost, faults>>
     ELSE Sets(a, v) /\ UNCHANGED queue
  /\ requests' = requests + 1
  /\ UNCHANGED <<machine, features, phase, pc, pending, sleeps, unloads>>

(* The worker of a LED; nobody learns of its errors.                       *)
LedWork(a) ==
  /\ a \in DOMAIN queue
  /\ Sets(a, queue[a])
  /\ queue' = [led \in DOMAIN queue \ {a} |-> queue[led]]
  /\ UNCHANGED <<machine, features, phase, pc, pending, requests, sleeps,
                 unloads>>

(* A process reads an attribute of a cached register.                      *)
Show ==
  /\ phase = "on" /\ Supports("AC_AUTO_BOOT") /\ May(requests, MaxRequests)
  /\ \E n \in Fuses(1) : Ends(n, Read(Armed(n), "OEM_9"))
  /\ requests' = requests + 1
  /\ UNCHANGED <<machine, features, phase, pc, queue, pending, lost, sleeps,
                 unloads>>

(* The EC handles a key by itself.                                         *)
HotKey(a) ==
  /\ FeatureOf[a] \in machine.features /\ May(requests, MaxRequests)
  /\ \E level \in {0, machine.kbd_max} :
       LET ec == sys.ec
           pressed ==
             CASE a = "fn_lock" -> [ec EXCEPT !.fn_lock = 1 - @]
               [] a = "super_key_enable" -> [ec EXCEPT !.super_lock = 1 - @]
               [] a = "kbd_backlight" ->
                    [ec EXCEPT !.kbd_level = level, !.kbd_off = 0]
       IN sys' = [sys EXCEPT !.ec = pressed]
  /\ requests' = requests + 1
  /\ UNCHANGED <<machine, features, phase, pc, queue, pending, lost, faults,
                 sleeps, unloads>>

(* The power adapter changes: the EC forgets the charge type and the USB-C *)
(* priority and sends an event.  Where the driver offers neither, nothing  *)
(* follows from it.                                                        *)
Plug ==
  /\ {"BATTERY_CHARGE_MODES", "USB_C_POWER_PRIORITY"} \cap machine.features # {}
  /\ sys' = [sys EXCEPT !.ec.profile = ResetEC.profile,
                        !.ec.usb_c = ResetEC.usb_c]
  /\ pending' = TRUE
  /\ UNCHANGED <<machine, features, phase, pc, queue, lost, requests, faults,
                 sleeps, unloads>>

(* The notifier is registered by the last call of the probe.               *)
Listening == phase \notin {"unloaded", "probing"}

(* The probe has taken a copy of what the EC forgets with the adapter.     *)
Copied ==
  \/ Supports("BATTERY_CHARGE_MODES") /\ "battery" \notin pc
  \/ Supports("USB_C_POWER_PRIORITY") /\ "usb_c" \notin pc

(* The event reaches the notifier chain.  Nobody hears it while the driver *)
(* is not in the chain, and nobody repeats a handler that has failed: what *)
(* was copied is then not in force until a resume or another event.        *)
Notify ==
  /\ pending
  /\ pending' = FALSE
  /\ \E n \in Fuses(4) :
       LET done == IF Listening THEN uniwill_notifier_call(Armed(n)) ELSE Armed(n)
       IN /\ Ends(n, done)
          /\ lost' = CASE Listening /\ done.ok -> lost \ {"adapter"}
                       [] Listening /\ ~done.ok -> lost \cup {"adapter"}
                       [] phase = "probing" /\ Copied -> lost \cup {"adapter"}
                       [] OTHER -> lost
  /\ UNCHANGED <<machine, features, phase, pc, queue, requests, sleeps, unloads>>

(* Queued work has been done: it takes no process to be woken up for, and  *)
(* the processes that queue it are frozen before any device is suspended.  *)
Suspend ==
  /\ phase = "on" /\ DOMAIN queue = {}
  /\ phase' = "suspend"
  /\ pc' = {c \in DOMAIN SuspendCalls : Suspends(c)}
  /\ UNCHANGED <<machine, features, sys, queue, pending, lost, requests,
                 faults, sleeps, unloads>>

(* If a function fails the suspend is given up, and the kernel does not    *)
(* call the resume of the device that failed.                              *)
SuspendStep ==
  /\ phase = "suspend"
  /\ \E c \in Due(SuspendCalls), n \in Fuses(3) :
       LET done == SuspendCall(Armed(n), c)
       IN /\ Ends(n, done)
          /\ pc' = IF done.ok THEN pc \ {c} ELSE {}
          /\ phase' = IF done.ok THEN "suspend" ELSE "on"
          /\ lost' = IF done.ok THEN lost
                     ELSE lost \cup (IF c = "ctgp" THEN {"ctgp"} ELSE {})
                       \cup (IF "kbd_led" \in pc THEN {}
                             ELSE {"kbd_backlight"})
  /\ UNCHANGED <<machine, features, queue, pending, requests, sleeps,
                 unloads>>

(* Mutant: the cache is not marked dirty.                                  *)
SuspendDone_clean ==
  /\ phase = "suspend" /\ pc = {}
  /\ phase' = "quiet"
  /\ sys' = [sys EXCEPT !.cache_only = TRUE]
  /\ UNCHANGED <<machine, features, pc, queue, pending, lost, requests,
                 faults, sleeps, unloads>>

SuspendDone ==
  /\ phase = "suspend" /\ pc = {}
  /\ phase' = "quiet"
  /\ sys' = [sys EXCEPT !.cache_only = TRUE, !.dirty = TRUE]
  /\ UNCHANGED <<machine, features, pc, queue, pending, lost, requests,
                 faults, sleeps, unloads>>

(* While asleep the EC may forget all its settings, and a machine whose    *)
(* descriptor has the fallback may lose the memory window.                 *)
Sleep ==
  /\ phase = "quiet" /\ May(sleeps, MaxSleeps)
  /\ phase' = "woken"
  /\ sleeps' = sleeps + 1
  /\ \E ec \in {sys.ec, ResetEC},
        window \in {sys.window} \cup (IF machine.fallback THEN {FALSE} ELSE {}) :
       sys' = [sys EXCEPT !.ec = ec, !.window = window]
  /\ UNCHANGED <<machine, features, pc, queue, pending, lost, requests, faults,
                 unloads>>

(* Mutant: the register map goes on serving from the cache only.           *)
Resume_cache_only ==
  /\ phase \in {"quiet", "woken"}
  /\ phase' = "resume"
  /\ pc' = {c \in DOMAIN ResumeCalls : Resumes(c)}
  /\ UNCHANGED <<machine, features, sys, queue, pending, lost, requests,
                 faults, sleeps, unloads>>

Resume ==
  /\ phase \in {"quiet", "woken"}
  /\ phase' = "resume"
  /\ pc' = {c \in DOMAIN ResumeCalls : Resumes(c)}
  /\ sys' = [sys EXCEPT !.cache_only = FALSE]
  /\ lost' = lost \ {"adapter"}
  /\ UNCHANGED <<machine, features, queue, pending, requests, faults, sleeps,
                 unloads>>

Everything == Setting \cup {"manual", "ctgp", "colour"}

(* A lightbar left uneven stays so until the driver is loaded again, and   *)
(* an adapter event may be lost after the resume has begun.                *)
Mended == lost \cap {"uneven", "adapter"}

ResumeStep ==
  /\ phase = "resume"
  /\ \E c \in Due(ResumeCalls), n \in Fuses(12) :
       LET done == ResumeCall(Armed(n), c)
       IN /\ Ends(n, done)
          /\ pc' = IF done.ok THEN pc \ {c} ELSE {}
          /\ phase' = IF pc' = {} THEN "on" ELSE "resume"
          /\ lost' = CASE ~done.ok -> Mended \cup Everything
                       [] done.ok /\ pc' = {} -> Mended
                       [] OTHER -> lost
  /\ UNCHANGED <<machine, features, queue, pending, requests, sleeps,
                 unloads>>

(* The driver is unbound, or the system shut down, which only ends manual  *)
(* control.  Switching a LED off takes the place of what is queued for it. *)
Unload(shutdown) ==
  /\ phase = "on" /\ May(unloads, MaxUnloads)
  /\ \E n \in Fuses(12) :
       LET done == Release(Armed(n), features, ~shutdown, ~shutdown, TRUE)
       IN /\ Ends(n, done)
          /\ lost' = CASE n > 0 -> {"manual", "colour"}
                       [] n = 0 /\ lost # Mended -> {"colour"} \cup (lost \cap {"manual"})
                       [] OTHER -> {}
  /\ phase' = "unloaded" /\ features' = {} /\ queue' = NoWork
  /\ unloads' = unloads + 1
  /\ UNCHANGED <<machine, pc, pending, requests, sleeps>>

uniwill_init ==
  /\ machine \in Machines
  /\ features = {}
  /\ phase = "unloaded" /\ pc = {}
  /\ \E ec \in StartEC,
        window \in {TRUE} \cup (IF machine.fallback THEN {FALSE} ELSE {}) :
       sys = Fresh([ec |-> ec, window |-> window, ok |-> TRUE, fuse |-> 0,
                    cache |-> <<>>, cache_only |-> FALSE, dirty |-> FALSE,
                    use_wmi |-> FALSE, last |-> <<>>])
  /\ queue = NoWork /\ pending = FALSE /\ lost = {}
  /\ requests = 0 /\ faults = 0 /\ sleeps = 0 /\ unloads = 0

HasKey == {"fn_lock", "super_key_enable", "kbd_backlight"}

Next ==
  \/ Probe \/ ProbeStep
  \/ \E a \in Setting : \E v \in Values[a] : Store(a, v)
  \/ \E a \in Led : LedWork(a)
  \/ Show
  \/ \E a \in HasKey : HotKey(a)
  \/ Plug \/ Notify
  \/ Suspend \/ SuspendStep \/ SuspendDone
  \/ Sleep
  \/ Resume \/ ResumeStep
  \/ \E shutdown \in BOOLEAN : Unload(shutdown)

Spec == uniwill_init /\ [][Next]_vars

-----------------------------------------------------------------------------
(* Refinement                                                              *)

(* Loading the driver sets or reads these anew.                            *)
LoadResets ==
  {"ctgp_offset", "usb_c_power_priority", "charge_types", "kbd_backlight",
   "lightbar", "ac_auto_boot"}

CallOf ==
  [fn_lock |-> "fn_lock", super_key_enable |-> "super_key",
   touchpad_toggle_enable |-> "touchpad", charge_limit |-> "battery",
   kbd_backlight |-> "kbd_led", usb_powershare_high |-> "powershare"]

(* A volatile setting is in struct uniwill_data from the end of the        *)
(* suspend until the resume has written it back.                           *)
Held(a) ==
  /\ a \in DOMAIN CallOf
  /\ \/ phase \in {"quiet", "woken"}
     \/ phase = "suspend" /\ CallOf[a] \notin pc
     \/ phase = "resume" /\ CallOf[a] \in pc

(* The fields as the driver has them: cached, or else in the EC.           *)
Fresher == IF Bound THEN Over(sys.cache, sys.ec) ELSE sys.ec

Copy ==
  Over([fn_lock |-> sys.last.fn_lock,
        super_lock |-> 1 - sys.last.super_key,
        touchpad_off |-> 1 - sys.last.touchpad,
        usb_charging |-> sys.last.powershare,
        kbd_level |-> sys.last.kbd[1],
        charge_ctrl |-> IF Supports("BATTERY_CHARGE_LIMIT")
                        THEN sys.last.charge ELSE 0], Fresher)

(* Settings that the machine lacks, or that nothing vouches for.           *)
Unsure(a) ==
  \/ FeatureOf[a] \notin features /\ FeatureOf[a] \notin machine.features
  \/ a \in (IF phase \in {"unloaded", "probing"} THEN LoadResets ELSE lost)
  \/ a = "ac_auto_boot" /\ a \notin DOMAIN sys.cache

(* The value of every setting; of a LED the value that is queued for it.   *)
View ==
  [a \in Setting |->
     IF Unsure(a) THEN Unknown
     ELSE IF a \in DOMAIN queue THEN Accepted(a, queue[a])
     ELSE CASE a = "charge_types" -> sys.last.charge
            [] a = "usb_c_power_priority" -> sys.last.usb_c
            [] OTHER -> Shown(a, IF Held(a) THEN Copy ELSE Fresher)]

Abstract == INSTANCE Settings WITH
  val <- View,
  Keyed <- HasKey,
  Unsaved <- {"fan_boost", "platform_profile"},
  Reset <- LoadResets

ImplementsSettings == Abstract!Spec

-----------------------------------------------------------------------------
(* Properties                                                              *)

Minor == {"colour", "uneven", "adapter"}

Phase ==
  {"unloaded", "probing", "on", "suspend", "quiet", "woken", "resume"}

(* Every variable holds a value of its kind.                               *)
DriverTypeOK ==
  /\ machine \in Machines /\ phase \in Phase
  /\ pc \subseteq UNION {DOMAIN calls : calls \in {ProbeCalls, SuspendCalls, ResumeCalls}}
  /\ \A a \in DOMAIN queue : a \in Led /\ queue[a] \in Values[a] /\ Offered(a)
  /\ DOMAIN sys.cache \subseteq Field /\ lost \subseteq Everything \cup Minor
  /\ sys.ok /\ sys.fuse = 0
  /\ sys.cache_only = (phase \in {"quiet", "woken"})
  /\ {requests, faults, sleeps, unloads} \subseteq Nat

Intact == phase = "on" /\ lost \subseteq Minor

(* What regmap caches is what the EC holds, unless an access has failed:   *)
(* also after an EC that forgot everything was written again.              *)
CacheCoherent ==
  Intact => \A f \in DOMAIN sys.cache : sys.cache[f] = sys.ec[f]

(* The lightbar looks the same on AC and on battery.                       *)
LightbarSame ==
  Intact /\ "uneven" \notin lost /\ Supports("LIGHTBAR") =>
    /\ sys.ec.ac_rgb = sys.ec.bat_rgb
    /\ sys.ec.ac_off = sys.ec.bat_off
    /\ sys.ec.ac_rainbow = sys.ec.bat_rainbow
    /\ sys.ec.ac_app = 1 /\ sys.ec.bat_app = 1

(* The EC is in manual mode while a driver is bound, and only then, also   *)
(* after a probe that failed half way.                                     *)
ManualWhileBound ==
  "manual" \notin lost =>
    /\ phase = "on" => sys.ec.manual = 1
    /\ ~Bound => sys.ec.manual = 0

(* What the adapter made the EC forget is back once its event is handled,  *)
(* wherever it came in a probe, a suspend or a resume, and a resume makes  *)
(* up for the events before it.  Two kinds of events are excepted: those   *)
(* that came after the probe had copied what the EC held and before it     *)
(* registered the notifier, and those whose handler has failed.            *)
AdapterApplied ==
  Intact /\ ~pending /\ "adapter" \notin lost =>
    /\ Supports("BATTERY_CHARGE_MODES") =>
         ChargingProfile[sys.last.charge] = sys.ec.profile
    /\ Supports("USB_C_POWER_PRIORITY") =>
         usb_c_power_priority_value[sys.last.usb_c] = sys.ec.usb_c

(* The sensors show what the EC measures, never what a dead memory window  *)
(* returns.                                                                *)
NoPhantomReadings ==
  Intact => \A sensor \in DOMAIN SensorFeature :
    Supports(SensorFeature[sensor]) =>
      uniwill_read(sys, sensor) = uniwill_read([sys EXCEPT !.window = TRUE], sensor)

(* The dynamic boost of the GPU is on in use and off for a suspend.        *)
BoostFollowsPower ==
  lost \subseteq Minor /\ Supports("NVIDIA_CTGP_CONTROL") =>
    /\ phase = "on" => sys.ec.ctgp_on = 1 /\ sys.ec.ctgp_general = 1
                       /\ sys.ec.tpp_offset = 255 /\ sys.ec.db_offset = 25
    /\ phase = "quiet" => sys.ec.ctgp_on = 0

(* The keys show the colour that the registers hold.                       *)
ColourShown ==
  /\ Intact /\ "colour" \notin lost
  /\ Supports("KEYBOARD_BACKLIGHT") /\ ~machine.single
  => sys.ec.shown = sys.ec.rgb
=============================================================================
