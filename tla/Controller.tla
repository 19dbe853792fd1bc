----------------------------- MODULE Controller -----------------------------
(***************************************************************************)
(* The synchronous core of the daemon: `Controller` (uwbl-core             *)
(* controller.rs) with the effect engine (effect.rs) and the sysfs backend *)
(* (backend.rs) it owns, and the hardware below it as the controller can   *)
(* see it.  The daemon calls the controller under one mutex, so an         *)
(* operation is one atomic step of this module.                            *)
(*                                                                         *)
(* A sysfs write may fail whenever its kind is in Faulty: an operation     *)
(* picks `fails`, the kinds that would fail while it runs, and stops at    *)
(* the first failing write whose error the code propagates with `?`.  No   *)
(* operation writes one kind twice, so the choice up front is exact.       *)
(*                                                                         *)
(* An animation frame depends on the time since the effect started; a wave *)
(* in Waves stands for that time, 0 being the start of the effect.         *)
(***************************************************************************)
EXTENDS Integers, Sequences, FiniteSets

CONSTANTS
    MAX_BRIGHTNESS,     \* the crate's brightness limit
    HwMax,              \* max_brightness of the LED
    Multicolor,         \* the LED has multi_intensity
    HasFanMode,         \* platform_profile belongs to the driver
    HasFanBoost,        \* the driver has fan_boost
    HasHwChanged,       \* the LED has brightness_hw_changed
    FollowHw,           \* config: follow_hw_brightness
    RestoreOnResume,    \* config: restore_on_resume
    Faulty,             \* the kinds of sysfs write that may fail
    Colors, DefaultCycle,
    Frames, Black, Dim, \* EC intensities; [0,0,0] and [1,1,1]
    Waves, FullWave,    \* animation phases; the full-intensity one
    Shade,              \* <<colour, wave>> -> intensity of the colour scaled
    Hue,                \* wave -> colour of the rainbow
    ConfigProfiles,     \* the profiles of config.toml
    LevelInputs, SpeedInputs, KindInputs, ColorListInputs, FanInputs, BoostInputs,
    ProfileInputs,      \* what clients send
    FoundLevels,        \* LED levels found at boot
    ResetLevels,        \* LED levels found after an EC reset
    BootNotices,        \* brightness_hw_changed when the daemon starts
    NoFrame, NoMode, NoNotice

VARIABLES
    profiles, fan_boost, power, engine, idle_off, dirty,
    result,             \* what the last operation returned
    hw,                 \* what the hardware shows
    notice,             \* content of brightness_hw_changed
    last_hw_changed,    \* the content the backend last read
    resuming,           \* the EC was reset and resume() not called yet
    unread              \* a Fn key was pressed since the last poll

ctlVars == <<profiles, fan_boost, power, engine, idle_off, dirty, result>>
hwVars  == <<hw, notice, last_hw_changed, resuming, unread>>
vars    == <<ctlVars, hwVars>>

(***************************************************************************)
(* Types.                                                                  *)
(***************************************************************************)
U8          == 0..255
PowerSource == {"ac", "battery"}
EffectKind  == {"static", "breathing", "cycle", "rainbow"}
FanMode     == {"balanced", "performance"}
Writes      == {"brightness", "intensity", "fan_mode", "fan_boost"}

Effect  == [kind : EffectKind, color : Colors, speed : U8, colors : Seq(Colors)]
Profile == [enabled : BOOLEAN, brightness : U8, effect : Effect,
            fan_mode : FanMode \cup {NoMode}]
Engine  == [effect : Effect, last_frame : Frames \cup {NoFrame}]
Hardware == [brightness : 0..HwMax, intensity : Frames,
             fan_mode : FanMode, fan_boost : BOOLEAN]
Notice  == 0..HwMax \cup {NoNotice}

ASSUME LevelAssumption ==
    /\ MAX_BRIGHTNESS \in 1..255
    /\ HwMax \in 1..255
ASSUME SwitchAssumption ==
    /\ Multicolor \in BOOLEAN /\ HasFanMode \in BOOLEAN
    /\ HasFanBoost \in BOOLEAN /\ HasHwChanged \in BOOLEAN
    /\ FollowHw \in BOOLEAN /\ RestoreOnResume \in BOOLEAN
    /\ Faulty \subseteq Writes
ASSUME LightAssumption ==
    /\ Dim \in Frames /\ Black \notin Frames /\ NoFrame \notin Frames
    /\ Waves \subseteq Nat /\ 0 \in Waves /\ FullWave \in Waves
    /\ Shade \in [Colors \X Waves -> Frames \cup {Black}]
    /\ Hue \in [Waves -> Colors]
    /\ DefaultCycle \in Seq(Colors) /\ DefaultCycle # <<>>
ASSUME InputAssumption ==
    /\ ConfigProfiles \in [PowerSource -> Profile]
    /\ LevelInputs \subseteq U8 /\ SpeedInputs \subseteq U8
    /\ KindInputs \subseteq EffectKind
    /\ ColorListInputs \subseteq Seq(Colors)
    /\ FanInputs \subseteq FanMode /\ BoostInputs \subseteq BOOLEAN
    /\ ProfileInputs \subseteq Profile
    /\ FoundLevels \subseteq 0..HwMax /\ ResetLevels \subseteq 0..HwMax
    /\ BootNotices \subseteq Notice
    /\ NoMode \notin FanMode /\ NoNotice \notin 0..HwMax

-----------------------------------------------------------------------------
(***************************************************************************)
(* Effects.                                                                *)
(***************************************************************************)
clamp(x, lo, hi) == IF x < lo THEN lo ELSE IF x > hi THEN hi ELSE x

\* Mutant: the colour is sent as it is.
to_intensity_unguarded(raw) == raw

\* Intensity of a colour, never [0,0,0]: that would reset the EC colour.
to_intensity(raw) == IF raw = Black THEN Dim ELSE raw

\* The frame effect e shows at wave w; cross-fades are part of the wave.
frame_at(e, w) ==
    LET cycle == IF e.colors = <<>> THEN DefaultCycle ELSE e.colors
        raw == CASE e.kind = "static"    -> Shade[e.color, FullWave]
                 [] e.kind = "breathing" -> Shade[e.color, w]
                 [] e.kind = "cycle"     ->
                        Shade[cycle[(w % Len(cycle)) + 1], FullWave]
                 [] e.kind = "rainbow"   -> Shade[Hue[w], FullWave]
    IN  to_intensity(raw)

NewEngine(e)    == [effect |-> e, last_frame |-> NoFrame]
invalidate(eng) == [eng EXCEPT !.last_frame = NoFrame]

(***************************************************************************)
(* Backend writes and the operations built from them.  Each returns the    *)
(* engine and hardware it leaves and whether it succeeded.                 *)
(***************************************************************************)
FailSets == SUBSET Faulty

clamp_intensity(f) == IF f = Black THEN Dim ELSE f

effective_brightness(p) ==
    IF p.enabled THEN clamp(p.brightness, 1, MAX_BRIGHTNESS) ELSE 0

\* The level the active profile p asks of the LED.
Level(p, off) ==
    LET want == IF off THEN 0 ELSE effective_brightness(p)
    IN  IF want > HwMax THEN HwMax ELSE want

apply_brightness(p, off, h, fails) ==
    IF "brightness" \in fails THEN h ELSE [h EXCEPT !.brightness = Level(p, off)]

\* Mutant: the engine remembers the frame before the write that may fail.
engine_apply_optimistic(eng, h, w, fails) ==
    LET f == frame_at(eng.effect, w)
        written == Multicolor /\ "intensity" \notin fails
    IN  IF eng.last_frame = f THEN [engine |-> eng, hw |-> h, ok |-> TRUE]
        ELSE [engine |-> [eng EXCEPT !.last_frame = f],
              hw |-> IF written THEN [h EXCEPT !.intensity = clamp_intensity(f)]
                                ELSE h,
              ok |-> written]

\* EffectEngine::apply: write the frame of wave w unless it is the last one.
engine_apply(eng, h, w, fails) ==
    LET f == frame_at(eng.effect, w)
        written == Multicolor /\ "intensity" \notin fails
    IN  IF eng.last_frame = f THEN [engine |-> eng, hw |-> h, ok |-> TRUE]
        ELSE [engine |-> IF written THEN [eng EXCEPT !.last_frame = f] ELSE eng,
              hw |-> IF written THEN [h EXCEPT !.intensity = clamp_intensity(f)]
                                ELSE h,
              ok |-> written]

\* Mutant: the animation does not look at the profile's switch.
tick_disabled(p, off, eng, h, w, fails) ==
    IF off THEN [engine |-> eng, hw |-> h, ok |-> TRUE]
    ELSE engine_apply(eng, h, w, fails)

tick(p, off, eng, h, w, fails) ==
    IF off \/ ~p.enabled THEN [engine |-> eng, hw |-> h, ok |-> TRUE]
    ELSE engine_apply(eng, h, w, fails)

\* Mutant: a failing brightness write is swallowed.
light_swallowing(p, off, lit, eng, h, w, fails) ==
    LET shown == apply_brightness(p, off, h, fails)
    IN  IF ~lit THEN [engine |-> eng, hw |-> shown, ok |-> TRUE]
        ELSE tick(p, off, invalidate(eng), shown, w, fails)

\* apply_brightness()?, then if `lit` invalidate() and tick()?
light(p, off, lit, eng, h, w, fails) ==
    LET shown == apply_brightness(p, off, h, fails)
        failed == "brightness" \in fails
    IN  IF failed \/ ~lit
        THEN [engine |-> eng, hw |-> shown, ok |-> ~failed]
        ELSE tick(p, off, invalidate(eng), shown, w, fails)

\* Failing fan writes are logged and swallowed.
apply_fans(p, boost, h, fails) ==
    [h EXCEPT !.fan_mode = IF HasFanMode /\ p.fan_mode # NoMode
                              /\ "fan_mode" \notin fails THEN p.fan_mode ELSE @,
              !.fan_boost = IF HasFanBoost /\ "fan_boost" \notin fails
                            THEN boost ELSE @]

apply_all(p, off, boost, h, fails) ==
    LET lit == light(p, off, ~off /\ p.enabled, NewEngine(p.effect), h, 0, fails)
    IN  IF lit.ok THEN [lit EXCEPT !.hw = apply_fans(p, boost, lit.hw, fails)]
        ELSE lit

\* The operation leaves outcome o.
Finish(o) ==
    /\ engine' = o.engine
    /\ hw' = o.hw
    /\ result' = IF o.ok THEN "ok" ELSE "err"

Rejected == result' = "err" /\ UNCHANGED <<engine, hw>>

\* No operation but a poll reads brightness_hw_changed.
NoPoll == UNCHANGED <<notice, last_hw_changed, resuming, unread>>

-----------------------------------------------------------------------------
(***************************************************************************)
(* Power, idle and hardware events.                                        *)
(***************************************************************************)
\* Mutant: the new profile is shown with the old engine.
set_power_source_no_restart(pow) ==
    /\ power' = pow
    /\ \E fails \in FailSets, w \in Waves :
         IF pow = power THEN result' = "ok" /\ UNCHANGED <<engine, hw>>
         ELSE Finish(light(profiles[pow], idle_off, ~idle_off, engine, hw, w, fails))
    /\ UNCHANGED <<profiles, fan_boost, idle_off, dirty>>
    /\ NoPoll

set_power_source(pow) ==
    /\ power' = pow
    /\ \E fails \in FailSets :
         IF pow = power THEN result' = "ok" /\ UNCHANGED <<engine, hw>>
         ELSE Finish(apply_all(profiles[pow], idle_off, fan_boost, hw, fails))
    /\ UNCHANGED <<profiles, fan_boost, idle_off, dirty>>
    /\ NoPoll

\* apply_all as the D-Bus method Reapply calls it.
reapply ==
    /\ \E fails \in FailSets :
         Finish(apply_all(profiles[power], idle_off, fan_boost, hw, fails))
    /\ UNCHANGED <<profiles, fan_boost, power, idle_off, dirty>>
    /\ NoPoll

\* Mutant: resume only ticks, so that coalescing hides the lost frame.
resume_tick_only ==
    /\ resuming
    /\ resuming' = FALSE
    /\ \E fails \in FailSets, w \in Waves :
         Finish(tick(profiles[power], idle_off, engine, hw, w, fails))
    /\ UNCHANGED <<profiles, fan_boost, power, idle_off, dirty,
                   notice, last_hw_changed, unread>>

resume ==
    /\ resuming
    /\ resuming' = FALSE
    /\ IF RestoreOnResume
       THEN \E fails \in FailSets :
              Finish(apply_all(profiles[power], idle_off, fan_boost, hw, fails))
       ELSE result' = "ok" /\ UNCHANGED <<engine, hw>>
    /\ UNCHANGED <<profiles, fan_boost, power, idle_off, dirty,
                   notice, last_hw_changed, unread>>

\* Mutant: coming back from idle does not redraw.
set_idle_off_no_redraw(off) ==
    /\ idle_off' = off
    /\ \E fails \in FailSets, w \in Waves :
         IF off = idle_off THEN result' = "ok" /\ UNCHANGED <<engine, hw>>
         ELSE Finish(light(profiles[power], off, FALSE, engine, hw, w, fails))
    /\ UNCHANGED <<profiles, fan_boost, power, dirty>>
    /\ NoPoll

set_idle_off(off) ==
    /\ idle_off' = off
    /\ \E fails \in FailSets, w \in Waves :
         IF off = idle_off THEN result' = "ok" /\ UNCHANGED <<engine, hw>>
         ELSE Finish(light(profiles[power], off, ~off, engine, hw, w, fails))
    /\ UNCHANGED <<profiles, fan_boost, power, dirty>>
    /\ NoPoll

\* The profile p at a brightness level the user or the Fn keys chose.
AtLevel(p, level) ==
    IF level = 0 THEN [p EXCEPT !.enabled = FALSE]
    ELSE [p EXCEPT !.enabled = TRUE, !.brightness = level]

\* What take_hw_brightness_change reports: the file's content when it is not
\* the content read last time.  Reading fails while nothing was ever reported.
HwChange ==
    IF ~HasHwChanged \/ notice = NoNotice \/ notice = last_hw_changed
    THEN {} ELSE {notice}

\* Mutant: following a Fn key leaves the idle flag set.
poll_hw_brightness_still_idle ==
    /\ last_hw_changed' = IF HwChange = {} THEN last_hw_changed ELSE notice
    /\ \/ /\ HwChange = {} \/ ~FollowHw
          /\ result' = "ok"
          /\ UNCHANGED <<profiles, dirty, engine, hw>>
       \/ \E level \in HwChange, fails \in FailSets, w \in Waves :
            LET p == AtLevel(profiles[power], level)
            IN  /\ FollowHw
                /\ profiles' = [profiles EXCEPT ![power] = p]
                /\ dirty' = TRUE
                /\ Finish(tick(p, FALSE, invalidate(engine), hw, w, fails))
    /\ unread' = FALSE
    /\ UNCHANGED <<fan_boost, power, notice, resuming, idle_off>>

poll_hw_brightness ==
    /\ last_hw_changed' = IF HwChange = {} THEN last_hw_changed ELSE notice
    /\ \/ /\ HwChange = {} \/ ~FollowHw
          /\ result' = IF HasHwChanged /\ notice = NoNotice THEN "err" ELSE "ok"
          /\ UNCHANGED <<profiles, idle_off, dirty, engine, hw>>
       \/ \E level \in HwChange, fails \in FailSets, w \in Waves :
            LET p == AtLevel(profiles[power], level)
            IN  /\ FollowHw
                /\ profiles' = [profiles EXCEPT ![power] = p]
                /\ dirty' = TRUE
                /\ idle_off' = FALSE
                /\ Finish(IF p.enabled
                          THEN tick(p, FALSE, invalidate(engine), hw, w, fails)
                          ELSE [engine |-> engine, hw |-> hw, ok |-> TRUE])
    /\ unread' = FALSE
    /\ UNCHANGED <<fan_boost, power, notice, resuming>>

\* The effect loop advances the animation.
effect_tick ==
    /\ \E fails \in FailSets, w \in Waves :
         Finish(tick(profiles[power], idle_off, engine, hw, w, fails))
    /\ UNCHANGED <<profiles, fan_boost, power, idle_off, dirty>>
    /\ NoPoll

-----------------------------------------------------------------------------
(***************************************************************************)
(* User-facing setters; all but set_profile act on the active profile.     *)
(***************************************************************************)
set_enabled(on) ==
    /\ \E fails \in FailSets, w \in Waves :
         LET p == [profiles[power] EXCEPT !.enabled = on]
         IN  /\ profiles' = [profiles EXCEPT ![power] = p]
             /\ Finish(light(p, FALSE, on, engine, hw, w, fails))
    /\ dirty' = TRUE
    /\ idle_off' = FALSE
    /\ UNCHANGED <<fan_boost, power>>
    /\ NoPoll

set_brightness(level) ==
    /\ \/ /\ level > HwMax
          /\ Rejected
          /\ UNCHANGED <<profiles, dirty, idle_off>>
       \/ /\ level <= HwMax
          /\ \E fails \in FailSets, w \in Waves :
               LET p == AtLevel(profiles[power], level)
               IN  /\ profiles' = [profiles EXCEPT ![power] = p]
                   /\ Finish(light(p, FALSE, level > 0, engine, hw, w, fails))
          /\ dirty' = TRUE
          /\ idle_off' = FALSE
    /\ UNCHANGED <<fan_boost, power>>
    /\ NoPoll

\* Mutant: the change is not marked for saving.
change_effect_clean(e) ==
    /\ \E fails \in FailSets :
         LET p == [profiles[power] EXCEPT !.effect = e]
         IN  /\ profiles' = [profiles EXCEPT ![power] = p]
             /\ Finish(tick(p, idle_off, NewEngine(e), hw, 0, fails))
    /\ UNCHANGED <<fan_boost, power, idle_off, dirty>>
    /\ NoPoll

\* Store effect e in the active profile, restart the engine on it, tick.
change_effect(e) ==
    /\ \E fails \in FailSets :
         LET p == [profiles[power] EXCEPT !.effect = e]
         IN  /\ profiles' = [profiles EXCEPT ![power] = p]
             /\ Finish(tick(p, idle_off, NewEngine(e), hw, 0, fails))
    /\ dirty' = TRUE
    /\ UNCHANGED <<fan_boost, power, idle_off>>
    /\ NoPoll

ActiveEffect == profiles[power].effect

set_color(color) ==
    LET kind == IF ActiveEffect.kind = "breathing" THEN "breathing" ELSE "static"
    IN  change_effect([ActiveEffect EXCEPT !.color = color, !.kind = kind])

\* speed 0 stands for None: keep the speed.
set_effect(kind, speed) ==
    LET s == IF speed = 0 THEN ActiveEffect.speed ELSE clamp(speed, 1, 10)
    IN  change_effect([ActiveEffect EXCEPT !.kind = kind, !.speed = s])

set_speed(speed) ==
    change_effect([ActiveEffect EXCEPT !.speed = clamp(speed, 1, 10)])

set_cycle_colors(colors) ==
    \/ /\ colors = <<>>
       /\ Rejected
       /\ UNCHANGED <<profiles, fan_boost, power, idle_off, dirty>>
       /\ NoPoll
    \/ /\ colors # <<>>
       /\ change_effect([ActiveEffect EXCEPT !.colors = colors])

\* The fan setters write the hardware first and store only what it took.
set_fan_mode(mode) ==
    /\ \/ /\ ~HasFanMode \/ "fan_mode" \in Faulty
          /\ Rejected
          /\ UNCHANGED <<profiles, dirty>>
       \/ /\ HasFanMode
          /\ profiles' = [profiles EXCEPT ![power].fan_mode = mode]
          /\ dirty' = TRUE
          /\ Finish([engine |-> engine, hw |-> [hw EXCEPT !.fan_mode = mode],
                     ok |-> TRUE])
    /\ UNCHANGED <<fan_boost, power, idle_off>>
    /\ NoPoll

set_fan_boost(on) ==
    /\ \/ /\ ~HasFanBoost \/ "fan_boost" \in Faulty
          /\ Rejected
          /\ UNCHANGED <<fan_boost, dirty>>
       \/ /\ HasFanBoost
          /\ fan_boost' = on
          /\ dirty' = TRUE
          /\ Finish([engine |-> engine, hw |-> [hw EXCEPT !.fan_boost = on],
                     ok |-> TRUE])
    /\ UNCHANGED <<profiles, power, idle_off>>
    /\ NoPoll

set_profile(source, profile) ==
    /\ profiles' = [profiles EXCEPT ![source] = profile]
    /\ dirty' = TRUE
    /\ \E fails \in FailSets :
         IF source = power
         THEN Finish(apply_all(profile, idle_off, fan_boost, hw, fails))
         ELSE result' = "ok" /\ UNCHANGED <<engine, hw>>
    /\ UNCHANGED <<fan_boost, power, idle_off>>
    /\ NoPoll

\* Mutant: the reset shows the fan boost off but keeps it stored.
reset_to_config_keep_boost ==
    /\ profiles' = ConfigProfiles
    /\ dirty' = TRUE
    /\ \E fails \in FailSets :
         Finish(apply_all(ConfigProfiles[power], idle_off, FALSE, hw, fails))
    /\ UNCHANGED <<fan_boost, power, idle_off>>
    /\ NoPoll

reset_to_config ==
    /\ profiles' = ConfigProfiles
    /\ fan_boost' = FALSE
    /\ dirty' = TRUE
    /\ \E fails \in FailSets :
         Finish(apply_all(ConfigProfiles[power], idle_off, FALSE, hw, fails))
    /\ UNCHANGED <<power, idle_off>>
    /\ NoPoll

\* take_state, called by the saver: the caller gets the profiles and fan boost.
take_state ==
    /\ dirty' = FALSE
    /\ UNCHANGED <<profiles, fan_boost, power, engine, idle_off, result, hwVars>>

-----------------------------------------------------------------------------
(***************************************************************************)
(* The hardware and the firmware below, as src/ relies on them.            *)
(***************************************************************************)
\* A Fn key: the EC changes the level, the driver reports it.
FnKey(level) ==
    /\ level # hw.brightness
    /\ hw' = [hw EXCEPT !.brightness = level]
    /\ notice' = level
    /\ unread' = TRUE
    /\ UNCHANGED <<ctlVars, last_hw_changed, resuming>>

\* Suspend resets the EC; PrepareForSleep(false) will lead to resume().
EcReset(h) ==
    /\ hw' = h
    /\ resuming' = TRUE
    /\ UNCHANGED <<ctlVars, notice, last_hw_changed, unread>>

\* What the LED and the fans can be found at.
FoundHardware(levels) ==
    {[brightness |-> b, intensity |-> Dim, fan_mode |-> "balanced",
      fan_boost |-> FALSE] : b \in levels}

\* Controller::new on the saved or configured profiles, then apply_all.
Boot(saved, boost, pow, h, fails) ==
    LET o == apply_all(saved[pow], FALSE, boost, h, fails)
    IN  /\ profiles = saved /\ fan_boost = boost /\ power = pow
        /\ idle_off = FALSE /\ dirty = FALSE
        /\ engine = o.engine /\ hw = o.hw
        /\ result = IF o.ok THEN "ok" ELSE "err"

Init ==
    /\ \E pow \in PowerSource, h \in FoundHardware(FoundLevels), fails \in FailSets :
         Boot(ConfigProfiles, FALSE, pow, h, fails)
    /\ notice \in BootNotices
    /\ last_hw_changed = NoNotice
    /\ resuming = FALSE
    /\ unread = FALSE

Setter ==
    \/ \E on \in BOOLEAN : set_enabled(on)
    \/ \E on \in BoostInputs : set_fan_boost(on)
    \/ \E level \in LevelInputs : set_brightness(level)
    \/ \E color \in Colors : set_color(color)
    \/ \E kind \in KindInputs, speed \in SpeedInputs \cup {0} :
            set_effect(kind, speed)
    \/ \E speed \in SpeedInputs : set_speed(speed)
    \/ \E colors \in ColorListInputs : set_cycle_colors(colors)
    \/ \E mode \in FanInputs : set_fan_mode(mode)
    \/ \E source \in PowerSource, profile \in ProfileInputs :
            set_profile(source, profile)
    \/ reset_to_config
    \/ reapply

Event ==
    \/ \E pow \in PowerSource : set_power_source(pow)
    \/ \E off \in BOOLEAN : set_idle_off(off)
    \/ poll_hw_brightness
    \/ effect_tick
    \/ resume

Firmware ==
    \/ \E level \in 0..HwMax : HasHwChanged /\ FnKey(level)
    \/ \E h \in FoundHardware(ResetLevels) : EcReset(h)

Next == Setter \/ Event \/ Firmware

Spec == Init /\ [][Next]_vars

-----------------------------------------------------------------------------
(***************************************************************************)
(* Properties.                                                             *)
(***************************************************************************)
TypeOK ==
    /\ profiles \in [PowerSource -> Profile]
    /\ fan_boost \in BOOLEAN
    /\ power \in PowerSource
    /\ engine \in Engine
    /\ idle_off \in BOOLEAN
    /\ dirty \in BOOLEAN
    /\ result \in {"ok", "err"}
    /\ hw \in Hardware
    /\ notice \in Notice
    /\ last_hw_changed \in Notice
    /\ resuming \in BOOLEAN
    /\ unread \in BOOLEAN

ActiveProfile == profiles[power]
Lit == ~idle_off /\ ActiveProfile.enabled

\* The running engine animates the effect of the active profile, whatever
\* writes failed: a setter, a power switch, a reset or a new profile never
\* leaves the animation of an earlier effect running.
EngineFollowsProfile == engine.effect = ActiveProfile.effect

\* The frame the engine skips rewriting is the one on the keyboard, except
\* between an EC reset and resume(): frame coalescing never hides a lost frame.
FrameOnKeyboard ==
    RestoreOnResume /\ ~resuming /\ engine.last_frame # NoFrame
        => hw.intensity = engine.last_frame

\* The LED shows the level and a frame of the effect of the active profile,
\* or is off when the profile or the idle timer says so.
Shown ==
    /\ hw.brightness = Level(ActiveProfile, idle_off)
    /\ Lit => \E w \in Waves : hw.intensity = frame_at(ActiveProfile.effect, w)

\* While writes succeed, the only thing that parts the keyboard from the
\* profile is an EC reset, until resume(): no order of setters, power
\* switches and idle events leaves it showing anything else.
KeyboardShowsProfile == ~resuming => Shown

\* While writes succeed, the fans run as the active profile and the boost
\* setting say, however profiles were switched, replaced or reset.
FansFollowProfile ==
    ~resuming =>
      /\ HasFanMode /\ ActiveProfile.fan_mode # NoMode
            => hw.fan_mode = ActiveProfile.fan_mode
      /\ HasFanBoost => hw.fan_boost = fan_boost

\* No operation sends a colour to a keyboard that is to stay dark: neither the
\* animation nor a setter nor a late poll wakes a keyboard that is off.
DarkStaysDark ==
    [][~resuming /\ ~resuming' /\ ~Lit' => hw'.intensity = hw.intensity]_vars

\* An operation that shows the profile and reports success has shown it, also
\* when earlier writes failed: it never skips a write because of one.
OkMeansShown ==
    [][ result' = "ok" /\ ~Shown' =>
          ~ \/ \E on \in BOOLEAN : set_enabled(on)
            \/ \E level \in LevelInputs : set_brightness(level)
            \/ \E profile \in ProfileInputs : set_profile(power, profile)
            \/ power' # power
            \/ \E off \in BOOLEAN \ {idle_off} : set_idle_off(off)
            \/ RestoreOnResume /\ resuming /\ ~resuming'
            \/ reset_to_config
            \/ reapply ]_vars

\* A Fn-key change that is folded into the profile, while the LED still has
\* the level it reports, leaves profile, idle flag and keyboard agreeing.
FollowedMeansShown ==
    [][ /\ last_hw_changed' # last_hw_changed
        /\ FollowHw /\ notice = hw.brightness
        /\ result' = "ok"
        => Shown' ]_vars

\* README: the daemon notices a Fn key and updates the profile.
FnKeyIsStored ==
    [][ unread /\ ~unread' /\ FollowHw
        => profiles'[power] = AtLevel(ActiveProfile, notice) ]_vars

\* On a LED without colours, turning the backlight on works.
BrightnessOnlyWorks ==
    [][ set_enabled(TRUE) => result' = "ok" ]_vars
=============================================================================
