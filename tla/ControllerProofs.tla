-------------------------- MODULE ControllerProofs --------------------------
(***************************************************************************)
(* Theorems about Controller for every value of its constants: any number  *)
(* of colours, levels and animation phases, any LED, any set of failing    *)
(* writes.                                                                 *)
(***************************************************************************)
EXTENDS Controller, TLAPS

Outcome == [engine : Engine, hw : Hardware, ok : BOOLEAN]

\* The frame the engine believes to be on the keyboard is.
Coherent(eng, h) == eng.last_frame # NoFrame => h.intensity = eng.last_frame

-----------------------------------------------------------------------------
(***************************************************************************)
(* What the effect and backend operators return.                           *)
(***************************************************************************)
\* A frame is an intensity other than [0,0,0], which the backend's own clamp
\* leaves alone.
LEMMA FrameLemma ==
  ASSUME NEW e \in Effect, NEW w \in Waves
  PROVE  /\ frame_at(e, w) \in Frames
         /\ clamp_intensity(frame_at(e, w)) = frame_at(e, w)
<1> DEFINE cycle == IF e.colors = <<>> THEN DefaultCycle ELSE e.colors
<1>1. cycle \in Seq(Colors) /\ cycle # <<>>
  BY LightAssumption DEF Effect
<1>2. Len(cycle) \in Nat \ {0} /\ w \in Nat
  BY <1>1, LightAssumption
<1>3. (w % Len(cycle)) + 1 \in 1..Len(cycle)
  <2>1. \A n \in Nat \ {0}, v \in Nat : (v % n) + 1 \in 1..n
    OBVIOUS
  <2>2. QED
    BY <2>1, <1>2
<1>4. cycle[(w % Len(cycle)) + 1] \in Colors
  BY <1>1, <1>3
<1>5. \A c \in Colors, v \in Waves : Shade[c, v] \in Frames \cup {Black}
  BY LightAssumption
<1>6. e.color \in Colors /\ Hue[w] \in Colors /\ FullWave \in Waves
  BY LightAssumption DEF Effect
<1>7. e.kind \in {"static", "breathing", "cycle", "rainbow"}
  BY DEF Effect, EffectKind
<1>8. /\ Shade[e.color, FullWave] \in Frames \cup {Black}
      /\ Shade[e.color, w] \in Frames \cup {Black}
      /\ Shade[cycle[(w % Len(cycle)) + 1], FullWave] \in Frames \cup {Black}
      /\ Shade[Hue[w], FullWave] \in Frames \cup {Black}
  BY <1>4, <1>5, <1>6
<1> HIDE DEF cycle
<1> DEFINE raw == CASE e.kind = "static"    -> Shade[e.color, FullWave]
                    [] e.kind = "breathing" -> Shade[e.color, w]
                    [] e.kind = "cycle"     ->
                        Shade[cycle[(w % Len(cycle)) + 1], FullWave]
                    [] e.kind = "rainbow"   -> Shade[Hue[w], FullWave]
<1>9. raw \in Frames \cup {Black}
  BY <1>7, <1>8
<1>10. frame_at(e, w) = to_intensity(raw)
  BY DEF frame_at, cycle
<1> HIDE DEF raw
<1>11. QED
  BY <1>9, <1>10, LightAssumption DEF to_intensity, clamp_intensity

\* The level asked of the LED is one it has.
LEMMA LevelLemma ==
  ASSUME NEW p \in Profile, NEW off \in BOOLEAN
  PROVE  Level(p, off) \in 0..HwMax
<1>1. effective_brightness(p) \in Nat
  BY LevelAssumption DEF effective_brightness, clamp, Profile, U8
<1>2. QED
  BY <1>1, LevelAssumption DEF Level

\* A write of the brightness moves nothing but the level.
LEMMA BrightnessLemma ==
  ASSUME NEW p \in Profile, NEW off \in BOOLEAN, NEW h \in Hardware, NEW fails
  PROVE  /\ apply_brightness(p, off, h, fails) \in Hardware
         /\ apply_brightness(p, off, h, fails).intensity = h.intensity
BY LevelLemma DEF apply_brightness, Hardware

\* A tick keeps the effect, and keeps the engine's view of the keyboard true.
LEMMA TickLemma ==
  ASSUME NEW p \in Profile, NEW off \in BOOLEAN, NEW eng \in Engine,
         NEW h \in Hardware, NEW w \in Waves, NEW fails
  PROVE  LET o == tick(p, off, eng, h, w, fails)
         IN  /\ o \in Outcome
             /\ o.engine.effect = eng.effect
             /\ Coherent(eng, h) => Coherent(o.engine, o.hw)
<1>1. eng.effect \in Effect
  BY DEF Engine
<1>2. /\ frame_at(eng.effect, w) \in Frames
      /\ clamp_intensity(frame_at(eng.effect, w)) = frame_at(eng.effect, w)
  BY <1>1, FrameLemma
<1> DEFINE f == frame_at(eng.effect, w)
<1> HIDE DEF f
<1>3. f \in Frames /\ clamp_intensity(f) = f
  BY <1>2 DEF f
<1>4. tick(p, off, eng, h, w, fails) =
        IF off \/ ~p.enabled \/ eng.last_frame = f
        THEN [engine |-> eng, hw |-> h, ok |-> TRUE]
        ELSE [engine |-> IF Multicolor /\ "intensity" \notin fails
                         THEN [eng EXCEPT !.last_frame = f] ELSE eng,
              hw |-> IF Multicolor /\ "intensity" \notin fails
                     THEN [h EXCEPT !.intensity = f] ELSE h,
              ok |-> Multicolor /\ "intensity" \notin fails]
  BY <1>3 DEF tick, engine_apply, f
<1>5. /\ [eng EXCEPT !.last_frame = f] \in Engine
      /\ [eng EXCEPT !.last_frame = f].effect = eng.effect
      /\ [eng EXCEPT !.last_frame = f].last_frame = f
      /\ [h EXCEPT !.intensity = f] \in Hardware
      /\ [h EXCEPT !.intensity = f].intensity = f
  BY <1>3 DEF Engine, Hardware
<1>6. (Multicolor /\ "intensity" \notin fails) \in BOOLEAN
  BY SwitchAssumption
<1>7. QED
  BY <1>4, <1>5, <1>6, SwitchAssumption DEF Outcome, Coherent

\* Showing a profile keeps the effect and the engine's view of the keyboard.
LEMMA LightLemma ==
  ASSUME NEW p \in Profile, NEW off \in BOOLEAN, NEW lit \in BOOLEAN,
         NEW eng \in Engine, NEW h \in Hardware, NEW w \in Waves, NEW fails
  PROVE  LET o == light(p, off, lit, eng, h, w, fails)
         IN  /\ o \in Outcome
             /\ o.engine.effect = eng.effect
             /\ Coherent(eng, h) => Coherent(o.engine, o.hw)
<1> DEFINE shown == apply_brightness(p, off, h, fails)
<1>1. shown \in Hardware /\ shown.intensity = h.intensity
  BY BrightnessLemma
<1> HIDE DEF shown
<1>2. /\ invalidate(eng) \in Engine
      /\ invalidate(eng).effect = eng.effect
      /\ invalidate(eng).last_frame = NoFrame
  BY DEF invalidate, Engine
<1>3. CASE "brightness" \in fails \/ ~lit
  <2>1. light(p, off, lit, eng, h, w, fails) =
          [engine |-> eng, hw |-> shown, ok |-> "brightness" \notin fails]
    BY <1>3 DEF light, shown
  <2>2. QED
    BY <2>1, <1>1 DEF Outcome, Coherent
<1>4. CASE ~("brightness" \in fails \/ ~lit)
  <2>1. light(p, off, lit, eng, h, w, fails) =
          tick(p, off, invalidate(eng), shown, w, fails)
    BY <1>4 DEF light, shown
  <2>2. Coherent(invalidate(eng), shown)
    BY <1>2 DEF Coherent
  <2>3. QED
    BY <2>1, <2>2, <1>1, <1>2, TickLemma
<1>5. QED
  BY <1>3, <1>4

\* A fresh engine runs the effect it was made for and believes nothing.
LEMMA NewEngineLemma ==
  ASSUME NEW e \in Effect, NEW h
  PROVE  /\ NewEngine(e) \in Engine
         /\ NewEngine(e).effect = e
         /\ Coherent(NewEngine(e), h)
BY DEF NewEngine, Engine, Coherent

\* Applying a whole profile leaves its effect running and a true view of the
\* keyboard, whatever was there before and whatever failed.
LEMMA ApplyAllLemma ==
  ASSUME NEW p \in Profile, NEW off \in BOOLEAN, NEW boost \in BOOLEAN,
         NEW h \in Hardware, NEW fails
  PROVE  LET o == apply_all(p, off, boost, h, fails)
         IN  /\ o \in Outcome
             /\ o.engine.effect = p.effect
             /\ Coherent(o.engine, o.hw)
<1> DEFINE on == ~off /\ p.enabled
           new == NewEngine(p.effect)
           lit == light(p, off, on, new, h, 0, fails)
<1>1. p.effect \in Effect /\ on \in BOOLEAN /\ 0 \in Waves
  BY LightAssumption DEF Profile
<1>2. new \in Engine /\ new.effect = p.effect /\ Coherent(new, h)
  BY <1>1, NewEngineLemma
<1>3. apply_all(p, off, boost, h, fails) =
        IF lit.ok THEN [lit EXCEPT !.hw = apply_fans(p, boost, lit.hw, fails)]
        ELSE lit
  BY DEF apply_all
<1> HIDE DEF new, on
<1>4. /\ lit \in Outcome
      /\ lit.engine.effect = p.effect
      /\ Coherent(lit.engine, lit.hw)
  BY <1>1, <1>2, LightLemma
<1> HIDE DEF lit
<1>5. lit.hw \in Hardware
  BY <1>4 DEF Outcome
<1>6. /\ apply_fans(p, boost, lit.hw, fails) \in Hardware
      /\ apply_fans(p, boost, lit.hw, fails).intensity = lit.hw.intensity
  BY <1>5 DEF apply_fans, Hardware, Profile, FanMode
<1>7. QED
  BY <1>3, <1>4, <1>6 DEF Outcome, Coherent

\* Setting a level or the switch of a profile keeps it a profile with the
\* same effect.
LEMMA AtLevelLemma ==
  ASSUME NEW p \in Profile, NEW level \in U8
  PROVE  AtLevel(p, level) \in Profile /\ AtLevel(p, level).effect = p.effect
BY DEF AtLevel, Profile

-----------------------------------------------------------------------------
(***************************************************************************)
(* The inductive invariant.  TypeOK alone is inductive; the other two need *)
(* it, and each other only through the engine.                             *)
(***************************************************************************)
IInv == TypeOK /\ EngineFollowsProfile /\ FrameOnKeyboard

\* What an operation that ends in Finish(o) owes for the profile it leaves.
Kept(o) ==
    /\ o \in Outcome
    /\ o.engine.effect = profiles'[power'].effect
    /\ RestoreOnResume /\ ~resuming' => Coherent(o.engine, o.hw)

LEMMA FinishLemma ==
  ASSUME /\ profiles' \in [PowerSource -> Profile] /\ power' \in PowerSource
         /\ fan_boost' \in BOOLEAN /\ idle_off' \in BOOLEAN /\ dirty' \in BOOLEAN
         /\ notice' \in Notice /\ last_hw_changed' \in Notice
         /\ resuming' \in BOOLEAN /\ unread' \in BOOLEAN,
         NEW o, Kept(o), Finish(o)
  PROVE  IInv'
BY DEF Kept, Finish, Outcome, Coherent, IInv, TypeOK, EngineFollowsProfile,
       ActiveProfile, FrameOnKeyboard

\* A step that leaves engine and hardware alone and the effect of the active
\* profile too.
LEMMA QuietLemma ==
  ASSUME IInv,
         /\ profiles' \in [PowerSource -> Profile] /\ power' \in PowerSource
         /\ fan_boost' \in BOOLEAN /\ idle_off' \in BOOLEAN /\ dirty' \in BOOLEAN
         /\ result' \in {"ok", "err"}
         /\ notice' \in Notice /\ last_hw_changed' \in Notice
         /\ unread' \in BOOLEAN,
         UNCHANGED <<engine, hw>>,
         profiles'[power'].effect = ActiveProfile.effect,
         \/ UNCHANGED resuming
         \/ ~RestoreOnResume /\ resuming' \in BOOLEAN
  PROVE  IInv'
BY DEF IInv, TypeOK, EngineFollowsProfile, ActiveProfile, FrameOnKeyboard

-----------------------------------------------------------------------------
(***************************************************************************)
(* The steps, one lemma per group of actions.                              *)
(***************************************************************************)
LEMMA ActiveLemma ==
  ASSUME TypeOK
  PROVE  /\ ActiveProfile \in Profile /\ ActiveProfile = profiles[power]
         /\ ActiveEffect \in Effect /\ ActiveEffect = ActiveProfile.effect
BY DEF TypeOK, ActiveProfile, ActiveEffect, Profile

\* What the hardware is found at is hardware.
LEMMA FoundLemma ==
  ASSUME NEW levels \in SUBSET (0..HwMax), NEW h \in FoundHardware(levels)
  PROVE  h \in Hardware
<1>1. PICK b \in levels :
        h = [brightness |-> b, intensity |-> Dim, fan_mode |-> "balanced",
             fan_boost |-> FALSE]
  BY DEF FoundHardware
<1>2. b \in 0..HwMax /\ Dim \in Frames /\ "balanced" \in FanMode
  BY LightAssumption DEF FanMode
<1>3. QED
  BY <1>1, <1>2 DEF Hardware

\* Replacing the active profile by another one.
LEMMA ReplaceLemma ==
  ASSUME TypeOK, NEW p \in Profile
  PROVE  /\ [profiles EXCEPT ![power] = p] \in [PowerSource -> Profile]
         /\ [profiles EXCEPT ![power] = p][power] = p
BY DEF TypeOK

\* Every operation through change_effect, for any effect.
LEMMA ChangeEffectStep ==
  ASSUME IInv, NEW e \in Effect, change_effect(e)
  PROVE  IInv'
<1>1. TypeOK
  BY DEF IInv
<1> DEFINE p == [profiles[power] EXCEPT !.effect = e]
<1>2. p \in Profile /\ p.effect = e
  BY <1>1, ActiveLemma DEF Profile
<1>3. PICK fails \in FailSets :
        /\ profiles' = [profiles EXCEPT ![power] = p]
        /\ Finish(tick(p, idle_off, NewEngine(e), hw, 0, fails))
  BY DEF change_effect
<1> DEFINE o == tick(p, idle_off, NewEngine(e), hw, 0, fails)
<1> HIDE DEF p
<1>4. /\ o \in Outcome /\ o.engine.effect = e
      /\ Coherent(o.engine, o.hw)
  <2>1. 0 \in Waves /\ hw \in Hardware /\ idle_off \in BOOLEAN
    BY <1>1, LightAssumption DEF TypeOK
  <2>2. QED
    BY <2>1, <1>2, NewEngineLemma, TickLemma
<1>5. /\ profiles' \in [PowerSource -> Profile]
      /\ profiles'[power'].effect = e
      /\ power' \in PowerSource
  BY <1>1, <1>2, <1>3, ReplaceLemma DEF change_effect, TypeOK
<1>6. Kept(o) /\ Finish(o)
  BY <1>3, <1>4, <1>5 DEF Kept
<1> HIDE DEF o
<1>7. QED
  BY <1>1, <1>5, <1>6, FinishLemma DEF change_effect, NoPoll, TypeOK

\* Every operation that stores p and shows it: the switch and the level.
LEMMA LightStep ==
  ASSUME IInv, NEW p \in Profile, p.effect = ActiveProfile.effect,
         NEW off \in BOOLEAN, NEW lit \in BOOLEAN, NEW w \in Waves, NEW fails,
         profiles' = [profiles EXCEPT ![power] = p], power' = power,
         fan_boost' = fan_boost, idle_off' \in BOOLEAN, dirty' \in BOOLEAN,
         Finish(light(p, off, lit, engine, hw, w, fails)), NoPoll
  PROVE  IInv'
<1>1. TypeOK
  BY DEF IInv
<1> DEFINE o == light(p, off, lit, engine, hw, w, fails)
<1>2. /\ o \in Outcome /\ o.engine.effect = engine.effect
      /\ Coherent(engine, hw) => Coherent(o.engine, o.hw)
  BY <1>1, LightLemma DEF TypeOK
<1>3. /\ profiles' \in [PowerSource -> Profile]
      /\ profiles'[power'].effect = engine.effect
      /\ power' \in PowerSource
  BY <1>1, ReplaceLemma DEF IInv, EngineFollowsProfile, TypeOK
<1>4. RestoreOnResume /\ ~resuming' => Coherent(engine, hw)
  BY DEF IInv, FrameOnKeyboard, Coherent, NoPoll
<1> HIDE DEF o
<1>5. Kept(o) /\ Finish(o)
  BY <1>2, <1>3, <1>4 DEF Kept, o
<1>6. QED
  BY <1>1, <1>3, <1>5, FinishLemma DEF NoPoll, TypeOK

\* Every operation that ends in apply_all for the profile it leaves active.
LEMMA ApplyAllStep ==
  ASSUME IInv, NEW p \in Profile, NEW off \in BOOLEAN, NEW boost \in BOOLEAN,
         NEW fails,
         profiles' \in [PowerSource -> Profile], power' \in PowerSource,
         profiles'[power'] = p,
         fan_boost' \in BOOLEAN, dirty' \in BOOLEAN, idle_off' = idle_off,
         resuming' \in BOOLEAN, UNCHANGED <<notice, last_hw_changed, unread>>,
         Finish(apply_all(p, off, boost, hw, fails))
  PROVE  IInv'
<1>1. TypeOK
  BY DEF IInv
<1> DEFINE o == apply_all(p, off, boost, hw, fails)
<1>2. /\ o \in Outcome /\ o.engine.effect = p.effect
      /\ Coherent(o.engine, o.hw)
  BY <1>1, ApplyAllLemma DEF TypeOK
<1> HIDE DEF o
<1>3. Kept(o) /\ Finish(o)
  BY <1>2 DEF Kept, o
<1>4. QED
  BY <1>1, <1>3, FinishLemma DEF TypeOK

\* Clamping a byte between 1 and 10 leaves a byte.
LEMMA ClampLemma ==
  ASSUME NEW x \in U8
  PROVE  clamp(x, 1, 10) \in U8
BY DEF clamp, U8

\* Changing kind and speed of an effect keeps it an effect.
LEMMA EffectLemma ==
  ASSUME NEW e \in Effect, NEW kind \in EffectKind, NEW s \in U8
  PROVE  [e EXCEPT !.kind = kind, !.speed = s] \in Effect
BY DEF Effect

\* Every setter.
LEMMA SetterStep ==
  ASSUME IInv, Setter
  PROVE  IInv'
<1>1. /\ TypeOK /\ ActiveProfile \in Profile /\ ActiveEffect \in Effect
      /\ ActiveProfile = profiles[power] /\ power \in PowerSource
      /\ ActiveEffect = ActiveProfile.effect
  BY ActiveLemma DEF IInv, TypeOK
<1>2. ASSUME NEW on \in BOOLEAN, set_enabled(on) PROVE IInv'
  <2> DEFINE p == [profiles[power] EXCEPT !.enabled = on]
  <2>1. p \in Profile /\ p.effect = ActiveProfile.effect
    BY <1>1 DEF Profile
  <2>2. PICK fails \in FailSets, w \in Waves :
          /\ profiles' = [profiles EXCEPT ![power] = p]
          /\ Finish(light(p, FALSE, on, engine, hw, w, fails))
    BY <1>2 DEF set_enabled
  <2> HIDE DEF p
  <2>3. QED
    BY <1>2, <2>1, <2>2, LightStep DEF set_enabled
<1>3. ASSUME NEW level \in LevelInputs, set_brightness(level) PROVE IInv'
  <2>0. level \in Nat /\ HwMax \in Nat
    BY InputAssumption, LevelAssumption DEF U8
  <2>1. CASE level > HwMax
    <3>1. ~(level <= HwMax)
      BY <2>0, <2>1
    <3>2. Rejected /\ UNCHANGED <<profiles, dirty, idle_off>>
      BY <1>3, <3>1 DEF set_brightness
    <3>3. QED
      BY <1>1, <1>3, <3>2, QuietLemma
         DEF set_brightness, Rejected, NoPoll, TypeOK
  <2>2. CASE level <= HwMax
    <3> DEFINE p == AtLevel(profiles[power], level)
    <3>1. p \in Profile /\ p.effect = ActiveProfile.effect
      BY <1>1, InputAssumption, AtLevelLemma
    <3>2. level \in Nat /\ (level > 0) \in BOOLEAN
      BY InputAssumption DEF U8
    <3>3. ~(level > HwMax)
      BY <2>0, <2>2
    <3>4. /\ \E fails \in FailSets, w \in Waves :
               /\ profiles' = [profiles EXCEPT ![power] = p]
               /\ Finish(light(p, FALSE, level > 0, engine, hw, w, fails))
          /\ dirty' = TRUE /\ idle_off' = FALSE
      BY <1>3, <3>3 DEF set_brightness
    <3> HIDE DEF p
    <3>5. PICK fails \in FailSets, w \in Waves :
            /\ profiles' = [profiles EXCEPT ![power] = p]
            /\ Finish(light(p, FALSE, level > 0, engine, hw, w, fails))
      BY <3>4
    <3>6. QED
      BY <1>3, <3>1, <3>2, <3>4, <3>5, LightStep DEF set_brightness
  <2>3. QED
    BY <2>0, <2>1, <2>2
<1>4. ASSUME NEW color \in Colors, set_color(color) PROVE IInv'
  <2> DEFINE kind == IF ActiveEffect.kind = "breathing" THEN "breathing" ELSE "static"
             e == [ActiveEffect EXCEPT !.color = color, !.kind = kind]
  <2>1. e \in Effect
    BY <1>1 DEF Effect, EffectKind
  <2>2. QED
    BY <1>4, <2>1, ChangeEffectStep DEF set_color
<1>5. ASSUME NEW kind \in KindInputs, NEW speed \in SpeedInputs \cup {0},
             set_effect(kind, speed)
      PROVE  IInv'
  <2> DEFINE s == IF speed = 0 THEN ActiveEffect.speed ELSE clamp(speed, 1, 10)
             e == [ActiveEffect EXCEPT !.kind = kind, !.speed = s]
  <2>0. speed \in U8 /\ kind \in EffectKind
    BY InputAssumption DEF U8
  <2>1. s \in U8
    BY <1>1, <2>0, ClampLemma DEF Effect
  <2> HIDE DEF s
  <2>2. e \in Effect
    BY <1>1, <2>0, <2>1, EffectLemma
  <2>3. QED
    BY <1>5, <2>2, ChangeEffectStep DEF set_effect, s
<1>6. ASSUME NEW speed \in SpeedInputs, set_speed(speed) PROVE IInv'
  <2>0. clamp(speed, 1, 10) \in U8
    BY InputAssumption, ClampLemma
  <2>1. [ActiveEffect EXCEPT !.speed = clamp(speed, 1, 10)] \in Effect
    BY <1>1, <2>0 DEF Effect
  <2>2. QED
    BY <1>6, <2>1, ChangeEffectStep DEF set_speed
<1>7. ASSUME NEW colors \in ColorListInputs, set_cycle_colors(colors) PROVE IInv'
  <2>1. CASE colors = <<>>
    BY <1>1, <1>7, <2>1, QuietLemma
       DEF set_cycle_colors, Rejected, NoPoll, TypeOK
  <2>2. CASE colors # <<>>
    <3>1. [ActiveEffect EXCEPT !.colors = colors] \in Effect
      BY <1>1, InputAssumption DEF Effect
    <3>2. QED
      BY <1>7, <2>2, <3>1, ChangeEffectStep DEF set_cycle_colors
  <2>3. QED
    BY <2>1, <2>2
<1>8. ASSUME NEW mode \in FanInputs, set_fan_mode(mode) PROVE IInv'
  <2>1. mode \in FanMode
    BY InputAssumption
  <2>2. CASE Rejected /\ UNCHANGED <<profiles, dirty>>
    BY <1>1, <1>8, <2>2, QuietLemma DEF set_fan_mode, Rejected, NoPoll, TypeOK
  <2>3. CASE /\ profiles' = [profiles EXCEPT ![power].fan_mode = mode]
             /\ dirty' = TRUE
             /\ Finish([engine |-> engine, hw |-> [hw EXCEPT !.fan_mode = mode],
                        ok |-> TRUE])
    <3> DEFINE p == [profiles[power] EXCEPT !.fan_mode = mode]
               o == [engine |-> engine, hw |-> [hw EXCEPT !.fan_mode = mode],
                     ok |-> TRUE]
    <3>1. p \in Profile /\ p.effect = ActiveProfile.effect
      BY <1>1, <2>1 DEF Profile
    <3>2. profiles' = [profiles EXCEPT ![power] = p]
      BY <1>1, <2>3 DEF TypeOK
    <3>3. /\ profiles' \in [PowerSource -> Profile]
          /\ profiles'[power].effect = ActiveProfile.effect
      BY <1>1, <3>1, <3>2, ReplaceLemma
    <3>4. /\ o \in Outcome /\ o.engine = engine
          /\ o.hw.intensity = hw.intensity
      BY <1>1, <2>1 DEF TypeOK, Outcome, Hardware
    <3>5. Kept(o) /\ Finish(o)
      BY <1>8, <2>3, <3>3, <3>4
         DEF set_fan_mode, NoPoll, Kept, Coherent, IInv, FrameOnKeyboard,
             EngineFollowsProfile
    <3> HIDE DEF p, o
    <3>6. QED
      BY <1>1, <1>8, <2>3, <3>3, <3>5, FinishLemma
         DEF set_fan_mode, NoPoll, TypeOK
  <2>4. QED
    BY <1>8, <2>2, <2>3 DEF set_fan_mode
<1>9. ASSUME NEW on \in BoostInputs, set_fan_boost(on) PROVE IInv'
  <2>1. on \in BOOLEAN
    BY InputAssumption
  <2>2. CASE Rejected /\ UNCHANGED <<fan_boost, dirty>>
    BY <1>1, <1>9, <2>2, QuietLemma DEF set_fan_boost, Rejected, NoPoll, TypeOK
  <2>3. CASE /\ fan_boost' = on
             /\ dirty' = TRUE
             /\ Finish([engine |-> engine, hw |-> [hw EXCEPT !.fan_boost = on],
                        ok |-> TRUE])
    <3> DEFINE o == [engine |-> engine, hw |-> [hw EXCEPT !.fan_boost = on],
                     ok |-> TRUE]
    <3>1. /\ o \in Outcome /\ o.engine = engine
          /\ o.hw.intensity = hw.intensity
      BY <1>1, <2>1 DEF TypeOK, Outcome, Hardware
    <3>2. Kept(o) /\ Finish(o)
      BY <1>1, <1>9, <2>3, <3>1
         DEF set_fan_boost, NoPoll, Kept, Coherent, IInv, FrameOnKeyboard,
             EngineFollowsProfile
    <3> HIDE DEF o
    <3>3. QED
      BY <1>1, <1>9, <2>1, <2>3, <3>2, FinishLemma
         DEF set_fan_boost, NoPoll, TypeOK
  <2>4. QED
    BY <1>9, <2>2, <2>3 DEF set_fan_boost
<1>10. ASSUME NEW source \in PowerSource, NEW profile \in ProfileInputs,
              set_profile(source, profile)
       PROVE  IInv'
  <2>1. profile \in Profile
    BY InputAssumption
  <2>2. profiles' \in [PowerSource -> Profile] /\ profiles'[source] = profile
    BY <1>1, <1>10, <2>1 DEF set_profile, TypeOK
  <2>3. CASE source = power
    <3>1. PICK fails \in FailSets :
            Finish(apply_all(profile, idle_off, fan_boost, hw, fails))
      BY <1>10, <2>3 DEF set_profile
    <3>2. QED
      BY <1>1, <1>10, <2>1, <2>2, <2>3, <3>1, ApplyAllStep
         DEF set_profile, NoPoll, TypeOK
  <2>4. CASE source # power
    <3>1. profiles'[power] = ActiveProfile
      BY <1>1, <1>10, <2>4 DEF set_profile, TypeOK
    <3>2. QED
      BY <1>1, <1>10, <2>2, <2>4, <3>1, QuietLemma
         DEF set_profile, NoPoll, TypeOK
  <2>5. QED
    BY <2>3, <2>4
<1>11. CASE reset_to_config
  <2>1. PICK fails \in FailSets :
          Finish(apply_all(ConfigProfiles[power], idle_off, FALSE, hw, fails))
    BY <1>11 DEF reset_to_config
  <2>2. /\ ConfigProfiles[power] \in Profile /\ power' = power
        /\ profiles' \in [PowerSource -> Profile]
        /\ profiles'[power'] = ConfigProfiles[power]
    BY <1>1, <1>11, InputAssumption DEF reset_to_config
  <2>3. QED
    BY <1>1, <1>11, <2>1, <2>2, ApplyAllStep DEF reset_to_config, NoPoll, TypeOK
<1>12. CASE reapply
  <2>1. PICK fails \in FailSets :
          Finish(apply_all(profiles[power], idle_off, fan_boost, hw, fails))
    BY <1>12 DEF reapply
  <2>2. QED
    BY <1>1, <1>12, <2>1, ApplyAllStep DEF reapply, NoPoll, TypeOK
<1>13. QED
  BY <1>2, <1>3, <1>4, <1>5, <1>6, <1>7, <1>8, <1>9, <1>10, <1>11, <1>12
     DEF Setter

\* Every event of power, idle, resume, poll and animation.
LEMMA EventStep ==
  ASSUME IInv, Event
  PROVE  IInv'
<1>1. /\ TypeOK /\ ActiveProfile \in Profile
      /\ ActiveProfile = profiles[power] /\ power \in PowerSource
  BY ActiveLemma DEF IInv, TypeOK
<1>2. ASSUME NEW pow \in PowerSource, set_power_source(pow) PROVE IInv'
  <2>1. CASE pow = power
    BY <1>1, <1>2, <2>1, QuietLemma DEF set_power_source, NoPoll, TypeOK
  <2>2. CASE pow # power
    <3>1. PICK fails \in FailSets :
            Finish(apply_all(profiles[pow], idle_off, fan_boost, hw, fails))
      BY <1>2, <2>2 DEF set_power_source
    <3>2. profiles[pow] \in Profile
      BY <1>1 DEF TypeOK
    <3>3. QED
      BY <1>1, <1>2, <3>1, <3>2, ApplyAllStep
         DEF set_power_source, NoPoll, TypeOK
  <2>3. QED
    BY <2>1, <2>2
<1>3. ASSUME NEW off \in BOOLEAN, set_idle_off(off) PROVE IInv'
  <2>1. CASE off = idle_off
    BY <1>1, <1>3, <2>1, QuietLemma DEF set_idle_off, NoPoll, TypeOK
  <2>2. CASE off # idle_off
    <3>1. PICK fails \in FailSets, w \in Waves :
            Finish(light(profiles[power], off, ~off, engine, hw, w, fails))
      BY <1>3, <2>2 DEF set_idle_off
    <3>2. profiles' = [profiles EXCEPT ![power] = profiles[power]]
      BY <1>1, <1>3 DEF set_idle_off, TypeOK
    <3>3. QED
      BY <1>1, <1>3, <3>1, <3>2, LightStep DEF set_idle_off, TypeOK
  <2>3. QED
    BY <2>1, <2>2
<1>4. CASE poll_hw_brightness
  <2>1. /\ last_hw_changed' \in Notice /\ unread' = FALSE
        /\ UNCHANGED <<fan_boost, power, notice, resuming>>
    BY <1>1, <1>4 DEF poll_hw_brightness, TypeOK
  <2>2. CASE /\ result' \in {"ok", "err"}
             /\ UNCHANGED <<profiles, idle_off, dirty, engine, hw>>
    BY <1>1, <2>1, <2>2, QuietLemma DEF TypeOK
  <2>3. ASSUME NEW level \in HwChange, NEW fails \in FailSets, NEW w \in Waves,
               NEW p, p = AtLevel(profiles[power], level),
               profiles' = [profiles EXCEPT ![power] = p],
               dirty' = TRUE, idle_off' = FALSE,
               Finish(IF p.enabled
                      THEN tick(p, FALSE, invalidate(engine), hw, w, fails)
                      ELSE [engine |-> engine, hw |-> hw, ok |-> TRUE])
        PROVE  IInv'
    <3>1. level \in U8
      BY <1>1, LevelAssumption DEF HwChange, TypeOK, Notice, U8
    <3>2. p \in Profile /\ p.effect = ActiveProfile.effect
      BY <1>1, <2>3, <3>1, AtLevelLemma
    <3>3. /\ profiles' \in [PowerSource -> Profile]
          /\ profiles'[power].effect = ActiveProfile.effect
      BY <1>1, <2>3, <3>2, ReplaceLemma
    <3> DEFINE eng == invalidate(engine)
               ticked == tick(p, FALSE, eng, hw, w, fails)
               o == IF p.enabled THEN ticked
                    ELSE [engine |-> engine, hw |-> hw, ok |-> TRUE]
    <3>4. /\ eng \in Engine /\ hw \in Hardware
          /\ eng.effect = engine.effect
          /\ Coherent(eng, hw)
      BY <1>1 DEF TypeOK, invalidate, Engine, Coherent
    <3> HIDE DEF eng
    <3>5. /\ ticked \in Outcome /\ ticked.engine.effect = engine.effect
          /\ Coherent(ticked.engine, ticked.hw)
      <4>1. ASSUME NEW off \in BOOLEAN
            PROVE  LET t == tick(p, off, eng, hw, w, fails)
                   IN  /\ t \in Outcome /\ t.engine.effect = engine.effect
                       /\ Coherent(t.engine, t.hw)
        BY <3>2, <3>4, TickLemma
      <4>2. FALSE \in BOOLEAN
        OBVIOUS
      <4>3. QED
        BY <4>1, <4>2
    <3> HIDE DEF ticked
    <3>6. Kept(o)
      BY <1>1, <2>1, <3>3, <3>5
         DEF Kept, IInv, TypeOK, EngineFollowsProfile, FrameOnKeyboard, Coherent,
             Outcome
    <3>7. Finish(o)
      BY <2>3 DEF ticked, eng
    <3> HIDE DEF o
    <3>8. QED
      BY <1>1, <2>1, <2>3, <3>3, <3>6, <3>7, FinishLemma DEF TypeOK
  <2>4. QED
    BY <1>4, <2>2, <2>3 DEF poll_hw_brightness
<1>5. CASE effect_tick
  <2>1. PICK fails \in FailSets, w \in Waves :
          Finish(tick(profiles[power], idle_off, engine, hw, w, fails))
    BY <1>5 DEF effect_tick
  <2> DEFINE o == tick(profiles[power], idle_off, engine, hw, w, fails)
  <2>2. /\ o \in Outcome /\ o.engine.effect = engine.effect
        /\ Coherent(engine, hw) => Coherent(o.engine, o.hw)
    BY <1>1, TickLemma DEF TypeOK
  <2> HIDE DEF o
  <2>3. Kept(o) /\ Finish(o)
    BY <1>1, <1>5, <2>1, <2>2
       DEF o, effect_tick, NoPoll, Kept, IInv, EngineFollowsProfile,
           FrameOnKeyboard, Coherent
  <2>4. QED
    BY <1>1, <1>5, <2>3, FinishLemma DEF effect_tick, NoPoll, TypeOK
<1>6. CASE resume
  <2>1. CASE RestoreOnResume
    <3>1. PICK fails \in FailSets :
            Finish(apply_all(profiles[power], idle_off, fan_boost, hw, fails))
      BY <1>6, <2>1 DEF resume
    <3>2. QED
      BY <1>1, <1>6, <3>1, ApplyAllStep DEF resume, TypeOK
  <2>2. CASE ~RestoreOnResume
    BY <1>1, <1>6, <2>2, QuietLemma DEF resume, TypeOK
  <2>3. QED
    BY <2>1, <2>2
<1>7. QED
  BY <1>2, <1>3, <1>4, <1>5, <1>6 DEF Event

\* Every move of the hardware below.
LEMMA FirmwareStep ==
  ASSUME IInv, Firmware
  PROVE  IInv'
<1>1. ASSUME NEW level \in 0..HwMax, FnKey(level) PROVE IInv'
  <2>1. hw' \in Hardware /\ hw'.intensity = hw.intensity /\ notice' \in Notice
    BY <1>1 DEF FnKey, IInv, TypeOK, Hardware, Notice
  <2>2. QED
    BY <1>1, <2>1 DEF FnKey, ctlVars, IInv, TypeOK, EngineFollowsProfile,
                      ActiveProfile, FrameOnKeyboard
<1>2. ASSUME NEW h \in FoundHardware(ResetLevels), EcReset(h) PROVE IInv'
  <2>1. h \in Hardware
    BY InputAssumption, FoundLemma
  <2>2. QED
    BY <1>2, <2>1 DEF EcReset, ctlVars, IInv, TypeOK, EngineFollowsProfile,
                      ActiveProfile, FrameOnKeyboard
<1>3. QED
  BY <1>1, <1>2 DEF Firmware

-----------------------------------------------------------------------------
(***************************************************************************)
(* What the steps write to the keyboard.                                   *)
(***************************************************************************)
\* Hardware h shows profile p, or is dark when `off` or the profile says so.
ShownBy(p, off, h) ==
    /\ h.brightness = Level(p, off)
    /\ ~off /\ p.enabled => \E w \in Waves : h.intensity = frame_at(p.effect, w)

\* From h to g no colour is sent to a keyboard that p or `off` keeps dark.
DarkBy(p, off, h, g) == off \/ ~p.enabled => g.intensity = h.intensity

LEMMA ShownLemma ==
  /\ Shown <=> ShownBy(ActiveProfile, idle_off, hw)
  /\ Shown' <=> ShownBy(profiles'[power'], idle_off', hw')
  /\ Lit' <=> ~idle_off' /\ profiles'[power'].enabled
BY DEF Shown, ShownBy, Lit, ActiveProfile

\* A tick sends nothing to a dark keyboard; elsewhere a tick that succeeds
\* after invalidate() has written the frame.
LEMMA TickWrites ==
  ASSUME NEW p \in Profile, NEW off \in BOOLEAN, NEW eng \in Engine,
         NEW h \in Hardware, NEW w \in Waves, NEW fails
  PROVE  LET o == tick(p, off, eng, h, w, fails)
         IN  /\ o.hw.brightness = h.brightness
             /\ DarkBy(p, off, h, o.hw)
             /\ o.ok /\ ~off /\ p.enabled /\ eng.last_frame = NoFrame =>
                  o.hw.intensity = frame_at(eng.effect, w)
<1> DEFINE f == frame_at(eng.effect, w)
           o == tick(p, off, eng, h, w, fails)
<1>1. f \in Frames /\ clamp_intensity(f) = f
  BY FrameLemma DEF Engine
<1>2. NoFrame \notin Frames
  BY LightAssumption
<1> HIDE DEF f
<1>3. o = IF off \/ ~p.enabled \/ eng.last_frame = f
          THEN [engine |-> eng, hw |-> h, ok |-> TRUE]
          ELSE [engine |-> IF Multicolor /\ "intensity" \notin fails
                           THEN [eng EXCEPT !.last_frame = f] ELSE eng,
                hw |-> IF Multicolor /\ "intensity" \notin fails
                       THEN [h EXCEPT !.intensity = f] ELSE h,
                ok |-> Multicolor /\ "intensity" \notin fails]
  BY <1>1 DEF tick, engine_apply, f
<1>4. /\ [h EXCEPT !.intensity = f].intensity = f
      /\ [h EXCEPT !.intensity = f].brightness = h.brightness
  BY DEF Hardware
<1> HIDE DEF o
<1>5. /\ o.hw.brightness = h.brightness
      /\ DarkBy(p, off, h, o.hw)
      /\ o.ok /\ ~off /\ p.enabled /\ eng.last_frame = NoFrame =>
           o.hw.intensity = f
  <2>1. CASE off \/ ~p.enabled \/ eng.last_frame = f
    BY <1>1, <1>2, <1>3, <2>1 DEF DarkBy
  <2>2. CASE ~(off \/ ~p.enabled \/ eng.last_frame = f)
    BY <1>3, <1>4, <2>2 DEF DarkBy
  <2>3. QED
    BY <2>1, <2>2
<1>6. QED
  BY <1>5 DEF o, f

\* Showing a profile sends nothing to a keyboard it keeps dark, and has shown
\* it if it succeeds.
LEMMA LightWrites ==
  ASSUME NEW p \in Profile, NEW off \in BOOLEAN, NEW lit \in BOOLEAN,
         NEW eng \in Engine, NEW h \in Hardware, NEW w \in Waves, NEW fails,
         eng.effect = p.effect, lit \/ off \/ ~p.enabled
  PROVE  LET o == light(p, off, lit, eng, h, w, fails)
         IN  /\ DarkBy(p, off, h, o.hw)
             /\ o.ok => ShownBy(p, off, o.hw)
<1> DEFINE g == apply_brightness(p, off, h, fails)
           inv == invalidate(eng)
           o == light(p, off, lit, eng, h, w, fails)
<1>1. /\ g \in Hardware /\ g.intensity = h.intensity
      /\ "brightness" \notin fails => g.brightness = Level(p, off)
  <2>1. g \in Hardware /\ g.intensity = h.intensity
    BY BrightnessLemma
  <2>2. "brightness" \notin fails => g.brightness = Level(p, off)
    BY DEF apply_brightness, Hardware
  <2>3. QED
    BY <2>1, <2>2
<1>2. /\ inv \in Engine /\ inv.effect = p.effect
      /\ inv.last_frame = NoFrame
  BY DEF invalidate, Engine
<1>3. o = IF "brightness" \in fails \/ ~lit
          THEN [engine |-> eng, hw |-> g, ok |-> "brightness" \notin fails]
          ELSE tick(p, off, inv, g, w, fails)
  BY DEF light
<1> HIDE DEF g, inv, o
<1>4. CASE "brightness" \in fails \/ ~lit
  <2>1. o.hw = g /\ (o.ok <=> "brightness" \notin fails)
    BY <1>3, <1>4
  <2>2. o.ok => ShownBy(p, off, g)
    BY <1>1, <1>4, <2>1 DEF ShownBy
  <2>3. QED
    BY <1>1, <2>1, <2>2 DEF DarkBy, o
<1>5. CASE ~("brightness" \in fails \/ ~lit)
  <2> DEFINE t == tick(p, off, inv, g, w, fails)
  <2>1. /\ t.hw.brightness = g.brightness
        /\ DarkBy(p, off, g, t.hw)
        /\ t.ok /\ ~off /\ p.enabled /\ inv.last_frame = NoFrame =>
             t.hw.intensity = frame_at(inv.effect, w)
    BY <1>1, <1>2, TickWrites
  <2>2. o = t
    BY <1>3, <1>5
  <2> HIDE DEF t
  <2>3. QED
    BY <1>1, <1>2, <1>5, <2>1, <2>2 DEF DarkBy, ShownBy, o
<1>6. QED
  BY <1>4, <1>5 DEF o

\* So does applying a whole profile.
LEMMA ApplyAllWrites ==
  ASSUME NEW p \in Profile, NEW off \in BOOLEAN, NEW boost \in BOOLEAN,
         NEW h \in Hardware, NEW fails
  PROVE  LET o == apply_all(p, off, boost, h, fails)
         IN  /\ DarkBy(p, off, h, o.hw)
             /\ o.ok => ShownBy(p, off, o.hw)
<1> DEFINE on == ~off /\ p.enabled
           new == NewEngine(p.effect)
           lit == light(p, off, on, new, h, 0, fails)
           o == apply_all(p, off, boost, h, fails)
<1>1. p.effect \in Effect /\ on \in BOOLEAN /\ 0 \in Waves
      /\ (on \/ off \/ ~p.enabled)
  BY LightAssumption DEF Profile
<1>2. new \in Engine /\ new.effect = p.effect
  BY <1>1, NewEngineLemma
<1>3. o = IF lit.ok THEN [lit EXCEPT !.hw = apply_fans(p, boost, lit.hw, fails)]
          ELSE lit
  BY DEF apply_all
<1> HIDE DEF new, on
<1>4. /\ lit \in Outcome
      /\ DarkBy(p, off, h, lit.hw)
      /\ lit.ok => ShownBy(p, off, lit.hw)
  BY <1>1, <1>2, LightLemma, LightWrites
<1> HIDE DEF lit, o
<1> DEFINE g == apply_fans(p, boost, lit.hw, fails)
<1>5. g.brightness = lit.hw.brightness /\ g.intensity = lit.hw.intensity
  BY <1>4 DEF apply_fans, Hardware, Outcome
<1>6. CASE lit.ok
  <2>1. o.hw = g
    BY <1>3, <1>4, <1>6 DEF Outcome
  <2> HIDE DEF g
  <2>2. QED
    BY <1>4, <1>5, <1>6, <2>1 DEF DarkBy, ShownBy, o
<1>7. CASE ~lit.ok
  BY <1>3, <1>4, <1>7 DEF o
<1>8. QED
  BY <1>6, <1>7

\* What an operation owes that ends in Finish(o).
Dark == ~Lit' => hw'.intensity = hw.intensity

OkShown == result' = "ok" => Shown'

LEMMA FinishWrites ==
  ASSUME NEW o, Finish(o), NEW p, p = profiles'[power'],
         DarkBy(p, idle_off', hw, o.hw)
  PROVE  /\ Dark
         /\ (o.ok => ShownBy(p, idle_off', o.hw)) => OkShown
<1>1. hw' = o.hw /\ (result' = "ok" => o.ok)
  BY DEF Finish
<1>2. QED
  BY <1>1, ShownLemma DEF Dark, OkShown, DarkBy

\* An operation that ends in apply_all for the profile it leaves active.
LEMMA ApplyAllStepWrites ==
  ASSUME TypeOK, NEW p \in Profile, NEW boost \in BOOLEAN, NEW fails,
         profiles'[power'] = p, idle_off' = idle_off,
         Finish(apply_all(p, idle_off, boost, hw, fails))
  PROVE  Dark /\ OkShown
<1> DEFINE o == apply_all(p, idle_off, boost, hw, fails)
<1>1. /\ DarkBy(p, idle_off, hw, o.hw)
      /\ o.ok => ShownBy(p, idle_off, o.hw)
  BY ApplyAllWrites DEF TypeOK
<1> HIDE DEF o
<1>2. QED
  BY <1>1, FinishWrites DEF o

\* An operation that ends in light for the profile it leaves active.
LEMMA LightStepWrites ==
  ASSUME IInv, NEW p \in Profile, p.effect = ActiveProfile.effect,
         NEW off \in BOOLEAN, NEW lit \in BOOLEAN, lit \/ off \/ ~p.enabled,
         NEW w \in Waves, NEW fails,
         profiles'[power'] = p, idle_off' = off,
         Finish(light(p, off, lit, engine, hw, w, fails))
  PROVE  Dark /\ OkShown
<1>1. engine \in Engine /\ hw \in Hardware /\ engine.effect = p.effect
  BY DEF IInv, TypeOK, EngineFollowsProfile
<1> DEFINE o == light(p, off, lit, engine, hw, w, fails)
<1>2. /\ DarkBy(p, off, hw, o.hw)
      /\ o.ok => ShownBy(p, off, o.hw)
  BY <1>1, LightWrites
<1> HIDE DEF o
<1>3. QED
  BY <1>2, FinishWrites DEF o

\* A step that ends in a tick for the profile it leaves active.
LEMMA TickStepDark ==
  ASSUME TypeOK, NEW p \in Profile, NEW off \in BOOLEAN, NEW eng \in Engine,
         NEW w \in Waves, NEW fails,
         profiles'[power'] = p, idle_off' = off,
         Finish(tick(p, off, eng, hw, w, fails))
  PROVE  Dark
<1> DEFINE o == tick(p, off, eng, hw, w, fails)
<1>1. DarkBy(p, off, hw, o.hw)
  BY TickWrites DEF TypeOK
<1> HIDE DEF o
<1>2. QED
  BY <1>1, FinishWrites DEF o

\* A step that leaves the hardware alone sends no colour.
LEMMA QuietDark ==
  ASSUME hw' = hw
  PROVE  Dark
BY DEF Dark

-----------------------------------------------------------------------------
\* The operations that OkMeansShown names, one lemma for each kind.
LEMMA SetEnabledWrites ==
  ASSUME IInv, NEW on \in BOOLEAN, set_enabled(on)
  PROVE  Dark /\ OkShown
<1>1. TypeOK /\ ActiveProfile \in Profile /\ ActiveProfile = profiles[power]
  BY ActiveLemma DEF IInv
<1> DEFINE p == [profiles[power] EXCEPT !.enabled = on]
<1>2. p \in Profile /\ p.effect = ActiveProfile.effect /\ p.enabled = on
  BY <1>1 DEF Profile
<1>3. PICK fails \in FailSets, w \in Waves :
        /\ profiles' = [profiles EXCEPT ![power] = p]
        /\ Finish(light(p, FALSE, on, engine, hw, w, fails))
  BY DEF set_enabled
<1> HIDE DEF p
<1>4. profiles'[power'] = p /\ idle_off' = FALSE
  BY <1>1, <1>2, <1>3, ReplaceLemma DEF set_enabled
<1>5. QED
  BY <1>2, <1>3, <1>4, LightStepWrites

LEMMA SetBrightnessWrites ==
  ASSUME IInv, NEW level \in LevelInputs, set_brightness(level)
  PROVE  Dark /\ OkShown
<1>1. TypeOK /\ ActiveProfile \in Profile /\ ActiveProfile = profiles[power]
  BY ActiveLemma DEF IInv
<1>2. level \in U8 /\ level \in Nat /\ (level > 0) \in BOOLEAN
  BY InputAssumption DEF U8
<1>3. CASE Rejected
  BY <1>3, QuietDark DEF Rejected, OkShown
<1> DEFINE p == AtLevel(profiles[power], level)
<1>4. /\ p \in Profile /\ p.effect = ActiveProfile.effect
      /\ (level > 0) \/ ~p.enabled
  <2>1. p \in Profile /\ p.effect = ActiveProfile.effect
    BY <1>1, <1>2, AtLevelLemma
  <2>2. level = 0 => ~p.enabled
    BY <1>1 DEF AtLevel, Profile
  <2>3. QED
    BY <1>2, <2>1, <2>2
<1> HIDE DEF p
<1>5. ASSUME NEW fails \in FailSets, NEW w \in Waves,
             profiles' = [profiles EXCEPT ![power] = p],
             Finish(light(p, FALSE, level > 0, engine, hw, w, fails)),
             idle_off' = FALSE
      PROVE  Dark /\ OkShown
  <2>1. profiles'[power'] = p
    BY <1>1, <1>4, <1>5, ReplaceLemma DEF set_brightness
  <2>2. QED
    BY <1>2, <1>4, <1>5, <2>1, LightStepWrites
<1>6. QED
  BY <1>3, <1>5 DEF set_brightness, p

LEMMA SetProfileWrites ==
  ASSUME IInv, NEW source \in PowerSource, NEW profile \in ProfileInputs,
         set_profile(source, profile)
  PROVE  Dark /\ (source = power => OkShown)
<1>1. TypeOK /\ power \in PowerSource /\ fan_boost \in BOOLEAN
  BY DEF IInv, TypeOK
<1>2. CASE source = power
  <2>1. PICK fails \in FailSets :
          Finish(apply_all(profile, idle_off, fan_boost, hw, fails))
    BY <1>2 DEF set_profile
  <2>2. profile \in Profile /\ profiles'[power'] = profile /\ idle_off' = idle_off
    BY <1>1, <1>2, InputAssumption DEF set_profile, TypeOK
  <2>3. QED
    BY <1>1, <2>1, <2>2, ApplyAllStepWrites
<1>3. CASE source # power
  BY <1>3, QuietDark DEF set_profile
<1>4. QED
  BY <1>2, <1>3

LEMMA ResetWrites ==
  ASSUME IInv, reset_to_config
  PROVE  Dark /\ OkShown
<1>1. TypeOK
  BY DEF IInv
<1>2. PICK fails \in FailSets :
        Finish(apply_all(ConfigProfiles[power], idle_off, FALSE, hw, fails))
  BY DEF reset_to_config
<1>3. /\ ConfigProfiles[power] \in Profile /\ idle_off' = idle_off
      /\ profiles'[power'] = ConfigProfiles[power]
  BY <1>1, InputAssumption DEF reset_to_config, TypeOK
<1>4. FALSE \in BOOLEAN
  OBVIOUS
<1>5. QED
  BY <1>1, <1>2, <1>3, <1>4, ApplyAllStepWrites

LEMMA ReapplyWrites ==
  ASSUME IInv, reapply
  PROVE  Dark /\ OkShown
<1>1. TypeOK /\ profiles[power] \in Profile /\ fan_boost \in BOOLEAN
  BY DEF IInv, TypeOK
<1>2. PICK fails \in FailSets :
        Finish(apply_all(profiles[power], idle_off, fan_boost, hw, fails))
  BY DEF reapply
<1>3. QED
  BY <1>1, <1>2, ApplyAllStepWrites DEF reapply

LEMMA ResumeWrites ==
  ASSUME IInv, resume
  PROVE  Dark /\ (RestoreOnResume => OkShown)
<1>1. TypeOK /\ profiles[power] \in Profile /\ fan_boost \in BOOLEAN
  BY DEF IInv, TypeOK
<1>2. CASE RestoreOnResume
  <2>1. PICK fails \in FailSets :
          Finish(apply_all(profiles[power], idle_off, fan_boost, hw, fails))
    BY <1>2 DEF resume
  <2>2. QED
    BY <1>1, <2>1, ApplyAllStepWrites DEF resume
<1>3. CASE ~RestoreOnResume
  BY <1>3, QuietDark DEF resume
<1>4. QED
  BY <1>2, <1>3

LEMMA PowerWrites ==
  ASSUME IInv, NEW pow \in PowerSource, set_power_source(pow)
  PROVE  Dark /\ (pow # power => OkShown)
<1>1. TypeOK /\ profiles[pow] \in Profile /\ fan_boost \in BOOLEAN
  BY DEF IInv, TypeOK
<1>2. CASE pow # power
  <2>1. PICK fails \in FailSets :
          Finish(apply_all(profiles[pow], idle_off, fan_boost, hw, fails))
    BY <1>2 DEF set_power_source
  <2>2. QED
    BY <1>1, <2>1, ApplyAllStepWrites DEF set_power_source
<1>3. CASE pow = power
  BY <1>3, QuietDark DEF set_power_source
<1>4. QED
  BY <1>2, <1>3

LEMMA IdleWrites ==
  ASSUME IInv, NEW off \in BOOLEAN, set_idle_off(off)
  PROVE  Dark /\ (off # idle_off => OkShown)
<1>1. ActiveProfile \in Profile /\ ActiveProfile = profiles[power]
  BY ActiveLemma DEF IInv
<1>2. CASE off # idle_off
  <2>1. PICK fails \in FailSets, w \in Waves :
          Finish(light(profiles[power], off, ~off, engine, hw, w, fails))
    BY <1>2 DEF set_idle_off
  <2>2. profiles'[power'] = profiles[power] /\ idle_off' = off
    BY DEF set_idle_off
  <2>3. ~off \/ off \/ ~ActiveProfile.enabled
    OBVIOUS
  <2>4. QED
    BY <1>1, <2>1, <2>2, <2>3, LightStepWrites
<1>3. CASE off = idle_off
  BY <1>3, QuietDark DEF set_idle_off
<1>4. QED
  BY <1>2, <1>3

LEMMA ChangeEffectDark ==
  ASSUME IInv, NEW e \in Effect, change_effect(e)
  PROVE  Dark
<1>1. TypeOK /\ ActiveProfile \in Profile /\ ActiveProfile = profiles[power]
      /\ idle_off \in BOOLEAN
  BY ActiveLemma DEF IInv, TypeOK
<1> DEFINE p == [profiles[power] EXCEPT !.effect = e]
<1>2. p \in Profile
  BY <1>1 DEF Profile
<1>3. PICK fails \in FailSets :
        /\ profiles' = [profiles EXCEPT ![power] = p]
        /\ Finish(tick(p, idle_off, NewEngine(e), hw, 0, fails))
  BY DEF change_effect
<1> HIDE DEF p
<1>4. profiles'[power'] = p /\ idle_off' = idle_off
  BY <1>1, <1>2, <1>3, ReplaceLemma DEF change_effect
<1>5. NewEngine(e) \in Engine /\ 0 \in Waves
  BY NewEngineLemma, LightAssumption
<1>6. QED
  BY <1>1, <1>2, <1>3, <1>4, <1>5, TickStepDark

\* A poll that follows a Fn key the LED is still at has shown the profile.
LEMMA PollWrites ==
  ASSUME IInv, poll_hw_brightness
  PROVE  /\ Dark
         /\ /\ last_hw_changed' # last_hw_changed /\ FollowHw
            /\ notice = hw.brightness /\ HwMax <= MAX_BRIGHTNESS
            => OkShown
<1>1. /\ TypeOK /\ ActiveProfile \in Profile /\ ActiveProfile = profiles[power]
      /\ hw \in Hardware
  BY ActiveLemma DEF IInv, TypeOK
<1>2. CASE HwChange = {} \/ ~FollowHw
  <2>1. UNCHANGED hw /\ (FollowHw => last_hw_changed' = last_hw_changed)
    BY <1>2 DEF poll_hw_brightness
  <2>2. QED
    BY <2>1, QuietDark
<1>3. ASSUME NEW level \in HwChange, NEW fails \in FailSets, NEW w \in Waves,
             NEW p, p = AtLevel(profiles[power], level),
             profiles' = [profiles EXCEPT ![power] = p], idle_off' = FALSE,
             Finish(IF p.enabled
                    THEN tick(p, FALSE, invalidate(engine), hw, w, fails)
                    ELSE [engine |-> engine, hw |-> hw, ok |-> TRUE])
      PROVE  /\ Dark
             /\ notice = hw.brightness /\ HwMax <= MAX_BRIGHTNESS => OkShown
  <2>1. level = notice /\ level \in U8 /\ level \in 0..HwMax
    BY <1>1, LevelAssumption DEF HwChange, TypeOK, Notice, U8
  <2>2. p \in Profile /\ p.effect = ActiveProfile.effect
    BY <1>1, <1>3, <2>1, AtLevelLemma
  <2>3. /\ level = 0 => ~p.enabled
        /\ level # 0 => p.enabled /\ p.brightness = level
    BY <1>1, <1>3 DEF AtLevel, Profile
  <2>4. profiles'[power'] = p
    BY <1>1, <1>3, <2>2, ReplaceLemma DEF poll_hw_brightness
  <2>5. HwMax <= MAX_BRIGHTNESS => Level(p, FALSE) = level
    BY <2>1, <2>3, LevelAssumption DEF Level, effective_brightness, clamp
  <2>6. CASE p.enabled
    <3> DEFINE inv == invalidate(engine)
               o == tick(p, FALSE, inv, hw, w, fails)
    <3>1. inv \in Engine /\ inv.effect = p.effect /\ inv.last_frame = NoFrame
      BY <2>2 DEF IInv, TypeOK, EngineFollowsProfile, invalidate, Engine
    <3> HIDE DEF inv
    <3>2. FALSE \in BOOLEAN
      OBVIOUS
    <3>3. /\ o.hw.brightness = hw.brightness
          /\ DarkBy(p, FALSE, hw, o.hw)
          /\ o.ok => o.hw.intensity = frame_at(p.effect, w)
      <4>1. ASSUME NEW off \in BOOLEAN
            PROVE  LET t == tick(p, off, inv, hw, w, fails)
                   IN  /\ t.hw.brightness = hw.brightness
                       /\ DarkBy(p, off, hw, t.hw)
                       /\ t.ok /\ ~off => t.hw.intensity = frame_at(p.effect, w)
        BY <1>1, <2>2, <2>6, <3>1, TickWrites
      <4>2. QED
        BY <3>2, <4>1
    <3>4. Finish(o)
      BY <1>3, <2>6 DEF inv
    <3> HIDE DEF o
    <3>5. notice = hw.brightness /\ HwMax <= MAX_BRIGHTNESS =>
            (o.ok => ShownBy(p, FALSE, o.hw))
      BY <2>1, <2>5, <3>3 DEF ShownBy
    <3>6. QED
      BY <1>3, <2>4, <3>3, <3>4, <3>5, FinishWrites
  <2>7. CASE ~p.enabled
    <3>1. hw' = hw
      BY <1>3, <2>7 DEF Finish
    <3>2. notice = hw.brightness /\ HwMax <= MAX_BRIGHTNESS => Shown'
      BY <1>3, <2>1, <2>4, <2>5, <2>7, <3>1, ShownLemma DEF ShownBy
    <3>3. QED
      BY <3>1, <3>2, QuietDark DEF OkShown
  <2>8. QED
    BY <2>6, <2>7
<1>4. QED
  BY <1>2, <1>3 DEF poll_hw_brightness

\* Every step of the daemon, and of the hardware but an EC reset.
LEMMA StepDark ==
  ASSUME IInv, Next
  PROVE  ~resuming' => Dark
<1>1. /\ TypeOK /\ ActiveProfile \in Profile /\ ActiveEffect \in Effect
      /\ ActiveProfile = profiles[power] /\ hw \in Hardware
  BY ActiveLemma DEF IInv, TypeOK
<1>2. ASSUME NEW on \in BOOLEAN, set_enabled(on) PROVE Dark
  BY <1>2, SetEnabledWrites
<1>3. ASSUME NEW on \in BOOLEAN, set_fan_boost(on) PROVE Dark
  BY <1>1, <1>3 DEF set_fan_boost, Rejected, Finish, Dark, Hardware
<1>4. ASSUME NEW level \in LevelInputs, set_brightness(level) PROVE Dark
  BY <1>4, SetBrightnessWrites
<1>5. ASSUME NEW color \in Colors, set_color(color) PROVE Dark
  <2> DEFINE kind == IF ActiveEffect.kind = "breathing" THEN "breathing" ELSE "static"
             e == [ActiveEffect EXCEPT !.color = color, !.kind = kind]
  <2>1. e \in Effect
    BY <1>1 DEF Effect, EffectKind
  <2>2. QED
    BY <1>5, <2>1, ChangeEffectDark DEF set_color
<1>6. ASSUME NEW kind \in KindInputs, NEW speed \in SpeedInputs \cup {0},
             set_effect(kind, speed)
      PROVE  Dark
  <2> DEFINE s == IF speed = 0 THEN ActiveEffect.speed ELSE clamp(speed, 1, 10)
             e == [ActiveEffect EXCEPT !.kind = kind, !.speed = s]
  <2>1. speed \in U8 /\ kind \in EffectKind
    BY InputAssumption DEF U8
  <2>2. s \in U8
    BY <1>1, <2>1, ClampLemma DEF Effect
  <2> HIDE DEF s
  <2>3. e \in Effect
    BY <1>1, <2>1, <2>2, EffectLemma
  <2>4. QED
    BY <1>6, <2>3, ChangeEffectDark DEF set_effect, s
<1>7. ASSUME NEW speed \in SpeedInputs, set_speed(speed) PROVE Dark
  <2>1. clamp(speed, 1, 10) \in U8
    BY InputAssumption, ClampLemma
  <2>2. [ActiveEffect EXCEPT !.speed = clamp(speed, 1, 10)] \in Effect
    BY <1>1, <2>1 DEF Effect
  <2>3. QED
    BY <1>7, <2>2, ChangeEffectDark DEF set_speed
<1>8. ASSUME NEW colors \in ColorListInputs, set_cycle_colors(colors) PROVE Dark
  <2>1. CASE colors = <<>>
    BY <1>8, <2>1, QuietDark DEF set_cycle_colors, Rejected
  <2>2. CASE colors # <<>>
    <3>1. [ActiveEffect EXCEPT !.colors = colors] \in Effect
      BY <1>1, InputAssumption DEF Effect
    <3>2. QED
      BY <1>8, <2>2, <3>1, ChangeEffectDark DEF set_cycle_colors
  <2>3. QED
    BY <2>1, <2>2
<1>9. ASSUME NEW mode \in FanInputs, set_fan_mode(mode) PROVE Dark
  BY <1>1, <1>9 DEF set_fan_mode, Rejected, Finish, Dark, Hardware
<1>10. ASSUME NEW source \in PowerSource, NEW profile \in ProfileInputs,
              set_profile(source, profile)
       PROVE  Dark
  BY <1>10, SetProfileWrites
<1>11. CASE reset_to_config \/ reapply
  BY <1>11, ResetWrites, ReapplyWrites
<1>12. ASSUME NEW pow \in PowerSource, set_power_source(pow) PROVE Dark
  BY <1>12, PowerWrites
<1>13. ASSUME NEW off \in BOOLEAN, set_idle_off(off) PROVE Dark
  BY <1>13, IdleWrites
<1>14. CASE poll_hw_brightness \/ resume
  BY <1>14, PollWrites, ResumeWrites
<1>15. CASE effect_tick
  <2>1. PICK fails \in FailSets, w \in Waves :
          Finish(tick(profiles[power], idle_off, engine, hw, w, fails))
    BY <1>15 DEF effect_tick
  <2>2. QED
    BY <1>1, <1>15, <2>1, TickStepDark DEF effect_tick, TypeOK
<1>16. ASSUME NEW level \in 0..HwMax, FnKey(level) PROVE Dark
  BY <1>1, <1>16 DEF FnKey, Dark, Hardware
<1>17. ASSUME NEW h, EcReset(h) PROVE resuming'
  BY <1>17 DEF EcReset
<1>18. CASE Setter
  BY <1>18, <1>2, <1>3, <1>4, <1>5, <1>6, <1>7, <1>8, <1>9, <1>10, <1>11,
     InputAssumption DEF Setter
<1>19. CASE Event
  BY <1>19, <1>12, <1>13, <1>14, <1>15 DEF Event
<1>20. CASE Firmware
  BY <1>20, <1>16, <1>17 DEF Firmware
<1>21. QED
  BY <1>18, <1>19, <1>20 DEF Next

\* Only set_power_source moves the power source, only a poll what it has read.
LEMMA OnlyPower ==
  ASSUME Next, power' # power
  PROVE  \E pow \in PowerSource : pow # power /\ set_power_source(pow)
<1>1. CASE Setter
  BY <1>1 DEF Setter, set_enabled, set_fan_boost, set_brightness, set_color,
     set_effect, set_speed, set_cycle_colors, change_effect, set_fan_mode,
     set_profile, reset_to_config, reapply
<1>2. CASE Event
  BY <1>2 DEF Event, set_power_source, set_idle_off, poll_hw_brightness,
     effect_tick, resume
<1>3. CASE Firmware
  BY <1>3 DEF Firmware, FnKey, EcReset, ctlVars
<1>4. QED
  BY <1>1, <1>2, <1>3 DEF Next

LEMMA OnlyPoll ==
  ASSUME Next, last_hw_changed' # last_hw_changed
  PROVE  poll_hw_brightness
<1>1. CASE Setter
  BY <1>1 DEF Setter, set_enabled, set_fan_boost, set_brightness, set_color,
     set_effect, set_speed, set_cycle_colors, change_effect, set_fan_mode,
     set_profile, reset_to_config, reapply, NoPoll
<1>2. CASE Event
  BY <1>2 DEF Event, set_power_source, set_idle_off, effect_tick, resume, NoPoll
<1>3. CASE Firmware
  BY <1>3 DEF Firmware, FnKey, EcReset
<1>4. QED
  BY <1>1, <1>2, <1>3 DEF Next

LEMMA OnlyResume ==
  ASSUME Next, resuming, ~resuming'
  PROVE  resume
<1>1. CASE Setter
  BY <1>1 DEF Setter, set_enabled, set_fan_boost, set_brightness, set_color,
     set_effect, set_speed, set_cycle_colors, change_effect, set_fan_mode,
     set_profile, reset_to_config, reapply, NoPoll
<1>2. CASE Event
  BY <1>2 DEF Event, set_power_source, set_idle_off, effect_tick,
     poll_hw_brightness, NoPoll
<1>3. CASE Firmware
  BY <1>3 DEF Firmware, FnKey, EcReset
<1>4. QED
  BY <1>1, <1>2, <1>3 DEF Next

-----------------------------------------------------------------------------
(***************************************************************************)
(* The theorems.                                                           *)
(***************************************************************************)
\* The daemon boots into the invariant, whatever write of the first apply_all
\* fails.
LEMMA InitIInv == Init => IInv
<1> SUFFICES ASSUME Init PROVE IInv
  OBVIOUS
<1>1. PICK pow \in PowerSource, h \in FoundHardware(FoundLevels),
           fails \in FailSets :
        Boot(ConfigProfiles, FALSE, pow, h, fails)
  BY DEF Init
<1> DEFINE o == apply_all(ConfigProfiles[pow], FALSE, FALSE, h, fails)
<1>2. ConfigProfiles[pow] \in Profile /\ h \in Hardware
  BY InputAssumption, FoundLemma
<1>3. /\ o \in Outcome /\ o.engine.effect = ConfigProfiles[pow].effect
      /\ Coherent(o.engine, o.hw)
  BY <1>2, ApplyAllLemma
<1>4. /\ profiles = ConfigProfiles /\ fan_boost = FALSE /\ power = pow
      /\ idle_off = FALSE /\ dirty = FALSE
      /\ engine = o.engine /\ hw = o.hw /\ result \in {"ok", "err"}
  BY <1>1 DEF Boot
<1> HIDE DEF o
<1>5. notice \in Notice /\ last_hw_changed \in Notice
  BY InputAssumption DEF Init, Notice
<1>6. TypeOK
  BY <1>3, <1>4, <1>5, InputAssumption DEF Init, TypeOK, Outcome
<1>7. EngineFollowsProfile /\ FrameOnKeyboard
  BY <1>3, <1>4 DEF EngineFollowsProfile, ActiveProfile, FrameOnKeyboard, Coherent
<1>8. QED
  BY <1>6, <1>7 DEF IInv

\* Every step keeps the invariant.
LEMMA NextIInv == IInv /\ [Next]_vars => IInv'
<1> SUFFICES ASSUME IInv, [Next]_vars PROVE IInv'
  OBVIOUS
<1>1. CASE Next
  BY <1>1, SetterStep, EventStep, FirmwareStep DEF Next
<1>2. CASE UNCHANGED vars
  BY <1>2 DEF vars, ctlVars, hwVars, IInv, TypeOK, EngineFollowsProfile,
              ActiveProfile, FrameOnKeyboard
<1>3. QED
  BY <1>1, <1>2

\* IInv is an invariant.
THEOREM Invariance == Spec => []IInv
BY InitIInv, NextIInv, PTL DEF Spec

\* Every state of the controller is well typed: levels are in the LED's range,
\* intensities are never [0,0,0], speeds and levels of profiles are bytes.
THEOREM TypeCorrect == Spec => []TypeOK
<1>1. IInv => TypeOK
  BY DEF IInv
<1>2. QED
  BY <1>1, Invariance, PTL

\* The engine never animates the effect of another profile or of an earlier
\* setting, for any set of writes that fail.
THEOREM EngineCorrect == Spec => []EngineFollowsProfile
<1>1. IInv => EngineFollowsProfile
  BY DEF IInv
<1>2. QED
  BY <1>1, Invariance, PTL

\* Frame coalescing never skips a frame the keyboard lost: what the engine
\* believes to be shown is shown, except between an EC reset and resume().
THEOREM FrameCorrect == Spec => []FrameOnKeyboard
<1>1. IInv => FrameOnKeyboard
  BY DEF IInv
<1>2. QED
  BY <1>1, Invariance, PTL

\* No step sends a colour to a keyboard that idle timer or profile keep dark,
\* whatever writes fail and whatever Fn keys are reported.
THEOREM DarknessKept == Spec => DarkStaysDark
<1> DEFINE Quiet == ~resuming /\ ~resuming' /\ ~Lit' =>
                      hw'.intensity = hw.intensity
<1>1. IInv /\ [Next]_vars => [Quiet]_vars
  BY StepDark DEF Dark
<1>2. QED
  BY <1>1, Invariance, PTL DEF Spec, DarkStaysDark

\* Each operation that shows the profile and returns success has shown it,
\* whatever failed before it: it relies on no earlier write.
THEOREM SuccessMeansShown == Spec => OkMeansShown
<1> DEFINE Showing ==
             \/ \E on \in BOOLEAN : set_enabled(on)
             \/ \E level \in LevelInputs : set_brightness(level)
             \/ \E profile \in ProfileInputs : set_profile(power, profile)
             \/ power' # power
             \/ \E off \in BOOLEAN \ {idle_off} : set_idle_off(off)
             \/ RestoreOnResume /\ resuming /\ ~resuming'
             \/ reset_to_config
             \/ reapply
<1>1. ASSUME IInv, Next, Showing PROVE OkShown
  <2>1. power \in PowerSource
    BY <1>1 DEF IInv, TypeOK
  <2>2. CASE \E on \in BOOLEAN : set_enabled(on)
    BY <1>1, <2>2, SetEnabledWrites
  <2>3. CASE \E level \in LevelInputs : set_brightness(level)
    BY <1>1, <2>3, SetBrightnessWrites
  <2>4. CASE \E profile \in ProfileInputs : set_profile(power, profile)
    BY <1>1, <2>1, <2>4, SetProfileWrites
  <2>5. CASE power' # power
    BY <1>1, <2>5, OnlyPower, PowerWrites
  <2>6. CASE \E off \in BOOLEAN \ {idle_off} : set_idle_off(off)
    BY <1>1, <2>6, IdleWrites
  <2>7. CASE RestoreOnResume /\ resuming /\ ~resuming'
    BY <1>1, <2>7, OnlyResume, ResumeWrites
  <2>8. CASE reset_to_config \/ reapply
    BY <1>1, <2>8, ResetWrites, ReapplyWrites
  <2>9. QED
    BY <1>1, <2>2, <2>3, <2>4, <2>5, <2>6, <2>7, <2>8
<1> HIDE DEF Showing
<1>2. IInv /\ [Next]_vars => [result' = "ok" /\ ~Shown' => ~Showing]_vars
  BY <1>1 DEF OkShown
<1>3. QED
  BY <1>2, Invariance, PTL DEF Spec, OkMeansShown, Showing

\* A Fn key that is folded into the profile while the LED still has its level
\* leaves profile, idle flag and keyboard agreeing, on every LED whose levels
\* the profiles can name.
THEOREM FollowedIsShown ==
  ASSUME HwMax <= MAX_BRIGHTNESS
  PROVE  Spec => FollowedMeansShown
<1> DEFINE Followed ==
             /\ last_hw_changed' # last_hw_changed
             /\ FollowHw /\ notice = hw.brightness
             /\ result' = "ok"
             => Shown'
<1>1. IInv /\ [Next]_vars => [Followed]_vars
  BY OnlyPoll, PollWrites DEF OkShown
<1>2. QED
  BY <1>1, Invariance, PTL DEF Spec, FollowedMeansShown
=============================================================================
