---------------------------- MODULE HealthyProofs ----------------------------
(***************************************************************************)
(* What the controller guarantees on healthy hardware: a colour keyboard   *)
(* whose writes succeed, without Fn-key reports, and restore_on_resume on. *)
(* The proof follows every operation to the level, the frame and the fan   *)
(* settings it leaves.                                                     *)
(***************************************************************************)
EXTENDS ControllerProofs

Healthy ==
    /\ Multicolor /\ RestoreOnResume
    /\ ~HasHwChanged
    /\ Faulty = {}

\* The fans of h run as p and the boost setting say.
FansBy(p, boost, h) ==
    /\ HasFanMode /\ p.fan_mode # NoMode => h.fan_mode = p.fan_mode
    /\ HasFanBoost => h.fan_boost = boost

SameFans(h, g) == h.fan_mode = g.fan_mode /\ h.fan_boost = g.fan_boost

\* The inductive invariant: IInv is needed because a tick that writes nothing
\* relies on the frame the engine remembers.
HealthyInv ==
    ~resuming => /\ ShownBy(ActiveProfile, idle_off, hw)
                 /\ FansBy(ActiveProfile, fan_boost, hw)

-----------------------------------------------------------------------------
(***************************************************************************)
(* What ticks and applied profiles show.                                   *)
(***************************************************************************)
\* A tick moves nothing but the intensity, which becomes the frame of the
\* effect unless the keyboard is to stay dark.
LEMMA TickShows ==
  ASSUME Healthy, NEW p \in Profile, NEW off \in BOOLEAN, NEW eng \in Engine,
         NEW h \in Hardware, NEW w \in Waves, Coherent(eng, h)
  PROVE  LET o == tick(p, off, eng, h, w, {})
         IN  /\ o.ok
             /\ o.hw.brightness = h.brightness
             /\ SameFans(o.hw, h)
             /\ ~off /\ p.enabled => o.hw.intensity = frame_at(eng.effect, w)
<1> DEFINE f == frame_at(eng.effect, w)
<1>1. f \in Frames /\ clamp_intensity(f) = f
  BY FrameLemma DEF Engine
<1> HIDE DEF f
<1>2. Multicolor /\ "intensity" \notin {}
  BY DEF Healthy
<1>3. NoFrame \notin Frames
  BY LightAssumption
<1>4. tick(p, off, eng, h, w, {}) =
        IF off \/ ~p.enabled \/ eng.last_frame = f
        THEN [engine |-> eng, hw |-> h, ok |-> TRUE]
        ELSE [engine |-> [eng EXCEPT !.last_frame = f],
              hw |-> [h EXCEPT !.intensity = f], ok |-> TRUE]
  BY <1>1, <1>2 DEF tick, engine_apply, f
<1>5. /\ [h EXCEPT !.intensity = f].brightness = h.brightness
      /\ [h EXCEPT !.intensity = f].intensity = f
      /\ SameFans([h EXCEPT !.intensity = f], h) /\ SameFans(h, h)
  BY DEF Hardware, SameFans
<1>6. eng.last_frame = f => h.intensity = f
  BY <1>1, <1>3 DEF Coherent
<1> DEFINE o == tick(p, off, eng, h, w, {})
<1> HIDE DEF o
<1>7. o = IF off \/ ~p.enabled \/ eng.last_frame = f
          THEN [engine |-> eng, hw |-> h, ok |-> TRUE]
          ELSE [engine |-> [eng EXCEPT !.last_frame = f],
                hw |-> [h EXCEPT !.intensity = f], ok |-> TRUE]
  BY <1>4 DEF o
<1>8. /\ o.ok /\ o.hw.brightness = h.brightness /\ SameFans(o.hw, h)
      /\ ~off /\ p.enabled => o.hw.intensity = f
  <2>1. CASE off \/ ~p.enabled \/ eng.last_frame = f
    BY <1>5, <1>6, <1>7, <2>1
  <2>2. CASE ~(off \/ ~p.enabled \/ eng.last_frame = f)
    BY <1>5, <1>7, <2>2
  <2>3. QED
    BY <2>1, <2>2
<1>9. QED
  BY <1>8 DEF o, f

\* A brightness write that succeeds leaves the level of the profile.
LEMMA BrightnessShows ==
  ASSUME NEW p \in Profile, NEW off \in BOOLEAN, NEW h \in Hardware
  PROVE  LET g == apply_brightness(p, off, h, {})
         IN  /\ g \in Hardware /\ g.brightness = Level(p, off)
             /\ SameFans(g, h)
<1>1. Level(p, off) \in 0..HwMax
  BY LevelLemma
<1> DEFINE l == Level(p, off)
<1>2. apply_brightness(p, off, h, {}) = [h EXCEPT !.brightness = l]
  BY DEF apply_brightness
<1> HIDE DEF l
<1>3. l \in 0..HwMax
  BY <1>1 DEF l
<1>4. [h EXCEPT !.brightness = l] \in Hardware
  BY <1>3 DEF Hardware
<1>5. /\ [h EXCEPT !.brightness = l].brightness = l
      /\ SameFans([h EXCEPT !.brightness = l], h)
  BY DEF Hardware, SameFans
<1>6. QED
  BY <1>2, <1>4, <1>5 DEF l

\* Level and frame of a profile are shown unless the caller means the keyboard
\* to stay dark.
LEMMA LightShows ==
  ASSUME Healthy, NEW p \in Profile, NEW off \in BOOLEAN, NEW lit \in BOOLEAN,
         NEW eng \in Engine, NEW h \in Hardware, NEW w \in Waves,
         eng.effect = p.effect, lit \/ off \/ ~p.enabled
  PROVE  LET o == light(p, off, lit, eng, h, w, {})
         IN  o.ok /\ ShownBy(p, off, o.hw) /\ SameFans(o.hw, h)
<1> DEFINE g == apply_brightness(p, off, h, {})
           inv == invalidate(eng)
<1>1. g \in Hardware /\ g.brightness = Level(p, off) /\ SameFans(g, h)
  BY BrightnessShows
<1>2. inv \in Engine /\ inv.effect = p.effect /\ Coherent(inv, g)
  BY DEF invalidate, Engine, Coherent
<1>3. light(p, off, lit, eng, h, w, {}) =
        IF ~lit THEN [engine |-> eng, hw |-> g, ok |-> TRUE]
        ELSE tick(p, off, inv, g, w, {})
  BY DEF light
<1> HIDE DEF g, inv
<1>4. CASE lit
  <2> DEFINE o == tick(p, off, inv, g, w, {})
  <2>1. /\ o.ok /\ o.hw.brightness = g.brightness /\ SameFans(o.hw, g)
        /\ ~off /\ p.enabled => o.hw.intensity = frame_at(inv.effect, w)
    BY <1>1, <1>2, TickShows
  <2> HIDE DEF o
  <2>2. o.ok /\ ShownBy(p, off, o.hw) /\ SameFans(o.hw, h)
    BY <1>1, <1>2, <2>1 DEF ShownBy, SameFans
  <2>3. QED
    BY <1>3, <1>4, <2>2 DEF o
<1>5. CASE ~lit
  BY <1>1, <1>3, <1>5 DEF ShownBy, SameFans
<1>6. QED
  BY <1>4, <1>5

\* A whole profile is shown, and its fan settings are in force.
LEMMA ApplyAllShows ==
  ASSUME Healthy, NEW p \in Profile, NEW off \in BOOLEAN, NEW boost \in BOOLEAN,
         NEW h \in Hardware
  PROVE  LET o == apply_all(p, off, boost, h, {})
         IN  ShownBy(p, off, o.hw) /\ FansBy(p, boost, o.hw)
<1> DEFINE on == ~off /\ p.enabled
           new == NewEngine(p.effect)
           lit == light(p, off, on, new, h, 0, {})
<1>1. p.effect \in Effect /\ on \in BOOLEAN /\ 0 \in Waves
      /\ (on \/ off \/ ~p.enabled)
  BY LightAssumption DEF Profile
<1>2. new \in Engine /\ new.effect = p.effect
  BY <1>1, NewEngineLemma
<1>3. apply_all(p, off, boost, h, {}) =
        IF lit.ok THEN [lit EXCEPT !.hw = apply_fans(p, boost, lit.hw, {})]
        ELSE lit
  BY DEF apply_all
<1> HIDE DEF new, on
<1>4. lit.ok /\ ShownBy(p, off, lit.hw)
  BY <1>1, <1>2, LightShows
<1>5. lit \in Outcome
  BY <1>1, <1>2, LightLemma
<1> HIDE DEF lit
<1>6. lit.hw \in Hardware
  BY <1>5 DEF Outcome
<1> DEFINE g == apply_fans(p, boost, lit.hw, {})
<1>7. /\ g.brightness = lit.hw.brightness /\ g.intensity = lit.hw.intensity
      /\ FansBy(p, boost, g)
  BY <1>6 DEF apply_fans, Hardware, FansBy
<1>8. ShownBy(p, off, g)
  BY <1>4, <1>7 DEF ShownBy
<1>9. apply_all(p, off, boost, h, {}).hw = g
  BY <1>3, <1>4, <1>5 DEF Outcome
<1>10. QED
  BY <1>7, <1>8, <1>9

-----------------------------------------------------------------------------
(***************************************************************************)
(* The steps.                                                              *)
(***************************************************************************)
\* On healthy hardware no write fails.
LEMMA NoFailure ==
  ASSUME Healthy, NEW fails \in FailSets
  PROVE  fails = {}
BY DEF Healthy, FailSets

\* An operation that ends in apply_all for the profile it leaves active.
LEMMA ApplyAllKeeps ==
  ASSUME Healthy, TypeOK, NEW p \in Profile, NEW boost \in BOOLEAN,
         NEW fails \in FailSets,
         profiles'[power'] = p, fan_boost' = boost, idle_off' = idle_off,
         Finish(apply_all(p, idle_off, boost, hw, fails))
  PROVE  HealthyInv'
<1>1. fails = {}
  BY NoFailure
<1> DEFINE o == apply_all(p, idle_off, boost, hw, {})
<1>2. ShownBy(p, idle_off, o.hw) /\ FansBy(p, boost, o.hw)
  BY ApplyAllShows DEF TypeOK
<1>3. hw' = o.hw
  BY <1>1 DEF Finish
<1> HIDE DEF o
<1>4. QED
  BY <1>2, <1>3 DEF HealthyInv, ActiveProfile, ShownBy, FansBy

\* An operation that stores p, with the effect and fan mode of the active
\* profile, and shows it.
LEMMA LightKeeps ==
  ASSUME Healthy, IInv, HealthyInv, NEW p \in Profile,
         p.effect = ActiveProfile.effect, p.fan_mode = ActiveProfile.fan_mode,
         NEW off \in BOOLEAN, NEW lit \in BOOLEAN, lit \/ off \/ ~p.enabled,
         NEW w \in Waves, NEW fails \in FailSets,
         profiles'[power'] = p, fan_boost' = fan_boost, idle_off' = off,
         resuming' = resuming,
         Finish(light(p, off, lit, engine, hw, w, fails))
  PROVE  HealthyInv'
<1>1. fails = {} /\ engine \in Engine /\ hw \in Hardware
      /\ engine.effect = p.effect
  BY NoFailure DEF IInv, TypeOK, EngineFollowsProfile
<1> DEFINE o == light(p, off, lit, engine, hw, w, {})
<1>2. ShownBy(p, off, o.hw) /\ SameFans(o.hw, hw)
  BY <1>1, LightShows
<1>3. hw' = o.hw
  BY <1>1 DEF Finish
<1> HIDE DEF o
<1>4. QED
  BY <1>2, <1>3 DEF HealthyInv, ActiveProfile, ShownBy, FansBy, SameFans

\* A tick of an engine that runs the effect of the profile left active.
LEMMA TickKeeps ==
  ASSUME Healthy, HealthyInv, TypeOK, NEW p \in Profile,
         p.enabled = ActiveProfile.enabled,
         p.brightness = ActiveProfile.brightness,
         p.fan_mode = ActiveProfile.fan_mode,
         NEW eng \in Engine, eng.effect = p.effect,
         ~resuming => Coherent(eng, hw),
         NEW w \in Waves, NEW fails \in FailSets,
         profiles'[power'] = p, fan_boost' = fan_boost, idle_off' = idle_off,
         resuming' = resuming,
         Finish(tick(p, idle_off, eng, hw, w, fails))
  PROVE  HealthyInv'
<1> SUFFICES ASSUME ~resuming PROVE HealthyInv'
  BY DEF HealthyInv
<1>1. fails = {} /\ hw \in Hardware /\ idle_off \in BOOLEAN
  BY NoFailure DEF TypeOK
<1> DEFINE o == tick(p, idle_off, eng, hw, w, {})
<1>2. /\ o.hw.brightness = hw.brightness /\ SameFans(o.hw, hw)
      /\ ~idle_off /\ p.enabled => o.hw.intensity = frame_at(p.effect, w)
  BY <1>1, TickShows
<1>3. hw' = o.hw
  BY <1>1 DEF Finish
<1> HIDE DEF o
<1>4. Level(p, idle_off) = Level(ActiveProfile, idle_off)
  BY DEF Level, effective_brightness
<1>5. QED
  BY <1>2, <1>3, <1>4 DEF HealthyInv, ActiveProfile, ShownBy, FansBy, SameFans

\* A step that leaves the active profile and what the hardware shows alone.
LEMMA QuietKeeps ==
  ASSUME HealthyInv, profiles'[power'] = ActiveProfile, hw' = hw,
         fan_boost' = fan_boost, idle_off' = idle_off, resuming' = resuming
  PROVE  HealthyInv'
BY DEF HealthyInv, ActiveProfile, ShownBy, FansBy

-----------------------------------------------------------------------------
\* Every operation through change_effect.
LEMMA ChangeEffectKeeps ==
  ASSUME Healthy, IInv, HealthyInv, NEW e \in Effect, change_effect(e)
  PROVE  HealthyInv'
<1>1. TypeOK /\ ActiveProfile \in Profile /\ ActiveProfile = profiles[power]
  BY ActiveLemma DEF IInv
<1> DEFINE p == [profiles[power] EXCEPT !.effect = e]
<1>2. /\ p \in Profile /\ p.effect = e
      /\ p.enabled = ActiveProfile.enabled
      /\ p.brightness = ActiveProfile.brightness
      /\ p.fan_mode = ActiveProfile.fan_mode
  BY <1>1 DEF Profile
<1>3. PICK fails \in FailSets :
        /\ profiles' = [profiles EXCEPT ![power] = p]
        /\ Finish(tick(p, idle_off, NewEngine(e), hw, 0, fails))
  BY DEF change_effect
<1> HIDE DEF p
<1>4. profiles'[power'] = p
  BY <1>1, <1>2, <1>3, ReplaceLemma DEF change_effect
<1>5. /\ NewEngine(e) \in Engine /\ NewEngine(e).effect = p.effect
      /\ Coherent(NewEngine(e), hw) /\ 0 \in Waves
  BY <1>2, NewEngineLemma, LightAssumption
<1>6. QED
  BY <1>1, <1>2, <1>3, <1>4, <1>5, TickKeeps DEF change_effect, NoPoll

\* Every setter.
LEMMA SetterKeeps ==
  ASSUME Healthy, IInv, HealthyInv, Setter
  PROVE  HealthyInv'
<1>1. /\ TypeOK /\ ActiveProfile \in Profile /\ ActiveEffect \in Effect
      /\ ActiveProfile = profiles[power] /\ power \in PowerSource
      /\ hw \in Hardware /\ fan_boost \in BOOLEAN
  BY ActiveLemma DEF IInv, TypeOK
<1>2. ASSUME NEW on \in BOOLEAN, set_enabled(on) PROVE HealthyInv'
  <2> DEFINE p == [profiles[power] EXCEPT !.enabled = on]
  <2>1. /\ p \in Profile /\ p.effect = ActiveProfile.effect
        /\ p.fan_mode = ActiveProfile.fan_mode /\ p.enabled = on
    BY <1>1 DEF Profile
  <2>2. PICK fails \in FailSets, w \in Waves :
          /\ profiles' = [profiles EXCEPT ![power] = p]
          /\ Finish(light(p, FALSE, on, engine, hw, w, fails))
    BY <1>2 DEF set_enabled
  <2> HIDE DEF p
  <2>3. profiles'[power'] = p
    BY <1>1, <1>2, <2>1, <2>2, ReplaceLemma DEF set_enabled
  <2>4. QED
    BY <1>2, <2>1, <2>2, <2>3, LightKeeps DEF set_enabled, NoPoll
<1>3. ASSUME NEW level \in LevelInputs, set_brightness(level) PROVE HealthyInv'
  <2>1. level \in U8 /\ level \in Nat /\ (level > 0) \in BOOLEAN
    BY InputAssumption DEF U8
  <2>2. CASE Rejected /\ UNCHANGED <<profiles, dirty, idle_off>>
    BY <1>1, <1>3, <2>2, QuietKeeps DEF set_brightness, Rejected, NoPoll
  <2> DEFINE p == AtLevel(profiles[power], level)
  <2>3. /\ p \in Profile /\ p.effect = ActiveProfile.effect
        /\ p.fan_mode = ActiveProfile.fan_mode
        /\ (level > 0) \/ ~p.enabled
    <3>1. p \in Profile /\ p.effect = ActiveProfile.effect
      BY <1>1, <2>1, AtLevelLemma
    <3>2. p.fan_mode = ActiveProfile.fan_mode
      BY <1>1 DEF AtLevel, Profile
    <3>3. level = 0 => ~p.enabled
      BY <1>1 DEF AtLevel, Profile
    <3>4. QED
      BY <2>1, <3>1, <3>2, <3>3
  <2> HIDE DEF p
  <2>4. ASSUME NEW fails \in FailSets, NEW w \in Waves,
               profiles' = [profiles EXCEPT ![power] = p],
               Finish(light(p, FALSE, level > 0, engine, hw, w, fails)),
               idle_off' = FALSE
        PROVE  HealthyInv'
    <3>1. profiles'[power'] = p
      BY <1>1, <1>3, <2>3, <2>4, ReplaceLemma DEF set_brightness
    <3>2. QED
      BY <1>3, <2>1, <2>3, <2>4, <3>1, LightKeeps DEF set_brightness, NoPoll
  <2>5. QED
    BY <1>3, <2>2, <2>4 DEF set_brightness, p
<1>4. ASSUME NEW color \in Colors, set_color(color) PROVE HealthyInv'
  <2> DEFINE kind == IF ActiveEffect.kind = "breathing" THEN "breathing" ELSE "static"
             e == [ActiveEffect EXCEPT !.color = color, !.kind = kind]
  <2>1. e \in Effect
    BY <1>1 DEF Effect, EffectKind
  <2>2. QED
    BY <1>4, <2>1, ChangeEffectKeeps DEF set_color
<1>5. ASSUME NEW kind \in KindInputs, NEW speed \in SpeedInputs \cup {0},
             set_effect(kind, speed)
      PROVE  HealthyInv'
  <2> DEFINE s == IF speed = 0 THEN ActiveEffect.speed ELSE clamp(speed, 1, 10)
             e == [ActiveEffect EXCEPT !.kind = kind, !.speed = s]
  <2>1. speed \in U8 /\ kind \in EffectKind
    BY InputAssumption DEF U8
  <2>2. s \in U8
    BY <1>1, <2>1, ClampLemma DEF Effect
  <2> HIDE DEF s
  <2>3. e \in Effect
    BY <1>1, <2>1, <2>2, EffectLemma
  <2>4. QED
    BY <1>5, <2>3, ChangeEffectKeeps DEF set_effect, s
<1>6. ASSUME NEW speed \in SpeedInputs, set_speed(speed) PROVE HealthyInv'
  <2>1. clamp(speed, 1, 10) \in U8
    BY InputAssumption, ClampLemma
  <2>2. [ActiveEffect EXCEPT !.speed = clamp(speed, 1, 10)] \in Effect
    BY <1>1, <2>1 DEF Effect
  <2>3. QED
    BY <1>6, <2>2, ChangeEffectKeeps DEF set_speed
<1>7. ASSUME NEW colors \in ColorListInputs, set_cycle_colors(colors)
      PROVE  HealthyInv'
  <2>1. CASE colors = <<>>
    BY <1>1, <1>7, <2>1, QuietKeeps DEF set_cycle_colors, Rejected, NoPoll
  <2>2. CASE colors # <<>>
    <3>1. [ActiveEffect EXCEPT !.colors = colors] \in Effect
      BY <1>1, InputAssumption DEF Effect
    <3>2. QED
      BY <1>7, <2>2, <3>1, ChangeEffectKeeps DEF set_cycle_colors
  <2>3. QED
    BY <2>1, <2>2
<1>8. ASSUME NEW mode \in FanInputs, set_fan_mode(mode) PROVE HealthyInv'
  <2>1. CASE Rejected /\ UNCHANGED <<profiles, dirty>>
    BY <1>1, <1>8, <2>1, QuietKeeps DEF set_fan_mode, Rejected, NoPoll
  <2>2. CASE /\ profiles' = [profiles EXCEPT ![power].fan_mode = mode]
             /\ Finish([engine |-> engine, hw |-> [hw EXCEPT !.fan_mode = mode],
                        ok |-> TRUE])
    <3> DEFINE p == [profiles[power] EXCEPT !.fan_mode = mode]
    <3>1. profiles'[power'] = p
      BY <1>1, <1>8, <2>2 DEF set_fan_mode, TypeOK
    <3>2. /\ p.effect = ActiveProfile.effect /\ p.fan_mode = mode
          /\ p.enabled = ActiveProfile.enabled
          /\ p.brightness = ActiveProfile.brightness
      BY <1>1 DEF Profile
    <3> HIDE DEF p
    <3>3. /\ hw'.brightness = hw.brightness /\ hw'.intensity = hw.intensity
          /\ hw'.fan_mode = mode /\ hw'.fan_boost = hw.fan_boost
      BY <1>1, <2>2 DEF Finish, Hardware
    <3>4. Level(p, idle_off) = Level(ActiveProfile, idle_off)
      BY <3>2 DEF Level, effective_brightness
    <3>5. QED
      BY <1>8, <3>1, <3>2, <3>3, <3>4
         DEF set_fan_mode, NoPoll, HealthyInv, ActiveProfile, ShownBy, FansBy
  <2>3. QED
    BY <1>8, <2>1, <2>2 DEF set_fan_mode
<1>9. ASSUME NEW on \in BoostInputs, set_fan_boost(on) PROVE HealthyInv'
  <2>1. CASE Rejected /\ UNCHANGED <<fan_boost, dirty>>
    BY <1>1, <1>9, <2>1, QuietKeeps DEF set_fan_boost, Rejected, NoPoll
  <2>2. CASE /\ fan_boost' = on
             /\ Finish([engine |-> engine, hw |-> [hw EXCEPT !.fan_boost = on],
                        ok |-> TRUE])
    <3>1. /\ hw'.brightness = hw.brightness /\ hw'.intensity = hw.intensity
          /\ hw'.fan_mode = hw.fan_mode /\ hw'.fan_boost = on
      BY <1>1, <2>2 DEF Finish, Hardware
    <3>2. QED
      BY <1>1, <1>9, <2>2, <3>1
         DEF set_fan_boost, NoPoll, HealthyInv, ActiveProfile, ShownBy, FansBy
  <2>3. QED
    BY <1>9, <2>1, <2>2 DEF set_fan_boost
<1>10. ASSUME NEW source \in PowerSource, NEW profile \in ProfileInputs,
              set_profile(source, profile)
       PROVE  HealthyInv'
  <2>1. profile \in Profile
    BY InputAssumption
  <2>2. CASE source = power
    <3>1. PICK fails \in FailSets :
            Finish(apply_all(profile, idle_off, fan_boost, hw, fails))
      BY <1>10, <2>2 DEF set_profile
    <3>2. profiles'[power'] = profile
      BY <1>1, <1>10, <2>2 DEF set_profile, TypeOK
    <3>3. QED
      BY <1>1, <1>10, <2>1, <3>1, <3>2, ApplyAllKeeps DEF set_profile
  <2>3. CASE source # power
    <3>1. profiles'[power'] = ActiveProfile
      BY <1>1, <1>10, <2>3 DEF set_profile, TypeOK
    <3>2. QED
      BY <1>10, <2>3, <3>1, QuietKeeps DEF set_profile, NoPoll
  <2>4. QED
    BY <2>2, <2>3
<1>11. CASE reset_to_config
  <2>1. PICK fails \in FailSets :
          Finish(apply_all(ConfigProfiles[power], idle_off, FALSE, hw, fails))
    BY <1>11 DEF reset_to_config
  <2>2. /\ ConfigProfiles[power] \in Profile /\ FALSE \in BOOLEAN
        /\ profiles'[power'] = ConfigProfiles[power]
    BY <1>1, <1>11, InputAssumption DEF reset_to_config
  <2>3. QED
    BY <1>1, <1>11, <2>1, <2>2, ApplyAllKeeps DEF reset_to_config
<1>12. CASE reapply
  <2>1. PICK fails \in FailSets :
          Finish(apply_all(profiles[power], idle_off, fan_boost, hw, fails))
    BY <1>12 DEF reapply
  <2>2. QED
    BY <1>1, <1>12, <2>1, ApplyAllKeeps DEF reapply
<1>13. QED
  BY <1>2, <1>3, <1>4, <1>5, <1>6, <1>7, <1>8, <1>9, <1>10, <1>11, <1>12
     DEF Setter

\* Every event and every move of the hardware; without Fn-key reports a poll
\* finds nothing.
LEMMA EventKeeps ==
  ASSUME Healthy, IInv, HealthyInv, Event \/ Firmware
  PROVE  HealthyInv'
<1>1. /\ TypeOK /\ ActiveProfile \in Profile
      /\ ActiveProfile = profiles[power] /\ power \in PowerSource
      /\ engine \in Engine /\ hw \in Hardware /\ fan_boost \in BOOLEAN
      /\ engine.effect = ActiveProfile.effect
  BY ActiveLemma DEF IInv, TypeOK, EngineFollowsProfile
<1>2. ASSUME NEW pow \in PowerSource, set_power_source(pow) PROVE HealthyInv'
  <2>1. CASE pow = power
    BY <1>1, <1>2, <2>1, QuietKeeps DEF set_power_source, NoPoll
  <2>2. CASE pow # power
    <3>1. PICK fails \in FailSets :
            Finish(apply_all(profiles[pow], idle_off, fan_boost, hw, fails))
      BY <1>2, <2>2 DEF set_power_source
    <3>2. profiles[pow] \in Profile /\ profiles'[power'] = profiles[pow]
      BY <1>1, <1>2 DEF set_power_source, TypeOK
    <3>3. QED
      BY <1>1, <1>2, <3>1, <3>2, ApplyAllKeeps DEF set_power_source
  <2>3. QED
    BY <2>1, <2>2
<1>3. ASSUME NEW off \in BOOLEAN, set_idle_off(off) PROVE HealthyInv'
  <2>1. CASE off = idle_off
    BY <1>1, <1>3, <2>1, QuietKeeps DEF set_idle_off, NoPoll
  <2>2. CASE off # idle_off
    <3>1. PICK fails \in FailSets, w \in Waves :
            Finish(light(profiles[power], off, ~off, engine, hw, w, fails))
      BY <1>3, <2>2 DEF set_idle_off
    <3>2. /\ profiles'[power'] = profiles[power] /\ (~off) \in BOOLEAN
          /\ ~off \/ off \/ ~profiles[power].enabled
      BY <1>1, <1>3 DEF set_idle_off
    <3>3. QED
      BY <1>1, <1>3, <3>1, <3>2, LightKeeps DEF set_idle_off, NoPoll
  <2>3. QED
    BY <2>1, <2>2
<1>4. CASE poll_hw_brightness
  <2>1. HwChange = {}
    BY DEF HwChange, Healthy
  <2>2. UNCHANGED <<profiles, idle_off, hw, fan_boost, power, resuming>>
    BY <1>4, <2>1 DEF poll_hw_brightness
  <2>3. QED
    BY <1>1, <2>2, QuietKeeps
<1>5. CASE effect_tick
  <2>1. PICK fails \in FailSets, w \in Waves :
          Finish(tick(profiles[power], idle_off, engine, hw, w, fails))
    BY <1>5 DEF effect_tick
  <2>2. ~resuming => Coherent(engine, hw)
    BY DEF IInv, FrameOnKeyboard, Coherent, Healthy
  <2>3. profiles'[power'] = profiles[power]
    BY <1>5 DEF effect_tick
  <2>4. QED
    BY <1>1, <1>5, <2>1, <2>2, <2>3, TickKeeps DEF effect_tick, NoPoll
<1>6. CASE resume
  <2>1. PICK fails \in FailSets :
          Finish(apply_all(profiles[power], idle_off, fan_boost, hw, fails))
    BY <1>6 DEF resume, Healthy
  <2>2. QED
    BY <1>1, <1>6, <2>1, ApplyAllKeeps DEF resume
<1>7. ASSUME NEW level, HasHwChanged /\ FnKey(level) PROVE HealthyInv'
  BY <1>7 DEF Healthy
<1>8. ASSUME NEW h, EcReset(h) PROVE HealthyInv'
  BY <1>8 DEF EcReset, HealthyInv
<1>9. QED
  BY <1>2, <1>3, <1>4, <1>5, <1>6, <1>7, <1>8 DEF Event, Firmware

-----------------------------------------------------------------------------
(***************************************************************************)
(* The theorems.                                                           *)
(***************************************************************************)
\* The first apply_all shows the profile the daemon boots into.
LEMMA InitHealthy == Healthy /\ Init => HealthyInv
<1> SUFFICES ASSUME Healthy, Init PROVE HealthyInv
  OBVIOUS
<1>1. PICK pow \in PowerSource, h \in FoundHardware(FoundLevels),
           fails \in FailSets :
        Boot(ConfigProfiles, FALSE, pow, h, fails)
  BY DEF Init
<1>2. ConfigProfiles[pow] \in Profile /\ h \in Hardware /\ fails = {}
      /\ FALSE \in BOOLEAN
  BY InputAssumption, FoundLemma, NoFailure
<1> DEFINE o == apply_all(ConfigProfiles[pow], FALSE, FALSE, h, {})
<1>3. ShownBy(ConfigProfiles[pow], FALSE, o.hw)
      /\ FansBy(ConfigProfiles[pow], FALSE, o.hw)
  BY <1>2, ApplyAllShows
<1>4. /\ profiles[power] = ConfigProfiles[pow] /\ fan_boost = FALSE
      /\ idle_off = FALSE /\ hw = o.hw
  BY <1>1, <1>2 DEF Boot
<1> HIDE DEF o
<1>5. QED
  BY <1>3, <1>4 DEF HealthyInv, ActiveProfile

\* Every step keeps the invariant.
LEMMA NextHealthy ==
  Healthy /\ IInv /\ HealthyInv /\ [Next]_vars => HealthyInv'
<1> SUFFICES ASSUME Healthy, IInv, HealthyInv, [Next]_vars PROVE HealthyInv'
  OBVIOUS
<1>1. CASE Next
  BY <1>1, SetterKeeps, EventKeeps DEF Next
<1>2. CASE UNCHANGED vars
  BY <1>2 DEF vars, ctlVars, hwVars, HealthyInv, ActiveProfile
<1>3. QED
  BY <1>1, <1>2

\* HealthyInv is an invariant on healthy hardware.
THEOREM HealthyInvariance == ASSUME Healthy PROVE Spec => []HealthyInv
<1>1. Init => HealthyInv
  BY InitHealthy
<1>2. IInv /\ HealthyInv /\ [Next]_vars => HealthyInv'
  BY NextHealthy
<1>3. QED
  BY <1>1, <1>2, Invariance, PTL DEF Spec

\* Whatever is called in whatever order, LED level and frame are those of the
\* active profile, except between an EC reset and resume().
THEOREM KeyboardCorrect == ASSUME Healthy PROVE Spec => []KeyboardShowsProfile
<1>1. HealthyInv => KeyboardShowsProfile
  BY DEF HealthyInv, KeyboardShowsProfile, Shown, ShownBy, Lit
<1>2. QED
  BY <1>1, HealthyInvariance, PTL

\* Whatever is called in whatever order, the fans run as the active profile and
\* the boost setting say, except between an EC reset and resume().
THEOREM FansCorrect == ASSUME Healthy PROVE Spec => []FansFollowProfile
<1>1. HealthyInv => FansFollowProfile
  BY DEF HealthyInv, FansFollowProfile, FansBy
<1>2. QED
  BY <1>1, HealthyInvariance, PTL
=============================================================================
