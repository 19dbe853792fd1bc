---------------------------- MODULE DaemonProofs ----------------------------
(***************************************************************************)
(* Theorems about Daemon for every value of its constants: any number of   *)
(* clients, any profiles, effects and inputs.  The types hold whatever     *)
(* fails; that no wake-up, signal or save is lost needs a keyboard whose   *)
(* writes succeed, since a method that fails notifies nobody.              *)
(***************************************************************************)
EXTENDS Daemon, ControllerProofs

Reliable == Multicolor /\ Faulty = {}

-----------------------------------------------------------------------------
(***************************************************************************)
(* Types.                                                                  *)
(***************************************************************************)
PC == {"wait", "debounce", "emit", "save", "write"}

TaskTypeOK ==
    /\ wake \in BOOLEAN /\ changed \in BOOLEAN
    /\ owed \subseteq Clients \cup Tasks
    /\ effect_next \in {"now", "wake", "frame", "retry"}

EmitTypeOK ==
    /\ emitter = [pc |-> emitter.pc, status |-> emitter.status,
                  state |-> emitter.state]
    /\ emitter.pc \in PC
    /\ emitter.state \in State \cup {NoState}
    /\ disk \in State \cup {NoState}

EventTypeOK ==
    /\ mains \in PowerSource /\ seen_power \in PowerSource \cup {NoPower}
    /\ quiet \in BOOLEAN /\ activity \in BOOLEAN
    /\ idle_pc \in {"select", "off", "on"} /\ reader_pc \in {"read", "notify"}

DaemonTypes == IInv /\ TaskTypeOK /\ EmitTypeOK /\ EventTypeOK

\* A method runs one setter, changes nothing of the tasks, and owes a
\* notification if it succeeds.
LEMMA MethodIsSetter ==
  ASSUME Method
  PROVE  /\ Setter
         /\ \E c \in Clients : Owe(c, result' = "ok")
         /\ UNCHANGED <<emitVars, powerVars, idleVars>>
BY DEF Method, mutate, Setter

\* Taking the state leaves everything but the dirty flag.
LEMMA TakeStep ==
  ASSUME IInv, take_state
  PROVE  IInv'
BY DEF take_state, hwVars, IInv, TypeOK, EngineFollowsProfile, ActiveProfile,
       FrameOnKeyboard

\* Every step of the daemon is a step of the controller, takes the state, or
\* leaves the controller alone.
LEMMA ControllerStep ==
  ASSUME IInv, EventTypeOK, [DaemonNext]_allVars
  PROVE  IInv'
<1>1. CASE UNCHANGED vars
  BY <1>1, NextIInv
<1>2. CASE take_state
  BY <1>2, TakeStep
<1>3. CASE Setter \/ Firmware
  BY <1>3, SetterStep, FirmwareStep
<1>4. CASE effect_tick \/ poll_hw_brightness \/ resume
  BY <1>4, EventStep DEF Event
<1>5. CASE PowerSwitch
  <2>1. seen_power \in PowerSource
    BY <1>5 DEF PowerSwitch, EventTypeOK
  <2>2. UNCHANGED vars \/ set_power_source(seen_power)
    BY <1>5 DEF PowerSwitch
  <2>3. set_power_source(seen_power) => IInv'
    BY <2>1, EventStep DEF Event
  <2> QED
    BY <1>1, <2>2, <2>3
<1>6. CASE set_idle
  <2>1. UNCHANGED vars \/ set_idle_off(idle_pc = "off")
    BY <1>6 DEF set_idle
  <2>2. set_idle_off(idle_pc = "off") => IInv'
    <3> DEFINE off == idle_pc = "off"
    <3>1. off \in BOOLEAN
      OBVIOUS
    <3> HIDE DEF off
    <3>2. set_idle_off(off) => IInv'
      BY <3>1, EventStep DEF Event
    <3> QED
      BY <3>2 DEF off
  <2> QED
    BY <1>1, <2>1, <2>2
<1>7. CASE Method
  BY <1>3, <1>7, MethodIsSetter
<1>8. CASE Effects
  BY <1>1, <1>4, <1>8 DEF Effects, EffectTick, EffectWake, EffectTimer
<1>9. CASE Emission
  BY <1>1, <1>2, <1>9
     DEF Emission, EmitWait, EmitStatus, EmitSignal, SaveTake, SaveWrite
<1>10. CASE HwPoll \/ SleepResume \/ World
  BY <1>3, <1>4, <1>10 DEF HwPoll, SleepResume, World
<1>11. CASE PowerDetect \/ IdleCheck \/ IdleActivity \/ ReaderNotify
            \/ Replug \/ InputEvent \/ Timeout
  BY <1>1, <1>11 DEF PowerDetect, IdleCheck, IdleActivity, ReaderNotify,
                     Replug, InputEvent, Timeout
<1>12. CASE \E caller \in Clients \cup Tasks : notify_changed(caller)
  BY <1>1, <1>12 DEF notify_changed
<1>13. CASE UNCHANGED allVars
  BY <1>1, <1>13 DEF allVars
<1> QED
  BY <1>5, <1>6, <1>7, <1>8, <1>9, <1>10, <1>11, <1>12, <1>13
     DEF DaemonNext, Power, Idle

\* The tasks and their notifications keep their types.
LEMMA TaskTypes ==
  ASSUME TaskTypeOK, [DaemonNext]_allVars
  PROVE  TaskTypeOK'
<1>1. CASE UNCHANGED taskVars
  BY <1>1 DEF TaskTypeOK, taskVars
<1>2. ASSUME NEW c \in Clients \cup Tasks, NEW notify \in BOOLEAN, Owe(c, notify)
      PROVE  TaskTypeOK'
  BY <1>2 DEF TaskTypeOK, Owe
<1>3. CASE Method
  <2>1. PICK c \in Clients : Owe(c, result' = "ok")
    BY <1>3, MethodIsSetter
  <2> QED
    BY <2>1 DEF TaskTypeOK, Owe
<1>4. CASE Effects
  BY <1>4 DEF Effects, EffectTick, EffectWake, EffectTimer, TaskTypeOK
<1>5. CASE Emission
  BY <1>5 DEF Emission, EmitWait, EmitStatus, EmitSignal, SaveTake, SaveWrite,
              NoEffectOnOthers, TaskTypeOK
<1>6. CASE HwPoll
  BY <1>6 DEF HwPoll, Owe, Tasks, TaskTypeOK
<1>7. CASE SleepResume
  BY <1>7 DEF SleepResume, Owe, Tasks, TaskTypeOK
<1>8. CASE PowerSwitch
  BY <1>8 DEF PowerSwitch, Owe, Tasks, TaskTypeOK, taskVars
<1>9. CASE set_idle
  BY <1>9 DEF set_idle, Owe, Tasks, TaskTypeOK, taskVars
<1>10. CASE PowerDetect \/ IdleCheck \/ IdleActivity \/ ReaderNotify
            \/ Replug \/ InputEvent \/ Timeout \/ World
  BY <1>1, <1>10 DEF PowerDetect, IdleCheck, IdleActivity, ReaderNotify,
                     Replug, InputEvent, Timeout, World
<1>11. CASE \E caller \in Clients \cup Tasks : notify_changed(caller)
  BY <1>11 DEF notify_changed, TaskTypeOK
<1>12. CASE UNCHANGED allVars
  BY <1>1, <1>12 DEF allVars
<1> QED
  BY <1>3, <1>4, <1>5, <1>6, <1>7, <1>8, <1>9, <1>10, <1>11, <1>12
     DEF DaemonNext, Power, Idle

\* The emitter and the state file keep their types.
LEMMA EmitTypes ==
  ASSUME TypeOK, EmitTypeOK, [DaemonNext]_allVars
  PROVE  EmitTypeOK'
<1>1. CASE UNCHANGED emitVars
  BY <1>1 DEF EmitTypeOK, emitVars
<1>2. CASE EmitWait
  <2>1. emitter' = [pc |-> "debounce", status |-> emitter.status,
                    state |-> emitter.state]
    BY <1>2 DEF EmitWait, EmitTypeOK
  <2> QED
    BY <1>2, <2>1 DEF EmitWait, EmitTypeOK, PC
<1>3. CASE EmitStatus
  BY <1>3 DEF EmitStatus, EmitTypeOK, PC
<1>4. CASE EmitSignal
  BY <1>4 DEF EmitSignal, EmitTypeOK, PC
<1>5. CASE SaveTake
  <2>1. CASE dirty
    <3>1. CurrentState \in State
      BY DEF CurrentState, State, TypeOK
    <3> QED
      BY <1>5, <2>1, <3>1 DEF SaveTake, EmitTypeOK, PC
  <2>2. CASE ~dirty
    <3>1. emitter' = [pc |-> "wait", status |-> emitter.status,
                      state |-> emitter.state]
      BY <1>5, <2>2 DEF SaveTake, EmitTypeOK
    <3> QED
      BY <1>5, <3>1 DEF SaveTake, EmitTypeOK, PC
  <2> QED
    BY <2>1, <2>2
<1>6. CASE SaveWrite
  BY <1>6 DEF SaveWrite, EmitTypeOK, PC
<1>7. CASE Method
  BY <1>1, <1>7, MethodIsSetter
<1>8. CASE Effects
  BY <1>1, <1>8 DEF Effects, EffectTick, EffectWake, EffectTimer
<1>9. CASE HwPoll \/ SleepResume \/ World \/ PowerDetect \/ PowerSwitch
           \/ IdleCheck \/ IdleActivity \/ set_idle \/ ReaderNotify
           \/ Replug \/ InputEvent \/ Timeout
  BY <1>1, <1>9 DEF HwPoll, SleepResume, World, PowerDetect, PowerSwitch,
       IdleCheck, IdleActivity, set_idle, ReaderNotify, Replug, InputEvent,
       Timeout
<1>10. CASE \E caller \in Clients \cup Tasks : notify_changed(caller)
  BY <1>1, <1>10 DEF notify_changed
<1>11. CASE UNCHANGED allVars
  BY <1>1, <1>11 DEF allVars
<1> QED
  BY <1>2, <1>3, <1>4, <1>5, <1>6, <1>7, <1>8, <1>9, <1>10, <1>11
     DEF DaemonNext, Power, Idle, Emission

\* The power watch and the idle detection keep their types.
LEMMA EventTypes ==
  ASSUME EventTypeOK, [DaemonNext]_allVars
  PROVE  EventTypeOK'
<1>1. CASE UNCHANGED <<powerVars, idleVars>>
  BY <1>1 DEF EventTypeOK, powerVars, idleVars
<1>2. CASE PowerDetect \/ PowerSwitch \/ Replug
  BY <1>2 DEF PowerDetect, PowerSwitch, Replug, EventTypeOK, powerVars, idleVars
<1>3. CASE IdleCheck \/ IdleActivity \/ set_idle \/ ReaderNotify \/ InputEvent
           \/ Timeout
  BY <1>3 DEF IdleCheck, IdleActivity, set_idle, ReaderNotify, InputEvent,
              Timeout, EventTypeOK, powerVars, idleVars
<1>4. CASE Method
  BY <1>1, <1>4, MethodIsSetter
<1>5. CASE Effects
  BY <1>1, <1>5 DEF Effects, EffectTick, EffectWake, EffectTimer
<1>6. CASE Emission
  BY <1>1, <1>6 DEF Emission, EmitWait, EmitStatus, EmitSignal, SaveTake,
                    SaveWrite, NoEffectOnOthers
<1>7. CASE HwPoll \/ SleepResume \/ World
  BY <1>1, <1>7 DEF HwPoll, SleepResume, World
<1>8. CASE \E caller \in Clients \cup Tasks : notify_changed(caller)
  BY <1>1, <1>8 DEF notify_changed
<1>9. CASE UNCHANGED allVars
  BY <1>1, <1>9 DEF allVars
<1> QED
  BY <1>2, <1>3, <1>4, <1>5, <1>6, <1>7, <1>8, <1>9 DEF DaemonNext, Power, Idle

LEMMA InitTypes == DaemonInit => DaemonTypes
<1> SUFFICES ASSUME DaemonInit PROVE DaemonTypes
  OBVIOUS
<1>1. IInv
  BY InitIInv DEF DaemonInit
<1>2. TaskTypeOK
  BY DEF DaemonInit, TaskTypeOK
<1>3. EmitTypeOK
  BY DEF DaemonInit, EmitTypeOK, PC
<1>4. EventTypeOK
  BY <1>1 DEF DaemonInit, EventTypeOK, IInv, TypeOK
<1> QED
  BY <1>1, <1>2, <1>3, <1>4 DEF DaemonTypes

LEMMA NextTypes == DaemonTypes /\ [DaemonNext]_allVars => DaemonTypes'
BY ControllerStep, TaskTypes, EmitTypes, EventTypes DEF DaemonTypes, IInv

\* Every state of the daemon is well typed: controller, permits, notifications
\* owed, emitter, state file, power watch and idle detection.
THEOREM DaemonTypeCorrect == DaemonSpec => []DaemonTypeOK
<1>1. DaemonTypes => DaemonTypeOK
  BY DEF DaemonTypes, IInv, TaskTypeOK, EmitTypeOK, EventTypeOK, PC, DaemonTypeOK
<1> QED
  BY <1>1, InitTypes, NextTypes, PTL DEF DaemonSpec

-----------------------------------------------------------------------------
(***************************************************************************)
(* What an operation leaves when its writes succeed.                       *)
(***************************************************************************)
FansStay == hw'.fan_mode = hw.fan_mode /\ hw'.fan_boost = hw.fan_boost

\* Nothing a client or a restart could see has changed.
Silent ==
    /\ UNCHANGED <<profiles, fan_boost, power, idle_off, dirty, resuming>>
    /\ FansStay

\* What is saved changes only together with the dirty flag.
Marked == dirty' = TRUE \/ UNCHANGED <<profiles, fan_boost, dirty>>

LEMMA NoFailSet ==
  ASSUME Reliable, NEW fails \in FailSets
  PROVE  fails = {}
BY DEF Reliable, FailSets

\* A tick succeeds and leaves the fans alone.
LEMMA TickFine ==
  ASSUME Reliable, NEW p, NEW off, NEW eng, NEW h, NEW w
  PROVE  \E e, g : /\ tick(p, off, eng, h, w, {})
                        = [engine |-> e, hw |-> g, ok |-> TRUE]
                   /\ h \in Hardware => /\ g.fan_mode = h.fan_mode
                                        /\ g.fan_boost = h.fan_boost
<1> DEFINE f == frame_at(eng.effect, w)
           shown == [h EXCEPT !.intensity = clamp_intensity(f)]
           moved == [eng EXCEPT !.last_frame = f]
<1>1. Multicolor /\ "intensity" \notin {}
  BY DEF Reliable
<1>2. tick(p, off, eng, h, w, {}) =
        IF off \/ ~p.enabled \/ eng.last_frame = f
        THEN [engine |-> eng, hw |-> h, ok |-> TRUE]
        ELSE [engine |-> moved, hw |-> shown, ok |-> TRUE]
  BY <1>1 DEF tick, engine_apply
<1>3. h \in Hardware => shown.fan_mode = h.fan_mode /\ shown.fan_boost = h.fan_boost
  BY DEF Hardware
<1> HIDE DEF f, shown, moved
<1>4. CASE off \/ ~p.enabled \/ eng.last_frame = f
  BY <1>2, <1>4
<1>5. CASE ~(off \/ ~p.enabled \/ eng.last_frame = f)
  BY <1>2, <1>3, <1>5
<1> QED
  BY <1>4, <1>5

\* Level and frame are written.
LEMMA LightFine ==
  ASSUME Reliable, NEW p, NEW off, NEW lit, NEW eng, NEW h, NEW w
  PROVE  /\ light(p, off, lit, eng, h, w, {}).ok = TRUE
         /\ \E e, g : light(p, off, lit, eng, h, w, {})
                        = [engine |-> e, hw |-> g, ok |-> TRUE]
<1> DEFINE g == apply_brightness(p, off, h, {})
           inv == invalidate(eng)
           o == light(p, off, lit, eng, h, w, {})
<1>1. o = IF ~lit THEN [engine |-> eng, hw |-> g, ok |-> TRUE]
          ELSE tick(p, off, inv, g, w, {})
  BY DEF light
<1> HIDE DEF g, inv, o
<1>2. PICK e, k : tick(p, off, inv, g, w, {}) = [engine |-> e, hw |-> k, ok |-> TRUE]
  BY TickFine
<1>3. \E a, b : o = [engine |-> a, hw |-> b, ok |-> TRUE]
  BY <1>1, <1>2
<1>4. o.ok = TRUE
  BY <1>3
<1> QED
  BY <1>3, <1>4 DEF o

\* So is a whole profile.
LEMMA AllFine ==
  ASSUME Reliable, NEW p, NEW off, NEW boost, NEW h
  PROVE  apply_all(p, off, boost, h, {}).ok = TRUE
<1> DEFINE on == ~off /\ p.enabled
           new == NewEngine(p.effect)
           lit == light(p, off, on, new, h, 0, {})
<1>1. apply_all(p, off, boost, h, {}) =
        IF lit.ok THEN [lit EXCEPT !.hw = apply_fans(p, boost, lit.hw, {})] ELSE lit
  BY DEF apply_all
<1> HIDE DEF on, new
<1>2. PICK e, g : lit = [engine |-> e, hw |-> g, ok |-> TRUE]
  BY LightFine
<1>3. lit.ok = TRUE
  BY <1>2
<1>4. ASSUME NEW k PROVE [lit EXCEPT !.hw = k].ok = TRUE
  <2>1. [[engine |-> e, hw |-> g, ok |-> TRUE] EXCEPT !.hw = k].ok = TRUE
    OBVIOUS
  <2> QED
    BY <1>2, <2>1
<1> HIDE DEF lit
<1> QED
  BY <1>1, <1>3, <1>4

\* An operation that ends in one of these succeeds.
LEMMA FinishFine ==
  ASSUME NEW o, o.ok = TRUE, Finish(o)
  PROVE  result' = "ok"
BY DEF Finish

LEMMA ChangeEffectFine ==
  ASSUME Reliable, NEW e, change_effect(e)
  PROVE  result' = "ok" /\ dirty' = TRUE /\ resuming' = resuming
<1> DEFINE p == [profiles[power] EXCEPT !.effect = e]
           new == NewEngine(e)
           o == tick(p, idle_off, new, hw, 0, {})
<1>1. PICK fails \in FailSets : Finish(tick(p, idle_off, new, hw, 0, fails))
  BY DEF change_effect
<1>2. fails = {}
  BY NoFailSet
<1> HIDE DEF p, new
<1>3. \E a, g : o = [engine |-> a, hw |-> g, ok |-> TRUE]
  BY TickFine
<1>4. Finish(o)
  BY <1>1, <1>2
<1> HIDE DEF o
<1>5. o.ok = TRUE
  BY <1>3
<1>6. result' = "ok"
  BY <1>4, <1>5, FinishFine
<1> QED
  BY <1>6 DEF change_effect, NoPoll

\* A setter succeeds, or it is rejected and changes nothing.
LEMMA SetterFine ==
  ASSUME Reliable, Setter
  PROVE  resuming' = resuming /\ Marked /\ (result' = "ok" \/ Silent)
<1>1. ASSUME NEW on, set_enabled(on) PROVE result' = "ok" /\ dirty' = TRUE
  <2> DEFINE p == [profiles[power] EXCEPT !.enabled = on]
  <2>1. PICK fails \in FailSets, w \in Waves :
          Finish(light(p, FALSE, on, engine, hw, w, fails))
    BY <1>1 DEF set_enabled
  <2>2. fails = {}
    BY NoFailSet
  <2> HIDE DEF p
  <2>3. result' = "ok"
    BY <2>1, <2>2, LightFine, FinishFine
  <2> QED
    BY <1>1, <2>3 DEF set_enabled
<1>2. ASSUME NEW level \in LevelInputs, set_brightness(level)
      PROVE  (result' = "ok" /\ dirty' = TRUE) \/ Silent
  <2>1. CASE level > HwMax
    <3>1. ~(level <= HwMax)
      BY <2>1, LevelAssumption, InputAssumption DEF U8
    <3> QED
      BY <1>2, <3>1 DEF set_brightness, Rejected, NoPoll, Silent, FansStay
  <2>2. CASE ~(level > HwMax)
    <3> DEFINE p == AtLevel(profiles[power], level)
               lit == level > 0
    <3>1. PICK fails \in FailSets, w \in Waves :
            Finish(light(p, FALSE, lit, engine, hw, w, fails))
      BY <1>2, <2>2 DEF set_brightness
    <3>2. fails = {}
      BY NoFailSet
    <3> HIDE DEF p, lit
    <3>3. result' = "ok"
      BY <3>1, <3>2, LightFine, FinishFine
    <3> QED
      BY <1>2, <2>2, <3>3 DEF set_brightness
  <2> QED
    BY <2>1, <2>2
<1>3. ASSUME NEW e, change_effect(e) PROVE result' = "ok" /\ dirty' = TRUE
  BY <1>3, ChangeEffectFine
<1>4. ASSUME NEW colors, set_cycle_colors(colors)
      PROVE  (result' = "ok" /\ dirty' = TRUE) \/ Silent
  BY <1>3, <1>4 DEF set_cycle_colors, Rejected, NoPoll, Silent, FansStay
<1>5. ASSUME NEW mode, set_fan_mode(mode)
      PROVE  (result' = "ok" /\ dirty' = TRUE) \/ Silent
  <2>1. CASE Rejected /\ UNCHANGED <<profiles, dirty>>
    BY <1>5, <2>1 DEF set_fan_mode, Rejected, NoPoll, Silent, FansStay
  <2>2. CASE dirty' = TRUE /\ Finish([engine |-> engine,
                   hw |-> [hw EXCEPT !.fan_mode = mode], ok |-> TRUE])
    BY <2>2, FinishFine
  <2> QED
    BY <1>5, <2>1, <2>2 DEF set_fan_mode
<1>6. ASSUME NEW on, set_fan_boost(on)
      PROVE  (result' = "ok" /\ dirty' = TRUE) \/ Silent
  <2>1. CASE Rejected /\ UNCHANGED <<fan_boost, dirty>>
    BY <1>6, <2>1 DEF set_fan_boost, Rejected, NoPoll, Silent, FansStay
  <2>2. CASE dirty' = TRUE /\ Finish([engine |-> engine,
                   hw |-> [hw EXCEPT !.fan_boost = on], ok |-> TRUE])
    BY <2>2, FinishFine
  <2> QED
    BY <1>6, <2>1, <2>2 DEF set_fan_boost
<1>7. ASSUME NEW source, NEW profile, set_profile(source, profile)
      PROVE  result' = "ok" /\ dirty' = TRUE
  <2>1. PICK fails \in FailSets :
          IF source = power
          THEN Finish(apply_all(profile, idle_off, fan_boost, hw, fails))
          ELSE result' = "ok"
    BY <1>7 DEF set_profile
  <2>2. fails = {}
    BY NoFailSet
  <2>3. result' = "ok"
    BY <2>1, <2>2, AllFine, FinishFine
  <2> QED
    BY <1>7, <2>3 DEF set_profile
<1>8. ASSUME reset_to_config PROVE result' = "ok" /\ dirty' = TRUE
  <2>1. PICK fails \in FailSets :
          Finish(apply_all(ConfigProfiles[power], idle_off, FALSE, hw, fails))
    BY <1>8 DEF reset_to_config
  <2>2. fails = {}
    BY NoFailSet
  <2>3. result' = "ok"
    BY <2>1, <2>2, AllFine, FinishFine
  <2> QED
    BY <1>8, <2>3 DEF reset_to_config
<1>9. ASSUME reapply
      PROVE  result' = "ok" /\ UNCHANGED <<profiles, fan_boost, dirty>>
  <2>1. PICK fails \in FailSets :
          Finish(apply_all(profiles[power], idle_off, fan_boost, hw, fails))
    BY <1>9 DEF reapply
  <2>2. fails = {}
    BY NoFailSet
  <2>3. result' = "ok"
    BY <2>1, <2>2, AllFine, FinishFine
  <2> QED
    BY <1>9, <2>3 DEF reapply
<1>10. resuming' = resuming
  BY DEF Setter, set_enabled, set_brightness, set_color, set_effect, set_speed,
         set_cycle_colors, change_effect, set_fan_mode, set_fan_boost,
         set_profile, reset_to_config, reapply, NoPoll
<1>11. Silent => Marked
  BY DEF Silent, Marked
<1>12. \/ result' = "ok" /\ dirty' = TRUE
       \/ Silent
       \/ result' = "ok" /\ UNCHANGED <<profiles, fan_boost, dirty>>
  BY <1>1, <1>2, <1>3, <1>4, <1>5, <1>6, <1>7, <1>8, <1>9
     DEF Setter, set_color, set_effect, set_speed
<1> QED
  BY <1>10, <1>11, <1>12 DEF Marked

-----------------------------------------------------------------------------
(***************************************************************************)
(* Every change is announced: a step outside the effect loop and the       *)
(* emitter owes a notification, or leaves what clients see and what is     *)
(* saved as it is (an EC reset moves the fans, but resume() will follow).  *)
(***************************************************************************)
Announced ==
    /\ UNCHANGED <<wake, changed, effect_next, emitVars>>
    /\ Marked
    /\ owed' # {}

Unnoticed ==
    /\ UNCHANGED <<taskVars, emitVars>>
    /\ UNCHANGED <<profiles, fan_boost, power, idle_off, dirty>>
    /\ resuming' = TRUE \/ (resuming' = resuming /\ FansStay)

Outside ==
    \/ Method \/ HwPoll \/ SleepResume \/ Power \/ Idle \/ ReaderNotify
    \/ World \/ Replug \/ InputEvent \/ Timeout
    \/ UNCHANGED allVars

LEMMA PollFine ==
  ASSUME Reliable, HwPoll
  PROVE  Announced \/ Unnoticed
<1>1. CASE HwChange = {} \/ ~FollowHw
  <2>1. UNCHANGED <<profiles, idle_off, dirty, hw, fan_boost, power, resuming>>
    BY <1>1 DEF HwPoll, poll_hw_brightness
  <2>2. UNCHANGED taskVars
    BY <1>1 DEF HwPoll, Owe, taskVars
  <2> QED
    BY <2>1, <2>2 DEF HwPoll, Unnoticed, FansStay
<1>2. CASE HwChange # {} /\ FollowHw
  <2>1. PICK level \in HwChange, fails \in FailSets, w \in Waves :
          /\ dirty' = TRUE
          /\ LET p == AtLevel(profiles[power], level)
             IN  Finish(IF p.enabled
                        THEN tick(p, FALSE, invalidate(engine), hw, w, fails)
                        ELSE [engine |-> engine, hw |-> hw, ok |-> TRUE])
    BY <1>2 DEF HwPoll, poll_hw_brightness
  <2>2. fails = {}
    BY NoFailSet
  <2> DEFINE p == AtLevel(profiles[power], level)
             inv == invalidate(engine)
             off == FALSE
             t == tick(p, off, inv, hw, w, {})
             o == IF p.enabled THEN t
                  ELSE [engine |-> engine, hw |-> hw, ok |-> TRUE]
  <2>3. Finish(o)
    BY <2>1, <2>2
  <2> HIDE DEF p, inv, off
  <2>4. \E e, g : t = [engine |-> e, hw |-> g, ok |-> TRUE]
    BY TickFine
  <2> HIDE DEF t
  <2>5. o.ok = TRUE
    BY <2>4
  <2> HIDE DEF o
  <2>6. result' = "ok"
    BY <2>3, <2>5, FinishFine
  <2> QED
    BY <1>2, <2>1, <2>6 DEF HwPoll, Owe, Announced, Marked
<1> QED
  BY <1>1, <1>2

LEMMA ChangesAnnounced ==
  ASSUME Reliable, TypeOK, Outside
  PROVE  Announced \/ Unnoticed
<1>1. CASE Method
  <2>1. /\ resuming' = resuming /\ Marked /\ (result' = "ok" \/ Silent)
        /\ UNCHANGED emitVars
    BY <1>1, MethodIsSetter, SetterFine
  <2>2. PICK c \in Clients : Owe(c, result' = "ok")
    BY <1>1, MethodIsSetter
  <2>3. /\ owed' = IF result' = "ok" THEN owed \cup {c} ELSE owed
        /\ UNCHANGED <<wake, changed, effect_next>>
    BY <2>2 DEF Owe
  <2>4. CASE result' = "ok"
    <3>1. owed' # {}
      BY <2>3, <2>4
    <3> QED
      BY <2>1, <2>3, <3>1 DEF Announced
  <2>5. CASE result' # "ok"
    BY <2>1, <2>3, <2>5 DEF Unnoticed, Silent, taskVars
  <2> QED
    BY <2>4, <2>5
<1>2. CASE HwPoll
  BY <1>2, PollFine
<1>3. CASE SleepResume
  BY <1>3 DEF SleepResume, resume, Owe, Announced, Marked
<1>4. CASE PowerSwitch
  <2>1. CASE seen_power = power
    BY <1>4, <2>1 DEF PowerSwitch, Unnoticed, FansStay, vars, ctlVars, hwVars
  <2>2. CASE seen_power # power
    BY <1>4, <2>2 DEF PowerSwitch, set_power_source, Owe, Announced, Marked
  <2> QED
    BY <2>1, <2>2
<1>5. CASE set_idle
  <2> DEFINE off == idle_pc = "off"
  <2>1. CASE idle_off = off
    BY <1>5, <2>1 DEF set_idle, Unnoticed, FansStay, vars, ctlVars, hwVars
  <2>2. CASE ~(idle_off = off)
    <3>1. set_idle_off(off) /\ Owe("idle", TRUE) /\ UNCHANGED emitVars
      BY <1>5, <2>2 DEF set_idle
    <3> HIDE DEF off
    <3> QED
      BY <3>1 DEF set_idle_off, Owe, Announced, Marked
  <2> QED
    BY <2>1, <2>2
<1>6. CASE World
  <2>1. ASSUME NEW level, FnKey(level) PROVE FansStay /\ resuming' = resuming
    BY <2>1 DEF FnKey, FansStay, TypeOK, Hardware
  <2>2. ASSUME NEW h, EcReset(h) PROVE resuming' = TRUE
    BY <2>2 DEF EcReset
  <2>3. UNCHANGED ctlVars
    BY <1>6 DEF World, Firmware, FnKey, EcReset
  <2>4. resuming' = TRUE \/ (resuming' = resuming /\ FansStay)
    BY <1>6, <2>1, <2>2 DEF World, Firmware
  <2> QED
    BY <1>6, <2>3, <2>4 DEF World, Unnoticed, ctlVars
<1>7. CASE PowerDetect \/ IdleCheck \/ IdleActivity \/ ReaderNotify
           \/ Replug \/ InputEvent \/ Timeout
  BY <1>7 DEF PowerDetect, IdleCheck, IdleActivity, ReaderNotify, Replug,
              InputEvent, Timeout, Unnoticed, FansStay, vars, ctlVars, hwVars
<1>8. CASE UNCHANGED allVars
  BY <1>8 DEF allVars, Unnoticed, FansStay, vars, ctlVars, hwVars
<1> QED
  BY <1>1, <1>2, <1>3, <1>4, <1>5, <1>6, <1>7, <1>8 DEF Outside, Power, Idle

\* The loop animates, and a tick changes nothing else.
LEMMA EffectsSilent ==
  ASSUME Reliable, TypeOK, Effects
  PROVE  /\ UNCHANGED <<profiles, fan_boost, power, idle_off, dirty, resuming>>
         /\ UNCHANGED <<changed, owed, emitVars>>
         /\ FansStay
<1>1. CASE EffectTick
  <2>1. PICK fails \in FailSets, w \in Waves :
          Finish(tick(profiles[power], idle_off, engine, hw, w, fails))
    BY <1>1 DEF EffectTick, effect_tick
  <2>2. fails = {}
    BY NoFailSet
  <2> DEFINE p == profiles[power]
             o == tick(p, idle_off, engine, hw, w, {})
  <2>3. Finish(o)
    BY <2>1, <2>2
  <2> HIDE DEF p
  <2>4. \E e, g : /\ o = [engine |-> e, hw |-> g, ok |-> TRUE]
                  /\ hw \in Hardware => /\ g.fan_mode = hw.fan_mode
                                        /\ g.fan_boost = hw.fan_boost
    BY TickFine
  <2> HIDE DEF o
  <2>5. o.hw.fan_mode = hw.fan_mode /\ o.hw.fan_boost = hw.fan_boost
    BY <2>4 DEF TypeOK
  <2>6. FansStay
    BY <2>3, <2>5 DEF Finish, FansStay
  <2> QED
    BY <1>1, <2>6 DEF EffectTick, effect_tick, NoPoll
<1>2. CASE EffectWake \/ EffectTimer
  BY <1>2 DEF EffectWake, EffectTimer, vars, ctlVars, hwVars, FansStay
<1> QED
  BY <1>1, <1>2 DEF Effects

\* Clients read the status off profiles, power source, idle flag and fans.
LEMMA SameStatus ==
  ASSUME UNCHANGED <<profiles, power, idle_off>>, FansStay
  PROVE  Status' = Status
BY DEF Status, FansStay

LEMMA SameLight ==
  ASSUME UNCHANGED <<profiles, power, idle_off>>
  PROVE  Animated' = Animated
BY DEF Animated, Lit, ActiveProfile

LEMMA NotifySteps ==
  ASSUME \E caller \in Clients \cup Tasks : notify_changed(caller)
  PROVE  /\ wake' = TRUE /\ changed' = TRUE
         /\ UNCHANGED <<effect_next, emitVars>>
         /\ UNCHANGED <<profiles, fan_boost, power, idle_off, dirty>>
BY DEF notify_changed, vars, ctlVars

LEMMA EmissionSilent ==
  ASSUME Emission
  PROVE  /\ UNCHANGED <<profiles, fan_boost, power, idle_off, hw, resuming>>
         /\ UNCHANGED <<wake, owed, effect_next>>
BY DEF Emission, EmitWait, EmitStatus, EmitSignal, SaveTake, SaveWrite,
       take_state, NoEffectOnOthers, vars, ctlVars, hwVars

LEMMA StepCases ==
  ASSUME [DaemonNext]_allVars
  PROVE  \/ Outside \/ Effects \/ Emission
         \/ \E caller \in Clients \cup Tasks : notify_changed(caller)
BY DEF DaemonNext, Outside

-----------------------------------------------------------------------------
(***************************************************************************)
(* Wake-ups.                                                               *)
(***************************************************************************)
LEMMA WakeStep ==
  ASSUME Reliable, TypeOK, NoLostWakeup, [DaemonNext]_allVars
  PROVE  NoLostWakeup'
<1>1. CASE Outside
  <2>1. CASE Announced
    BY <2>1 DEF Announced, NoLostWakeup, WakePending
  <2>2. CASE Unnoticed
    <3>1. Animated' = Animated
      BY <2>2, SameLight DEF Unnoticed
    <3> QED
      BY <2>2, <3>1 DEF Unnoticed, taskVars, NoLostWakeup, WakePending
  <2> QED
    BY <1>1, <2>1, <2>2, ChangesAnnounced
<1>2. CASE EffectTick
  <2>1. UNCHANGED <<profiles, power, idle_off>>
    BY <1>2 DEF EffectTick, effect_tick
  <2>2. Animated' = Animated
    BY <2>1, SameLight
  <2>3. effect_next' = "wake" => ~Animated
    BY <1>2 DEF EffectTick, Animated
  <2> QED
    BY <2>2, <2>3 DEF NoLostWakeup
<1>3. CASE EffectWake \/ EffectTimer
  BY <1>3 DEF EffectWake, EffectTimer, NoLostWakeup
<1>4. CASE Emission
  <2>1. Animated' = Animated
    BY <1>4, EmissionSilent, SameLight
  <2> QED
    BY <1>4, <2>1, EmissionSilent DEF NoLostWakeup, WakePending
<1>5. CASE \E caller \in Clients \cup Tasks : notify_changed(caller)
  BY <1>5, NotifySteps DEF NoLostWakeup, WakePending
<1> QED
  BY <1>1, <1>2, <1>3, <1>4, <1>5, StepCases DEF Effects

\* While writes succeed, the effect loop never sleeps through a change that
\* asks for an animation: a wake-up is pending, or owed by whoever changed it.
THEOREM WakeupsArrive == Reliable => (DaemonSpec => []NoLostWakeup)
<1> SUFFICES ASSUME Reliable PROVE DaemonSpec => []NoLostWakeup
  OBVIOUS
<1>1. DaemonInit => NoLostWakeup
  BY DEF DaemonInit, NoLostWakeup
<1>2. DaemonTypes /\ NoLostWakeup /\ [DaemonNext]_allVars => NoLostWakeup'
  BY WakeStep DEF DaemonTypes, IInv
<1> QED
  BY <1>1, <1>2, InitTypes, NextTypes, PTL DEF DaemonSpec

-----------------------------------------------------------------------------
(***************************************************************************)
(* Signals.  The status the emitter took, too, is the current one unless   *)
(* another signal will follow.                                             *)
(***************************************************************************)
Known(status) == status = Status \/ ChangedPending \/ resuming

SignalInv ==
    /\ At("wait") \/ At("save") \/ At("write") => Known(told)
    /\ At("emit") => Known(emitter.status)

\* What was known stays known while the status does, or a signal is owed.
LEMMA StaysKnown ==
  ASSUME UNCHANGED emitVars, SignalInv,
         \/ ChangedPending' \/ resuming' = TRUE
         \/ Status' = Status /\ (ChangedPending => ChangedPending')
            /\ resuming' = resuming
  PROVE  SignalInv'
BY DEF SignalInv, Known, emitVars, At

LEMMA SignalStep ==
  ASSUME Reliable, TypeOK, EmitTypeOK, SignalInv, [DaemonNext]_allVars
  PROVE  SignalInv'
<1>1. CASE Outside
  <2>1. CASE Announced
    BY <2>1, StaysKnown DEF Announced, ChangedPending
  <2>2. CASE Unnoticed
    <3>1. UNCHANGED emitVars /\ ChangedPending' = ChangedPending
      BY <2>2 DEF Unnoticed, taskVars, ChangedPending
    <3>2. resuming' # TRUE => Status' = Status /\ resuming' = resuming
      BY <2>2, SameStatus DEF Unnoticed
    <3> QED
      BY <3>1, <3>2, StaysKnown
  <2> QED
    BY <1>1, <2>1, <2>2, ChangesAnnounced
<1>2. CASE Effects
  <2>1. /\ UNCHANGED <<profiles, power, idle_off, resuming, changed, owed, emitVars>>
        /\ FansStay
    BY <1>2, EffectsSilent
  <2>2. Status' = Status /\ ChangedPending' = ChangedPending
    BY <2>1, SameStatus DEF ChangedPending
  <2> QED
    BY <2>1, <2>2, StaysKnown
<1>3. CASE Emission
  <2>1. UNCHANGED <<profiles, power, idle_off, hw, resuming, owed>>
    BY <1>3, EmissionSilent
  <2>2. Status' = Status
    BY <2>1, SameStatus DEF FansStay
  <2>3. CASE EmitWait
    <3>1. emitter'.pc = "debounce"
      BY <2>3 DEF EmitWait, EmitTypeOK
    <3> QED
      BY <3>1 DEF SignalInv, At
  <2>4. CASE EmitStatus
    <3>1. emitter'.pc = "emit" /\ emitter'.status = Status
      BY <2>4 DEF EmitStatus
    <3> QED
      BY <2>2, <3>1 DEF SignalInv, At, Known
  <2>5. CASE EmitSignal
    <3>1. /\ emitter'.pc = "save" /\ told' = emitter.status
          /\ changed' = changed /\ At("emit")
      BY <2>5 DEF EmitSignal
    <3> QED
      BY <2>1, <2>2, <3>1 DEF SignalInv, At, Known, ChangedPending
  <2>6. CASE SaveTake \/ SaveWrite
    <3>1. /\ emitter'.pc \in {"wait", "write"}
          /\ UNCHANGED <<told, changed>> /\ (At("save") \/ At("write"))
      BY <2>6 DEF SaveTake, SaveWrite, EmitTypeOK
    <3> QED
      BY <2>1, <2>2, <3>1 DEF SignalInv, At, Known, ChangedPending
  <2> QED
    BY <1>3, <2>3, <2>4, <2>5, <2>6 DEF Emission
<1>4. CASE \E caller \in Clients \cup Tasks : notify_changed(caller)
  BY <1>4, NotifySteps, StaysKnown DEF ChangedPending
<1> QED
  BY <1>1, <1>2, <1>3, <1>4, StepCases

\* While writes succeed, clients are never left with an old status: when the
\* emitter rests, the last signal told the current one or another will follow.
THEOREM SignalsArrive == Reliable => (DaemonSpec => []NoLostSignal)
<1> SUFFICES ASSUME Reliable PROVE DaemonSpec => []NoLostSignal
  OBVIOUS
<1>1. DaemonInit => SignalInv
  BY DEF DaemonInit, SignalInv, Known, At
<1>2. DaemonTypes /\ SignalInv /\ [DaemonNext]_allVars => SignalInv'
  BY SignalStep DEF DaemonTypes, IInv
<1>3. SignalInv => NoLostSignal
  BY DEF SignalInv, Known, NoLostSignal
<1> QED
  BY <1>1, <1>2, <1>3, InitTypes, NextTypes, PTL DEF DaemonSpec

-----------------------------------------------------------------------------
(***************************************************************************)
(* Saves.  Between taking the state and writing it, the saver holds the    *)
(* current state unless it became dirty again.                             *)
(***************************************************************************)
SaveAhead == emitter.pc \in {"debounce", "emit", "save"}

SaveInv ==
    /\ dirty => ChangedPending \/ SaveAhead
    /\ ~dirty /\ ~At("write") => Loadable = CurrentState
    /\ ~dirty /\ At("write") => emitter.state = CurrentState

\* A step that leaves emitter and file alone keeps what was saved, or marks it.
LEMMA StaysSaved ==
  ASSUME SaveInv, UNCHANGED emitVars, Marked,
         ChangedPending' \/ (dirty' = dirty /\ (ChangedPending => ChangedPending'))
  PROVE  SaveInv'
<1>1. CASE dirty' = TRUE
  BY <1>1 DEF SaveInv, SaveAhead, emitVars
<1>2. CASE UNCHANGED <<profiles, fan_boost, dirty>>
  <2>1. CurrentState' = CurrentState /\ Loadable' = Loadable
    BY <1>2 DEF CurrentState, Loadable, emitVars
  <2> QED
    BY <1>2, <2>1 DEF SaveInv, SaveAhead, At, emitVars
<1> QED
  BY <1>1, <1>2 DEF Marked

LEMMA SaveStep ==
  ASSUME Reliable, ~DiskFaulty, TypeOK, EmitTypeOK, SaveInv, [DaemonNext]_allVars
  PROVE  SaveInv'
<1>1. CASE Outside
  <2>1. CASE Announced
    BY <2>1, StaysSaved DEF Announced, ChangedPending
  <2>2. CASE Unnoticed
    BY <2>2, StaysSaved DEF Unnoticed, Marked, taskVars, ChangedPending
  <2> QED
    BY <1>1, <2>1, <2>2, ChangesAnnounced
<1>2. CASE Effects
  BY <1>2, EffectsSilent, StaysSaved DEF Marked, ChangedPending
<1>3. CASE Emission
  <2>1. UNCHANGED <<profiles, fan_boost, owed>> /\ CurrentState' = CurrentState
    BY <1>3, EmissionSilent DEF CurrentState
  <2>2. CASE EmitWait
    <3>1. emitter'.pc = "debounce" /\ At("wait") /\ UNCHANGED <<dirty, disk>>
      BY <2>2 DEF EmitWait, EmitTypeOK, vars, ctlVars
    <3> QED
      BY <2>1, <3>1 DEF SaveInv, SaveAhead, At, Loadable
  <2>3. CASE EmitStatus \/ EmitSignal
    <3>1. /\ emitter'.pc \in {"emit", "save"} /\ UNCHANGED <<dirty, disk>>
          /\ At("debounce") \/ At("emit")
      BY <2>3 DEF EmitStatus, EmitSignal, vars, ctlVars
    <3> QED
      BY <2>1, <3>1 DEF SaveInv, SaveAhead, At, Loadable
  <2>4. CASE SaveTake
    <3>1. CASE dirty
      <4>1. /\ emitter'.pc = "write" /\ emitter'.state = CurrentState
            /\ dirty' = FALSE
        BY <2>4, <3>1 DEF SaveTake, take_state
      <4> QED
        BY <2>1, <4>1 DEF SaveInv, At
    <3>2. CASE ~dirty
      <4>1. /\ emitter'.pc = "wait" /\ UNCHANGED <<dirty, disk>> /\ At("save")
        BY <2>4, <3>2 DEF SaveTake, EmitTypeOK, vars, ctlVars
      <4> QED
        BY <2>1, <3>2, <4>1 DEF SaveInv, At, Loadable
    <3> QED
      BY <3>1, <3>2
  <2>5. CASE SaveWrite
    <3>1. /\ emitter'.pc = "wait" /\ At("write") /\ disk' = emitter.state
          /\ UNCHANGED <<dirty, changed>>
      BY <2>5 DEF SaveWrite, vars, ctlVars
    <3>2. CurrentState \in State
      BY DEF CurrentState, State, TypeOK
    <3>3. CurrentState # NoState
      BY <3>2, DaemonAssumption
    <3>4. dirty => ChangedPending'
      BY <2>1, <3>1 DEF SaveInv, SaveAhead, At, ChangedPending
    <3>5. ~dirty => Loadable' = CurrentState
      BY <3>1, <3>3 DEF SaveInv, Loadable
    <3> QED
      BY <2>1, <3>1, <3>4, <3>5 DEF SaveInv, At
  <2> QED
    BY <1>3, <2>2, <2>3, <2>4, <2>5 DEF Emission
<1>4. CASE \E caller \in Clients \cup Tasks : notify_changed(caller)
  BY <1>4, NotifySteps, StaysSaved DEF Marked, ChangedPending
<1> QED
  BY <1>1, <1>2, <1>3, <1>4, StepCases

\* While writes succeed, sysfs's and the disk's, every unsaved change will be
\* picked up by a save, and without one a restart would load the current state.
THEOREM SavesArrive == Reliable /\ ~DiskFaulty => (DaemonSpec => []NoLostSave)
<1> SUFFICES ASSUME Reliable, ~DiskFaulty PROVE DaemonSpec => []NoLostSave
  OBVIOUS
<1>1. DaemonInit => SaveInv
  <2> SUFFICES ASSUME DaemonInit PROVE SaveInv
    OBVIOUS
  <2>1. dirty = FALSE /\ profiles = ConfigProfiles /\ fan_boost = FALSE
    BY DEF DaemonInit, Init, Boot
  <2>2. emitter.pc = "wait" /\ disk = NoState
    BY DEF DaemonInit
  <2> QED
    BY <2>1, <2>2 DEF SaveInv, At, Loadable, CurrentState
<1>2. DaemonTypes /\ SaveInv /\ [DaemonNext]_allVars => SaveInv'
  BY SaveStep DEF DaemonTypes, IInv
<1>3. SaveInv => NoLostSave
  BY DEF SaveInv, SaveAhead, NoLostSave
<1> QED
  BY <1>1, <1>2, <1>3, InitTypes, NextTypes, PTL DEF DaemonSpec
=============================================================================
