------------------------------- MODULE Daemon -------------------------------
(***************************************************************************)
(* The daemon uwbld: the tasks main.rs spawns around the controller, the   *)
(* D-Bus interface, and the two `Notify` cells that connect them.  Every   *)
(* task locks the controller for one operation of module Controller and    *)
(* calls notify_changed after it released the lock, so the notification is *)
(* a step of its own, owed by the caller.                                  *)
(*                                                                         *)
(* A Notify keeps at most one permit: notify_one sets it, notified()       *)
(* consumes it.                                                            *)
(***************************************************************************)
EXTENDS Controller

CONSTANTS
    IdleOff,        \* config: idle_off_secs > 0, so the idle task runs
    HasMains,       \* a Mains power supply exists
    HasEmitter,     \* emit_changes found its D-Bus interface and runs
    DiskFaulty,     \* saving the state file may fail
    Clients,        \* D-Bus method calls served at once
    NoState, NoPower

VARIABLES
    wake, changed,  \* the permits of Shared.wake and Shared.changed
    owed,           \* callers that changed the controller, but not notified
    effect_next,    \* what the effect loop waits for
    emitter,        \* the emit_changes task: pc, status taken, state taken
    told,           \* the status clients know: GetStatus, then StatusChanged
    disk,           \* the state file
    mains, seen_power,      \* the power supply; what watch() detected of it
    quiet, activity, idle_pc, reader_pc     \* idle detection

taskVars  == <<wake, changed, owed, effect_next>>
emitVars  == <<emitter, told, disk>>
powerVars == <<mains, seen_power>>
idleVars  == <<quiet, activity, idle_pc, reader_pc>>
allVars   == <<vars, taskVars, emitVars, powerVars, idleVars>>

\* The background tasks that notify.
Tasks == {"poll", "sleep", "power", "idle"}

State == [profiles : [PowerSource -> Profile], fan_boost : BOOLEAN]

ASSUME DaemonAssumption ==
    /\ IdleOff \in BOOLEAN /\ HasMains \in BOOLEAN /\ HasEmitter \in BOOLEAN
    /\ DiskFaulty \in BOOLEAN
    /\ NoPower \notin PowerSource /\ NoState \notin State
    /\ Clients \cap Tasks = {}

Status == [power |-> power, idle_off |-> idle_off, profiles |-> profiles,
           fan_mode |-> IF HasFanMode THEN hw.fan_mode ELSE NoMode,
           fan_boost |-> HasFanBoost /\ hw.fan_boost]

CurrentState == [profiles |-> profiles, fan_boost |-> fan_boost]
\* What a restart would load.
Loadable == IF disk = NoState
            THEN [profiles |-> ConfigProfiles, fan_boost |-> FALSE] ELSE disk

-----------------------------------------------------------------------------
(***************************************************************************)
(* Notifications.                                                          *)
(***************************************************************************)
\* The caller has no notification left to make, and owes one if `notify`.
Owe(caller, notify) ==
    /\ caller \notin owed
    /\ owed' = IF notify THEN owed \cup {caller} ELSE owed
    /\ UNCHANGED <<wake, changed, effect_next>>

\* Mutant: only the emitter is notified.
notify_changed_no_wake(caller) ==
    /\ caller \in owed
    /\ owed' = owed \ {caller}
    /\ changed' = TRUE
    /\ UNCHANGED <<vars, wake, effect_next, emitVars, powerVars, idleVars>>

notify_changed(caller) ==
    /\ caller \in owed
    /\ owed' = owed \ {caller}
    /\ wake' = TRUE
    /\ changed' = TRUE
    /\ UNCHANGED <<vars, effect_next, emitVars, powerVars, idleVars>>

(***************************************************************************)
(* The D-Bus methods: a failed operation returns before notify_changed.    *)
(***************************************************************************)
mutate(Op) ==
    /\ Op
    /\ \E c \in Clients : Owe(c, result' = "ok")
    /\ UNCHANGED <<emitVars, powerVars, idleVars>>

Method ==
    \/ \E on \in BOOLEAN : mutate(set_enabled(on))
    \/ \E on \in BoostInputs : mutate(set_fan_boost(on))
    \/ \E level \in LevelInputs : mutate(set_brightness(level))
    \/ \E color \in Colors : mutate(set_color(color))
    \/ \E kind \in KindInputs, speed \in SpeedInputs \cup {0} :
            mutate(set_effect(kind, speed))
    \/ \E speed \in SpeedInputs : speed \in 1..10 /\ mutate(set_speed(speed))
    \/ \E colors \in ColorListInputs : mutate(set_cycle_colors(colors))
    \/ \E mode \in FanInputs : mutate(set_fan_mode(mode))
    \/ \E source \in PowerSource, profile \in ProfileInputs :
            mutate(set_profile(source, profile))
    \/ mutate(reset_to_config)
    \/ mutate(reapply)

(***************************************************************************)
(* effect_loop: tick, then wait for the frame timer, a retry or a wake.    *)
(***************************************************************************)
EffectTick ==
    /\ effect_next = "now"
    /\ effect_tick
    /\ effect_next' =
         IF result' = "err" THEN "retry"
         ELSE IF Lit /\ ActiveProfile.effect.kind # "static" THEN "frame"
         ELSE "wake"
    /\ UNCHANGED <<wake, changed, owed, emitVars, powerVars, idleVars>>

EffectWake ==
    /\ effect_next # "now" /\ wake
    /\ wake' = FALSE
    /\ effect_next' = "now"
    /\ UNCHANGED <<vars, changed, owed, emitVars, powerVars, idleVars>>

EffectTimer ==
    /\ effect_next \in {"frame", "retry"}
    /\ effect_next' = "now"
    /\ UNCHANGED <<vars, wake, changed, owed, emitVars, powerVars, idleVars>>

\* hw_brightness_poll, every 400 ms; only a followed change notifies.
HwPoll ==
    /\ poll_hw_brightness
    /\ Owe("poll", HwChange # {} /\ FollowHw /\ result' = "ok")
    /\ UNCHANGED <<emitVars, powerVars, idleVars>>

\* watch_sleep, 1.5 s after resume: notifies whatever resume() returned.
SleepResume ==
    /\ resume
    /\ Owe("sleep", TRUE)
    /\ UNCHANGED <<emitVars, powerVars, idleVars>>

-----------------------------------------------------------------------------
(***************************************************************************)
(* power::watch: detect() without the lock, then compare and switch.       *)
(***************************************************************************)
PowerDetect ==
    /\ HasMains /\ seen_power = NoPower /\ "power" \notin owed
    /\ seen_power' = mains
    /\ UNCHANGED <<vars, taskVars, emitVars, mains, idleVars>>

\* Mutant: the source is detected once only.
PowerSwitch_once ==
    /\ seen_power # NoPower
    /\ seen_power # power
    /\ set_power_source(seen_power) /\ Owe("power", TRUE)
    /\ UNCHANGED <<emitVars, powerVars, idleVars>>

PowerSwitch ==
    /\ seen_power # NoPower
    /\ seen_power' = NoPower
    /\ IF seen_power = power THEN UNCHANGED <<vars, taskVars>>
       ELSE set_power_source(seen_power) /\ Owe("power", TRUE)
    /\ UNCHANGED <<emitVars, mains, idleVars>>

\* The plug is pulled or put in.
Replug ==
    /\ HasMains
    /\ mains' \in PowerSource \ {mains}
    /\ UNCHANGED <<vars, taskVars, emitVars, seen_power, idleVars>>

(***************************************************************************)
(* idle::run.  `quiet` says that last_activity is older than the timeout;  *)
(* a reader stores the time first and notifies then.                       *)
(***************************************************************************)
InputEvent ==
    /\ IdleOff /\ reader_pc = "read"
    /\ quiet' = FALSE
    /\ reader_pc' = "notify"
    /\ UNCHANGED <<vars, taskVars, emitVars, powerVars, activity, idle_pc>>

\* Mutant: the reader notifies only when it sees the keyboard idle.
ReaderNotify_if_idle ==
    /\ reader_pc = "notify"
    /\ activity' = (activity \/ idle_off)
    /\ reader_pc' = "read"
    /\ UNCHANGED <<vars, taskVars, emitVars, powerVars, quiet, idle_pc>>

ReaderNotify ==
    /\ reader_pc = "notify"
    /\ activity' = TRUE
    /\ reader_pc' = "read"
    /\ UNCHANGED <<vars, taskVars, emitVars, powerVars, quiet, idle_pc>>

\* The timeout passes without input.
Timeout ==
    /\ IdleOff /\ ~quiet
    /\ quiet' = TRUE
    /\ UNCHANGED <<vars, taskVars, emitVars, powerVars, activity, idle_pc,
                   reader_pc>>

\* The check branch loads last_activity before set_idle locks.
IdleCheck ==
    /\ IdleOff /\ idle_pc = "select" /\ quiet /\ "idle" \notin owed
    /\ idle_pc' = "off"
    /\ UNCHANGED <<vars, taskVars, emitVars, powerVars, quiet, activity,
                   reader_pc>>

IdleActivity ==
    /\ idle_pc = "select" /\ activity /\ "idle" \notin owed
    /\ activity' = FALSE
    /\ idle_pc' = "on"
    /\ UNCHANGED <<vars, taskVars, emitVars, powerVars, quiet, reader_pc>>

\* Mutant: the effect loop is not told.
set_idle_silent ==
    /\ idle_pc # "select"
    /\ idle_pc' = "select"
    /\ LET off == idle_pc = "off"
       IN  IF idle_off = off THEN UNCHANGED <<vars, taskVars>>
           ELSE set_idle_off(off) /\ Owe("idle", FALSE)
    /\ UNCHANGED <<emitVars, powerVars, quiet, activity, reader_pc>>

set_idle ==
    /\ idle_pc # "select"
    /\ idle_pc' = "select"
    /\ LET off == idle_pc = "off"
       IN  IF idle_off = off THEN UNCHANGED <<vars, taskVars>>
           ELSE set_idle_off(off) /\ Owe("idle", TRUE)
    /\ UNCHANGED <<emitVars, powerVars, quiet, activity, reader_pc>>

-----------------------------------------------------------------------------
(***************************************************************************)
(* emit_changes: wait, debounce, take the status, emit it, save.           *)
(***************************************************************************)
At(pc) == emitter.pc = pc
NoEffectOnOthers == UNCHANGED <<powerVars, idleVars, wake, owed, effect_next>>

EmitWait ==
    /\ HasEmitter /\ At("wait") /\ changed
    /\ changed' = FALSE
    /\ emitter' = [emitter EXCEPT !.pc = "debounce"]
    /\ UNCHANGED <<vars, told, disk>> /\ NoEffectOnOthers

EmitStatus ==
    /\ At("debounce")
    /\ emitter' = [pc |-> "emit", status |-> Status, state |-> emitter.state]
    /\ UNCHANGED <<vars, changed, told, disk>> /\ NoEffectOnOthers

\* Mutant: the permit is consumed after the emission.
EmitSignal_consuming ==
    /\ At("emit")
    /\ told' = emitter.status
    /\ changed' = FALSE
    /\ emitter' = [pc |-> "save", status |-> NoState, state |-> emitter.state]
    /\ UNCHANGED <<vars, disk>> /\ NoEffectOnOthers

EmitSignal ==
    /\ At("emit")
    /\ told' = emitter.status
    /\ emitter' = [pc |-> "save", status |-> NoState, state |-> emitter.state]
    /\ UNCHANGED <<vars, changed, disk>> /\ NoEffectOnOthers

\* save_state: take the state under the lock if there is something to save ...
SaveTake ==
    /\ At("save")
    /\ IF dirty
       THEN /\ take_state
            /\ emitter' = [pc |-> "write", status |-> NoState, state |-> CurrentState]
       ELSE /\ emitter' = [emitter EXCEPT !.pc = "wait"]
            /\ UNCHANGED vars
    /\ UNCHANGED <<changed, told, disk>> /\ NoEffectOnOthers

\* Mutant: the temporary file is written and never renamed.
SaveWrite_no_rename ==
    /\ At("write")
    /\ emitter' = [pc |-> "wait", status |-> NoState, state |-> NoState]
    /\ UNCHANGED <<vars, changed, told, disk>> /\ NoEffectOnOthers

\* ... and write it without; a failure is logged.
SaveWrite ==
    /\ At("write")
    /\ \/ disk' = emitter.state
       \/ DiskFaulty /\ UNCHANGED disk
    /\ emitter' = [pc |-> "wait", status |-> NoState, state |-> NoState]
    /\ UNCHANGED <<vars, changed, told>> /\ NoEffectOnOthers

-----------------------------------------------------------------------------
World ==
    /\ Firmware
    /\ UNCHANGED <<taskVars, emitVars, powerVars, idleVars>>

DaemonInit ==
    /\ Init
    /\ wake = FALSE /\ changed = FALSE /\ owed = {}
    /\ effect_next = "now"
    /\ emitter = [pc |-> "wait", status |-> NoState, state |-> NoState]
    /\ told = Status
    /\ disk = NoState
    /\ mains = power /\ seen_power = NoPower
    /\ HasMains \/ power = "ac"
    /\ quiet = FALSE /\ activity = FALSE
    /\ idle_pc = "select" /\ reader_pc = "read"

Effects  == EffectTick \/ EffectWake \/ EffectTimer
Emission == EmitWait \/ EmitStatus \/ EmitSignal \/ SaveTake \/ SaveWrite
Power    == PowerDetect \/ PowerSwitch
Idle     == IdleCheck \/ IdleActivity \/ set_idle

DaemonNext ==
    \/ Method \/ Effects \/ Emission
    \/ HwPoll \/ SleepResume \/ Power \/ Idle \/ ReaderNotify
    \/ \E caller \in Clients \cup Tasks : notify_changed(caller)
    \/ World \/ Replug \/ InputEvent \/ Timeout

(***************************************************************************)
(* tokio runs every ready task and every timer fires, so each task is      *)
(* weakly fair; select! takes its ready branches in random order, so the   *)
(* idle task does not pass over activity for ever.  Clients, firmware,     *)
(* plug, input and the passing of the idle timeout are not fair.           *)
(***************************************************************************)
Fairness ==
    /\ \A caller \in Clients \cup Tasks : WF_allVars(notify_changed(caller))
    /\ WF_allVars(Effects) /\ WF_allVars(Emission)
    /\ WF_allVars(HwPoll) /\ WF_allVars(SleepResume) /\ WF_allVars(Power)
    /\ WF_allVars(ReaderNotify) /\ WF_allVars(IdleCheck) /\ WF_allVars(set_idle)
    /\ SF_allVars(IdleActivity)

DaemonSpec == DaemonInit /\ [][DaemonNext]_allVars /\ Fairness

-----------------------------------------------------------------------------
(***************************************************************************)
(* Properties.                                                             *)
(***************************************************************************)
Animated == Lit /\ ActiveProfile.effect.kind # "static"

DaemonTypeOK ==
    /\ TypeOK
    /\ wake \in BOOLEAN /\ changed \in BOOLEAN
    /\ owed \subseteq Clients \cup Tasks
    /\ effect_next \in {"now", "wake", "frame", "retry"}
    /\ emitter.pc \in {"wait", "debounce", "emit", "save", "write"}
    /\ disk \in State \cup {NoState}
    /\ mains \in PowerSource /\ seen_power \in PowerSource \cup {NoPower}
    /\ quiet \in BOOLEAN /\ activity \in BOOLEAN
    /\ idle_pc \in {"select", "off", "on"} /\ reader_pc \in {"read", "notify"}

\* A notification is on its way to the effect loop, or to the emitter.
WakePending    == wake \/ owed # {}
ChangedPending == changed \/ owed # {}

\* The effect loop sleeps without a timer only when there is nothing to
\* animate: no interleaving of an operation with the loop's tick and wait
\* loses the wake-up.
NoLostWakeup == effect_next = "wake" /\ ~WakePending => ~Animated

\* Clients are never left with an old status: the last StatusChanged is the
\* current status unless another one is on its way.
NoLostSignal ==
    At("wait") \/ At("save") \/ At("write") =>
      told = Status \/ ChangedPending \/ resuming

\* Every unsaved change will be picked up by a save that is on its way, and
\* a restart would load the current state when there is none.
NoLostSave ==
    /\ dirty => ChangedPending \/ emitter.pc \in {"debounce", "emit", "save"}
    /\ ~dirty /\ ~At("write") => Loadable = CurrentState

\* While writes of the file succeed, what clients and keys leave behind is in
\* the end written: a restart loads it from the disk, unless they change it
\* again and again for ever.
Changing == <><<CurrentState' # CurrentState>>_allVars

EventuallySaved == []Changing \/ <>[](Loadable = CurrentState)

\* An input event turns the backlight back on, unless input ceases again.
RelitOnInput == idle_off /\ ~quiet ~> ~idle_off \/ quiet

\* When the plug stays where it is, the daemon ends up on its profile.
FollowsMains ==
    \A pow \in PowerSource :
        <>[](HasMains /\ mains = pow) => <>[](power = pow)

\* After a suspend that reset the EC, the keyboard is restored.
RestoredAfterResume == resuming ~> ~resuming /\ Shown
=============================================================================
