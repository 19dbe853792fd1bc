---------------------------- MODULE ThreadsProofs ----------------------------
(***************************************************************************)
(* Theorems about Threads, for any number of processes and of handlers,    *)
(* any charge types, levels and colours, and any bounds: types, that the   *)
(* charge type is kept, and that a write of a switch is atomic.            *)
(***************************************************************************)
EXTENDS Threads, TLAPS

Op == DOMAIN Args \cup Event \cup {"none"}

Arg == UNION {BOOLEAN, ChargeType, Option, Level, Colour, {Nobody}}

TaskRec == [op : Op, step : Step, arg : Arg]

Typed ==
  /\ task \in [Thread -> TaskRec]
  /\ lock \in [Mutex -> Thread \cup {Nobody}]
  /\ pending \in [Event -> Nat]
  /\ status \in [Toggle -> BOOLEAN]
  /\ profile \in ChargeType /\ last_charge_type \in ChargeType
  /\ usb_c \in Option /\ last_usb_c_power_priority_option \in Option
  /\ DOMAIN led = {"level", "rgb", "shown"} /\ led.level \in Level
  /\ DOMAIN core = {"brightness", "intensity"} /\ core.brightness \in Level
  /\ work \in [queued : BOOLEAN, step : 0..4, delayed : Level, level : Level,
               min_intensity : {0, 1}]
  /\ keys \in [Toggle \cup Event -> Nat]

\* What a thread carries fits what it does.
Fits ==
  /\ \A t \in Thread :
       /\ task[t].op \in DOMAIN Args => task[t].arg \in Args[task[t].op]
       /\ At(t, "adapter", "restore") => task[t].arg \in Option
       /\ At(t, "kbd_led", "sync") => task[t].arg \in Level
  /\ \A h \in Handler : task[h].op \in Event \cup {"none"}
  /\ \A t \in Caller : task[t].op \notin Event

\* Between the first access under the mutex m and the last.
Inside(t, m) ==
  \/ m \in Toggle /\ At(t, m, "flip")
  \/ m = "charge_type" /\ At(t, "charge_types", "remember")
  \/ m = "usb_c_power_priority" /\ At(t, "usb_c_power_priority", "remember")
  \/ m = "led_access" /\ (At(t, "multi_intensity", "rest") \/ At(t, "kbd_led", "sync"))

\* A thread holds a mutex while it is inside, and only then.
Holding == \A t \in Thread, m \in Mutex : lock[m] = t <=> Inside(t, m)

\* No adapter event has yet to be answered.
Answered ==
  pending["adapter"] = 0 /\ \A h \in Handler : ~At(h, "adapter", "enter")

\* ChargeKept, and what a process in the middle of a write is about to make
\* of it.
Charged ==
  Answered =>
    /\ Free("charge_type") => profile = last_charge_type
    /\ \A t \in Thread : At(t, "charge_types", "remember") => profile = task[t].arg

TInv == Typed /\ Fits

\* A colour as it is written to the registers.
Lit(rgb) == IF rgb = Black THEN <<1, 1>> ELSE rgb

\* The worker will run again: it is queued, or about to be.
Requeued == work.queued \/ \E t \in Caller : At(t, "multi_intensity", "rest")

\* ColourSettles, and what a worker that need not run again has done so far.
ColourTyped == led.rgb \in Nat \X Nat /\ core.intensity \in Nat \X Nat

Coloured ==
  ~Requeued =>
    /\ work.step \in {1, 2} =>
         work.min_intensity = IF core.intensity = Black THEN 1 ELSE 0
    /\ work.step = 2 => led.rgb[1] = Lit(core.intensity)[1]
    /\ work.step = 3 => led.rgb = Lit(core.intensity)
    /\ work.step \in {0, 4} => led.shown = Lit(core.intensity)

ColourInv == ColourTyped /\ Coloured

-----------------------------------------------------------------------------
(* Helpers                                                                 *)

LEMMA ArgsLemma ==
  /\ DOMAIN Args = Toggle \cup {"charge_types", "usb_c_power_priority",
                               "brightness", "multi_intensity"}
  /\ \A a \in Toggle : Args[a] = BOOLEAN
  /\ Args["charge_types"] = ChargeType
  /\ Args["usb_c_power_priority"] = Option
  /\ Args["brightness"] = Level
  /\ Args["multi_intensity"] = Colour
BY ThreadAssumption DEF Args

\* A thread goes on to r, the others stay where they are.
LEMMA BecomesLemma ==
  ASSUME task \in [Thread -> TaskRec], NEW t \in Thread, NEW r \in TaskRec,
         task' = [task EXCEPT ![t] = r]
  PROVE  /\ task' \in [Thread -> TaskRec]
         /\ task'[t] = r
         /\ \A u \in Thread \ {t} : task'[u] = task[u]
OBVIOUS

LEMMA GoesLemma ==
  ASSUME task \in [Thread -> TaskRec], NEW t \in Thread, NEW s \in Step,
         Goes(t, s)
  PROVE  /\ task' \in [Thread -> TaskRec]
         /\ task'[t].op = task[t].op /\ task'[t].step = s
         /\ task'[t].arg = task[t].arg
         /\ \A u \in Thread \ {t} : task'[u] = task[u]
<1> DEFINE r == [task[t] EXCEPT !.step = s]
<1>1. task[t] \in TaskRec
  OBVIOUS
<1>2. r \in TaskRec /\ r.op = task[t].op /\ r.step = s /\ r.arg = task[t].arg
  BY <1>1 DEF TaskRec
<1>3. task' = [task EXCEPT ![t] = r]
  BY DEF Goes
<1> HIDE DEF r
<1>4. QED
  BY <1>2, <1>3, BecomesLemma

LEMMA ReturnsLemma ==
  ASSUME task \in [Thread -> TaskRec], NEW t \in Thread, Returns(t)
  PROVE  /\ task' \in [Thread -> TaskRec]
         /\ task'[t] = Idle
         /\ \A u \in Thread \ {t} : task'[u] = task[u]
<1>1. Idle \in TaskRec
  BY DEF Idle, TaskRec, Op, Step, Arg
<1>2. QED
  BY <1>1, BecomesLemma DEF Returns

LEMMA EnterLemma ==
  ASSUME TInv, NEW t \in Caller, NEW op \in DOMAIN Args, Enter(t, op)
  PROVE  /\ task' \in [Thread -> TaskRec]
         /\ task'[t].op = op /\ task'[t].step = "enter"
         /\ task'[t].arg \in Args[op]
         /\ \A u \in Thread \ {t} : task'[u] = task[u]
<1>1. PICK v \in Args[op] :
        task' = [task EXCEPT ![t] = [op |-> op, step |-> "enter", arg |-> v]]
  BY DEF Enter
<1>2. v \in Arg
  BY <1>1, ArgsLemma DEF Arg
<1>3. [op |-> op, step |-> "enter", arg |-> v] \in TaskRec
  BY <1>2 DEF TaskRec, Op, Step
<1>4. QED
  BY <1>1, <1>3, BecomesLemma DEF TInv, Typed, Thread

LEMMA NotifyLemma ==
  ASSUME TInv, NEW h \in Handler, NEW e \in Event, uniwill_wmi_notify(h, e)
  PROVE  /\ task' \in [Thread -> TaskRec]
         /\ task'[h].op = e /\ task'[h].step = "enter"
         /\ \A u \in Thread \ {h} : task'[u] = task[u]
<1> DEFINE r == [Idle EXCEPT !.op = e]
<1>1. r = [op |-> e, step |-> "enter", arg |-> Nobody]
  BY DEF Idle
<1>2. r \in TaskRec
  BY <1>1 DEF TaskRec, Op, Step, Arg
<1>3. task' = [task EXCEPT ![h] = r]
  BY DEF uniwill_wmi_notify
<1> HIDE DEF r
<1>4. QED
  BY <1>1, <1>2, <1>3, BecomesLemma DEF TInv, Typed, Thread

LEMMA LookupLemma ==
  ASSUME TInv, NEW h \in Handler, UsbCLookup(h)
  PROVE  /\ task' \in [Thread -> TaskRec]
         /\ task'[h].op = "adapter" /\ task'[h].step = "restore"
         /\ task'[h].arg = last_usb_c_power_priority_option
         /\ \A u \in Thread \ {h} : task'[u] = task[u]
<1> DEFINE r == [op |-> "adapter", step |-> "restore",
                 arg |-> last_usb_c_power_priority_option]
<1>1. r \in TaskRec
  BY DEF TaskRec, Op, Step, Arg, Event, TInv, Typed
<1>2. task' = [task EXCEPT ![h] = r]
  BY DEF UsbCLookup
<1>3. QED
  BY <1>1, <1>2, BecomesLemma DEF TInv, Typed, Thread

LEMMA ReadLemma ==
  ASSUME TInv, NEW h \in Handler, KbdRead(h)
  PROVE  /\ task' \in [Thread -> TaskRec]
         /\ task'[h].op = "kbd_led" /\ task'[h].step = "sync"
         /\ task'[h].arg = led.level
         /\ \A u \in Thread \ {h} : task'[u] = task[u]
<1> DEFINE r == [op |-> "kbd_led", step |-> "sync", arg |-> led.level]
<1>1. r \in TaskRec
  BY DEF TaskRec, Op, Step, Arg, Event, TInv, Typed
<1>2. task' = [task EXCEPT ![h] = r]
  BY DEF KbdRead
<1>3. QED
  BY <1>1, <1>2, BecomesLemma DEF TInv, Typed, Thread

-----------------------------------------------------------------------------
\* Every step keeps the types.
LEMMA TypeStep ==
  ASSUME TInv, [Next]_vars
  PROVE  Typed'
<1> USE ThreadAssumption, ArgsLemma DEF TInv, Typed, switches, Event, Mutex,
      Take, Release, Thread, Step, Idle, At, Free, Fits
<1>1. ASSUME NEW t \in Caller, NEW op \in DOMAIN Args, Enter(t, op)
     PROVE  Typed'
  BY <1>1, EnterLemma DEF Enter
<1>2. ASSUME NEW t \in Caller, NEW a \in Toggle, ToggleRead(t, a)
     PROVE  Typed'
  <2>1. CASE task[t].arg = status[a]
    BY <1>2, <2>1, ReturnsLemma DEF ToggleRead
  <2>2. CASE task[t].arg # status[a]
    BY <1>2, <2>2, GoesLemma DEF ToggleRead
  <2>3. QED
    BY <2>1, <2>2
<1>3. ASSUME NEW t \in Caller, NEW a \in Toggle, ToggleFlip(t, a)
     PROVE  Typed'
  BY <1>3, ReturnsLemma DEF ToggleFlip
<1>4. ASSUME NEW t \in Caller, ChargeWrite(t)
     PROVE  Typed'
  BY <1>4, GoesLemma DEF ChargeWrite
<1>5. ASSUME NEW t \in Caller, ChargeRemember(t)
     PROVE  Typed'
  BY <1>5, ReturnsLemma DEF ChargeRemember
<1>6. ASSUME NEW t \in Caller, UsbCWrite(t)
     PROVE  Typed'
  BY <1>6, GoesLemma DEF UsbCWrite
<1>7. ASSUME NEW t \in Caller, UsbCRemember(t)
     PROVE  Typed'
  BY <1>7, ReturnsLemma DEF UsbCRemember
<1>8. ASSUME NEW t \in Caller, BrightnessStore(t)
     PROVE  Typed'
  BY <1>8, ReturnsLemma DEF BrightnessStore, Queue
<1>9. ASSUME NEW t \in Caller, ColourStore(t)
     PROVE  Typed'
  BY <1>9, GoesLemma DEF ColourStore
<1>10. ASSUME NEW t \in Caller, ColourStored(t)
     PROVE  Typed'
  BY <1>10, ReturnsLemma DEF ColourStored, Queue
<1>11. ASSUME NEW h \in Handler, NEW e \in Event, uniwill_wmi_notify(h, e)
     PROVE  Typed'
  <2>1. pending[e] \in Nat \ {0}
    BY <1>11 DEF uniwill_wmi_notify
  <2>2. pending' \in [Event -> Nat]
    BY <1>11, <2>1 DEF uniwill_wmi_notify
  <2>3. QED
    BY <1>11, <2>2, NotifyLemma DEF uniwill_wmi_notify
<1>12. ASSUME NEW h \in Handler, uniwill_restore_charge_type(h)
     PROVE  Typed'
  BY <1>12, GoesLemma DEF uniwill_restore_charge_type
<1>13. ASSUME NEW h \in Handler, UsbCLookup(h)
     PROVE  Typed'
  BY <1>13, LookupLemma DEF UsbCLookup
<1>14. ASSUME NEW h \in Handler, usb_c_power_priority_restore(h)
     PROVE  Typed'
  BY <1>14, ReturnsLemma DEF usb_c_power_priority_restore
<1>15. ASSUME NEW h \in Handler, KbdRead(h)
     PROVE  Typed'
  BY <1>15, ReadLemma DEF KbdRead
<1>16. ASSUME NEW h \in Handler, KbdSync(h)
     PROVE  Typed'
  BY <1>16, ReturnsLemma DEF KbdSync
<1>17. ASSUME WorkBegin PROVE Typed'
  <2> DEFINE least == IF core.intensity = Black THEN 1 ELSE 0
  <2>1. least \in {0, 1}
    OBVIOUS
  <2> HIDE DEF least
  <2>2. work' = [work EXCEPT !.queued = FALSE, !.step = 1,
                            !.level = work.delayed, !.min_intensity = least]
    BY <1>17 DEF WorkBegin, least
  <2>3. work' = [queued |-> FALSE, step |-> 1, delayed |-> work.delayed,
                 level |-> work.delayed, min_intensity |-> least]
    BY <2>2
  <2>4. work' \in [queued : BOOLEAN, step : 0..4, delayed : Level,
                  level : Level, min_intensity : {0, 1}]
    BY <2>1, <2>3
  <2>5. QED
    BY <1>17, <2>4 DEF WorkBegin
<1>18. ASSUME WorkChannel PROVE Typed'
  BY <1>18 DEF WorkChannel
<1>19. ASSUME WorkApply PROVE Typed'
  BY <1>19 DEF WorkApply
<1>20. ASSUME WorkLevel PROVE Typed'
  BY <1>20 DEF WorkLevel
<1>21. ASSUME NEW a \in Toggle, SwitchKey(a)
     PROVE  Typed'
  BY <1>21 DEF SwitchKey, Pressed
<1>22. ASSUME NEW level \in Level, LevelKey(level)
     PROVE  Typed'
  BY <1>22 DEF LevelKey, Pressed
<1>23. ASSUME Adapter PROVE Typed'
  BY <1>23 DEF Adapter, Pressed
<1>24. CASE UNCHANGED vars
  BY <1>24 DEF vars
<1>25. QED
  BY <1>1, <1>2, <1>3, <1>4, <1>5, <1>6, <1>7, <1>8, <1>9, <1>10, <1>11, <1>12,
     <1>13, <1>14, <1>15, <1>16, <1>17, <1>18, <1>19, <1>20, <1>21, <1>22,
     <1>23, <1>24 DEF Next, Process, Handles, Works, EC

\* Every step leaves each thread with what fits it.
LEMMA FitsStep ==
  ASSUME TInv, Typed', [Next]_vars
  PROVE  Fits'
<1> USE ThreadAssumption, ArgsLemma DEF TInv, Typed, switches, Event, Mutex,
      Take, Release, Thread, Step, Idle, At, Free, Fits
<1>1. ASSUME NEW t \in Caller, NEW op \in DOMAIN Args, Enter(t, op)
     PROVE  Fits'
  BY <1>1, EnterLemma DEF Enter
<1>2. ASSUME NEW t \in Caller, NEW a \in Toggle, ToggleRead(t, a)
     PROVE  Fits'
  <2>1. CASE task[t].arg = status[a]
    BY <1>2, <2>1, ReturnsLemma DEF ToggleRead
  <2>2. CASE task[t].arg # status[a]
    BY <1>2, <2>2, GoesLemma DEF ToggleRead
  <2>3. QED
    BY <2>1, <2>2
<1>3. ASSUME NEW t \in Caller, NEW a \in Toggle, ToggleFlip(t, a)
     PROVE  Fits'
  BY <1>3, ReturnsLemma DEF ToggleFlip
<1>4. ASSUME NEW t \in Caller, ChargeWrite(t)
     PROVE  Fits'
  BY <1>4, GoesLemma DEF ChargeWrite
<1>5. ASSUME NEW t \in Caller, ChargeRemember(t)
     PROVE  Fits'
  BY <1>5, ReturnsLemma DEF ChargeRemember
<1>6. ASSUME NEW t \in Caller, UsbCWrite(t)
     PROVE  Fits'
  BY <1>6, GoesLemma DEF UsbCWrite
<1>7. ASSUME NEW t \in Caller, UsbCRemember(t)
     PROVE  Fits'
  BY <1>7, ReturnsLemma DEF UsbCRemember
<1>8. ASSUME NEW t \in Caller, BrightnessStore(t)
     PROVE  Fits'
  BY <1>8, ReturnsLemma DEF BrightnessStore, Queue
<1>9. ASSUME NEW t \in Caller, ColourStore(t)
     PROVE  Fits'
  BY <1>9, GoesLemma DEF ColourStore
<1>10. ASSUME NEW t \in Caller, ColourStored(t)
     PROVE  Fits'
  BY <1>10, ReturnsLemma DEF ColourStored, Queue
<1>11. ASSUME NEW h \in Handler, NEW e \in Event, uniwill_wmi_notify(h, e)
     PROVE  Fits'
  BY <1>11, NotifyLemma DEF uniwill_wmi_notify
<1>12. ASSUME NEW h \in Handler, uniwill_restore_charge_type(h)
     PROVE  Fits'
  BY <1>12, GoesLemma DEF uniwill_restore_charge_type
<1>13. ASSUME NEW h \in Handler, UsbCLookup(h)
     PROVE  Fits'
  BY <1>13, LookupLemma DEF UsbCLookup
<1>14. ASSUME NEW h \in Handler, usb_c_power_priority_restore(h)
     PROVE  Fits'
  BY <1>14, ReturnsLemma DEF usb_c_power_priority_restore
<1>15. ASSUME NEW h \in Handler, KbdRead(h)
     PROVE  Fits'
  BY <1>15, ReadLemma DEF KbdRead
<1>16. ASSUME NEW h \in Handler, KbdSync(h)
     PROVE  Fits'
  BY <1>16, ReturnsLemma DEF KbdSync
<1>17. ASSUME WorkBegin PROVE Fits'
  BY <1>17 DEF WorkBegin
<1>18. ASSUME WorkChannel PROVE Fits'
  BY <1>18 DEF WorkChannel
<1>19. ASSUME WorkApply PROVE Fits'
  BY <1>19 DEF WorkApply
<1>20. ASSUME WorkLevel PROVE Fits'
  BY <1>20 DEF WorkLevel
<1>21. ASSUME NEW a \in Toggle, SwitchKey(a)
     PROVE  Fits'
  BY <1>21 DEF SwitchKey, Pressed
<1>22. ASSUME NEW level \in Level, LevelKey(level)
     PROVE  Fits'
  BY <1>22 DEF LevelKey, Pressed
<1>23. ASSUME Adapter PROVE Fits'
  BY <1>23 DEF Adapter, Pressed
<1>24. CASE UNCHANGED vars
  BY <1>24 DEF vars
<1>25. QED
  BY <1>1, <1>2, <1>3, <1>4, <1>5, <1>6, <1>7, <1>8, <1>9, <1>10, <1>11, <1>12,
     <1>13, <1>14, <1>15, <1>16, <1>17, <1>18, <1>19, <1>20, <1>21, <1>22,
     <1>23, <1>24 DEF Next, Process, Handles, Works, EC

\* Every step keeps to the mutexes.
LEMMA HoldingStep ==
  ASSUME TInv, TInv', Holding, [Next]_vars
  PROVE  Holding'
<1> USE ThreadAssumption, ArgsLemma DEF TInv, Typed, switches, Event, Mutex,
      Take, Release, Thread, Step, Idle, At, Free, Fits, Holding, Inside
<1>1. ASSUME NEW t \in Caller, NEW op \in DOMAIN Args, Enter(t, op)
     PROVE  Holding'
  BY <1>1, EnterLemma DEF Enter
<1>2. ASSUME NEW t \in Caller, NEW a \in Toggle, ToggleRead(t, a)
     PROVE  Holding'
  <2>1. CASE task[t].arg = status[a]
    BY <1>2, <2>1, ReturnsLemma DEF ToggleRead
  <2>2. CASE task[t].arg # status[a]
    BY <1>2, <2>2, GoesLemma DEF ToggleRead
  <2>3. QED
    BY <2>1, <2>2
<1>3. ASSUME NEW t \in Caller, NEW a \in Toggle, ToggleFlip(t, a)
     PROVE  Holding'
  BY <1>3, ReturnsLemma DEF ToggleFlip
<1>4. ASSUME NEW t \in Caller, ChargeWrite(t)
     PROVE  Holding'
  BY <1>4, GoesLemma DEF ChargeWrite
<1>5. ASSUME NEW t \in Caller, ChargeRemember(t)
     PROVE  Holding'
  BY <1>5, ReturnsLemma DEF ChargeRemember
<1>6. ASSUME NEW t \in Caller, UsbCWrite(t)
     PROVE  Holding'
  BY <1>6, GoesLemma DEF UsbCWrite
<1>7. ASSUME NEW t \in Caller, UsbCRemember(t)
     PROVE  Holding'
  BY <1>7, ReturnsLemma DEF UsbCRemember
<1>8. ASSUME NEW t \in Caller, BrightnessStore(t)
     PROVE  Holding'
  BY <1>8, ReturnsLemma DEF BrightnessStore, Queue
<1>9. ASSUME NEW t \in Caller, ColourStore(t)
     PROVE  Holding'
  BY <1>9, GoesLemma DEF ColourStore
<1>10. ASSUME NEW t \in Caller, ColourStored(t)
     PROVE  Holding'
  BY <1>10, ReturnsLemma DEF ColourStored, Queue
<1>11. ASSUME NEW h \in Handler, NEW e \in Event, uniwill_wmi_notify(h, e)
     PROVE  Holding'
  BY <1>11, NotifyLemma DEF uniwill_wmi_notify
<1>12. ASSUME NEW h \in Handler, uniwill_restore_charge_type(h)
     PROVE  Holding'
  BY <1>12, GoesLemma DEF uniwill_restore_charge_type
<1>13. ASSUME NEW h \in Handler, UsbCLookup(h)
     PROVE  Holding'
  BY <1>13, LookupLemma DEF UsbCLookup
<1>14. ASSUME NEW h \in Handler, usb_c_power_priority_restore(h)
     PROVE  Holding'
  BY <1>14, ReturnsLemma DEF usb_c_power_priority_restore
<1>15. ASSUME NEW h \in Handler, KbdRead(h)
     PROVE  Holding'
  BY <1>15, ReadLemma DEF KbdRead
<1>16. ASSUME NEW h \in Handler, KbdSync(h)
     PROVE  Holding'
  BY <1>16, ReturnsLemma DEF KbdSync
<1>17. ASSUME WorkBegin PROVE Holding'
  BY <1>17 DEF WorkBegin
<1>18. ASSUME WorkChannel PROVE Holding'
  BY <1>18 DEF WorkChannel
<1>19. ASSUME WorkApply PROVE Holding'
  BY <1>19 DEF WorkApply
<1>20. ASSUME WorkLevel PROVE Holding'
  BY <1>20 DEF WorkLevel
<1>21. ASSUME NEW a \in Toggle, SwitchKey(a)
     PROVE  Holding'
  BY <1>21 DEF SwitchKey, Pressed
<1>22. ASSUME NEW level \in Level, LevelKey(level)
     PROVE  Holding'
  BY <1>22 DEF LevelKey, Pressed
<1>23. ASSUME Adapter PROVE Holding'
  BY <1>23 DEF Adapter, Pressed
<1>24. CASE UNCHANGED vars
  BY <1>24 DEF vars
<1>25. QED
  BY <1>1, <1>2, <1>3, <1>4, <1>5, <1>6, <1>7, <1>8, <1>9, <1>10, <1>11, <1>12,
     <1>13, <1>14, <1>15, <1>16, <1>17, <1>18, <1>19, <1>20, <1>21, <1>22,
     <1>23, <1>24 DEF Next, Process, Handles, Works, EC

\* Every step keeps the charge type.
LEMMA ChargedStep ==
  ASSUME TInv, TInv', Holding, Holding', Charged, [Next]_vars
  PROVE  Charged'
<1> USE ThreadAssumption, ArgsLemma DEF TInv, Typed, switches, Event, Mutex,
      Take, Release, Thread, Step, Idle, At, Free, Fits, Holding, Inside, Charged, Answered
<1>1. ASSUME NEW t \in Caller, NEW op \in DOMAIN Args, Enter(t, op)
     PROVE  Charged'
  BY <1>1, EnterLemma DEF Enter
<1>2. ASSUME NEW t \in Caller, NEW a \in Toggle, ToggleRead(t, a)
     PROVE  Charged'
  <2>1. CASE task[t].arg = status[a]
    BY <1>2, <2>1, ReturnsLemma DEF ToggleRead
  <2>2. CASE task[t].arg # status[a]
    BY <1>2, <2>2, GoesLemma DEF ToggleRead
  <2>3. QED
    BY <2>1, <2>2
<1>3. ASSUME NEW t \in Caller, NEW a \in Toggle, ToggleFlip(t, a)
     PROVE  Charged'
  BY <1>3, ReturnsLemma DEF ToggleFlip
<1>4. ASSUME NEW t \in Caller, ChargeWrite(t)
     PROVE  Charged'
  BY <1>4, GoesLemma DEF ChargeWrite
<1>5. ASSUME NEW t \in Caller, ChargeRemember(t)
     PROVE  Charged'
  BY <1>5, ReturnsLemma DEF ChargeRemember
<1>6. ASSUME NEW t \in Caller, UsbCWrite(t)
     PROVE  Charged'
  BY <1>6, GoesLemma DEF UsbCWrite
<1>7. ASSUME NEW t \in Caller, UsbCRemember(t)
     PROVE  Charged'
  BY <1>7, ReturnsLemma DEF UsbCRemember
<1>8. ASSUME NEW t \in Caller, BrightnessStore(t)
     PROVE  Charged'
  BY <1>8, ReturnsLemma DEF BrightnessStore, Queue
<1>9. ASSUME NEW t \in Caller, ColourStore(t)
     PROVE  Charged'
  BY <1>9, GoesLemma DEF ColourStore
<1>10. ASSUME NEW t \in Caller, ColourStored(t)
     PROVE  Charged'
  BY <1>10, ReturnsLemma DEF ColourStored, Queue
<1>11. ASSUME NEW h \in Handler, NEW e \in Event, uniwill_wmi_notify(h, e)
     PROVE  Charged'
  BY <1>11, NotifyLemma DEF uniwill_wmi_notify
<1>12. ASSUME NEW h \in Handler, uniwill_restore_charge_type(h)
     PROVE  Charged'
  BY <1>12, GoesLemma DEF uniwill_restore_charge_type
<1>13. ASSUME NEW h \in Handler, UsbCLookup(h)
     PROVE  Charged'
  BY <1>13, LookupLemma DEF UsbCLookup
<1>14. ASSUME NEW h \in Handler, usb_c_power_priority_restore(h)
     PROVE  Charged'
  BY <1>14, ReturnsLemma DEF usb_c_power_priority_restore
<1>15. ASSUME NEW h \in Handler, KbdRead(h)
     PROVE  Charged'
  BY <1>15, ReadLemma DEF KbdRead
<1>16. ASSUME NEW h \in Handler, KbdSync(h)
     PROVE  Charged'
  BY <1>16, ReturnsLemma DEF KbdSync
<1>17. ASSUME WorkBegin PROVE Charged'
  BY <1>17 DEF WorkBegin
<1>18. ASSUME WorkChannel PROVE Charged'
  BY <1>18 DEF WorkChannel
<1>19. ASSUME WorkApply PROVE Charged'
  BY <1>19 DEF WorkApply
<1>20. ASSUME WorkLevel PROVE Charged'
  BY <1>20 DEF WorkLevel
<1>21. ASSUME NEW a \in Toggle, SwitchKey(a)
     PROVE  Charged'
  BY <1>21 DEF SwitchKey, Pressed
<1>22. ASSUME NEW level \in Level, LevelKey(level)
     PROVE  Charged'
  BY <1>22 DEF LevelKey, Pressed
<1>23. ASSUME Adapter PROVE Charged'
  BY <1>23 DEF Adapter, Pressed
<1>24. CASE UNCHANGED vars
  BY <1>24 DEF vars
<1>25. QED
  BY <1>1, <1>2, <1>3, <1>4, <1>5, <1>6, <1>7, <1>8, <1>9, <1>10, <1>11, <1>12,
     <1>13, <1>14, <1>15, <1>16, <1>17, <1>18, <1>19, <1>20, <1>21, <1>22,
     <1>23, <1>24 DEF Next, Process, Handles, Works, EC

\* The steps that touch neither the colour nor the worker.
LEMMA ColourKept ==
  ASSUME ColourInv, led'.rgb = led.rgb, led'.shown = led.shown,
         core'.intensity = core.intensity,
         work'.step = work.step, work'.min_intensity = work.min_intensity,
         Requeued => Requeued'
  PROVE  ColourInv'
BY DEF ColourInv, ColourTyped, Coloured

\* The worker goes on to channel c + 1.
LEMMA ChannelStep ==
  ASSUME TInv, ColourInv, WorkChannel
  PROVE  ColourInv'
<1> DEFINE c == work.step
           value == IF core.intensity[c] < work.min_intensity
                    THEN work.min_intensity ELSE core.intensity[c]
<1>1. c \in {1, 2} /\ work.min_intensity \in {0, 1}
  BY DEF WorkChannel, TInv, Typed
<1>2. core.intensity[c] \in Nat /\ value \in Nat
  BY <1>1 DEF ColourInv, ColourTyped
<1>3. led' = [led EXCEPT !.rgb[c] = value]
  BY DEF WorkChannel
<1>4. led'.rgb = [led.rgb EXCEPT ![c] = value] /\ led'.shown = led.shown
  BY <1>3 DEF TInv, Typed
<1> HIDE DEF value
<1>5. led'.rgb \in Nat \X Nat /\ led'.rgb[c] = value
      /\ \A d \in {1, 2} \ {c} : led'.rgb[d] = led.rgb[d]
  BY <1>1, <1>2, <1>4 DEF ColourInv, ColourTyped
<1>6. work' = [work EXCEPT !.step = c + 1]
  BY DEF WorkChannel
<1>7. work'.step = c + 1 /\ work'.min_intensity = work.min_intensity
      /\ work'.queued = work.queued
  BY <1>6 DEF TInv, Typed
<1>8. core' = core /\ (Requeued' <=> Requeued)
  BY <1>7 DEF WorkChannel, Requeued, At
<1>9. ASSUME ~Requeued PROVE value = Lit(core.intensity)[c]
  BY <1>1, <1>2, <1>9 DEF ColourInv, ColourTyped, Coloured, Lit, Black, value
<1>10. CASE c = 1
  BY <1>5, <1>7, <1>8, <1>9, <1>10 DEF ColourInv, ColourTyped, Coloured
<1>11. CASE c = 2
  <2>1. Lit(core.intensity) \in Nat \X Nat
    BY DEF Lit, ColourInv, ColourTyped
  <2>2. ASSUME ~Requeued PROVE led'.rgb = Lit(core.intensity)
    BY <1>5, <1>9, <1>11, <2>1, <2>2 DEF ColourInv, Coloured
  <2>3. QED
    BY <1>5, <1>7, <1>8, <1>11, <2>2 DEF ColourInv, ColourTyped, Coloured
<1>12. QED
  BY <1>1, <1>10, <1>11

\* Every step keeps what the worker has done for the colour.
LEMMA ColourStep ==
  ASSUME TInv, TInv', ColourInv, [Next]_vars
  PROVE  ColourInv'
<1> USE ThreadAssumption, ArgsLemma DEF TInv, Typed, switches, Event, Mutex,
      Take, Release, Thread, Step, Idle, At, Free, Fits, Requeued
<1>1. ASSUME NEW t \in Caller, NEW op \in DOMAIN Args, Enter(t, op)
     PROVE  ColourInv'
  BY <1>1, EnterLemma, ColourKept DEF Enter
<1>2. ASSUME NEW t \in Caller, NEW a \in Toggle, ToggleRead(t, a)
     PROVE  ColourInv'
  <2>1. CASE task[t].arg = status[a]
    BY <1>2, <2>1, ReturnsLemma, ColourKept DEF ToggleRead
  <2>2. CASE task[t].arg # status[a]
    BY <1>2, <2>2, GoesLemma, ColourKept DEF ToggleRead
  <2>3. QED
    BY <2>1, <2>2
<1>3. ASSUME NEW t \in Caller, NEW a \in Toggle, ToggleFlip(t, a)
     PROVE  ColourInv'
  BY <1>3, ReturnsLemma, ColourKept DEF ToggleFlip
<1>4. ASSUME NEW t \in Caller, ChargeWrite(t)
     PROVE  ColourInv'
  BY <1>4, GoesLemma, ColourKept DEF ChargeWrite
<1>5. ASSUME NEW t \in Caller, ChargeRemember(t)
     PROVE  ColourInv'
  BY <1>5, ReturnsLemma, ColourKept DEF ChargeRemember
<1>6. ASSUME NEW t \in Caller, UsbCWrite(t)
     PROVE  ColourInv'
  BY <1>6, GoesLemma, ColourKept DEF UsbCWrite
<1>7. ASSUME NEW t \in Caller, UsbCRemember(t)
     PROVE  ColourInv'
  BY <1>7, ReturnsLemma, ColourKept DEF UsbCRemember
<1>8. ASSUME NEW t \in Caller, BrightnessStore(t)
     PROVE  ColourInv'
  BY <1>8 DEF BrightnessStore, Queue, ColourInv, ColourTyped, Coloured
<1>9. ASSUME NEW t \in Caller, ColourStore(t)
     PROVE  ColourInv'
  <2>1. At(t, "multi_intensity", "rest")'
    BY <1>9, GoesLemma DEF ColourStore
  <2>2. task[t].arg \in Nat \X Nat
    BY <1>9 DEF ColourStore
  <2>3. core'.intensity \in Nat \X Nat
    BY <1>9, <2>2 DEF ColourStore, ColourInv, ColourTyped
  <2>4. QED
    BY <1>9, <2>1, <2>3 DEF ColourStore, ColourInv, ColourTyped, Coloured
<1>10. ASSUME NEW t \in Caller, ColourStored(t)
     PROVE  ColourInv'
  <2>1. work'.queued
    BY <1>10 DEF ColourStored, Queue
  <2>2. task[t].arg \in Nat \X Nat
    BY <1>10 DEF ColourStored
  <2>3. core'.intensity \in Nat \X Nat
    BY <1>10, <2>2 DEF ColourStored, ColourInv, ColourTyped
  <2>4. QED
    BY <1>10, <2>1, <2>3 DEF ColourStored, ColourInv, ColourTyped, Coloured
<1>11. ASSUME NEW h \in Handler, NEW e \in Event, uniwill_wmi_notify(h, e)
     PROVE  ColourInv'
  BY <1>11, NotifyLemma, ColourKept DEF uniwill_wmi_notify
<1>12. ASSUME NEW h \in Handler, uniwill_restore_charge_type(h)
     PROVE  ColourInv'
  BY <1>12, GoesLemma, ColourKept DEF uniwill_restore_charge_type
<1>13. ASSUME NEW h \in Handler, UsbCLookup(h)
     PROVE  ColourInv'
  BY <1>13, LookupLemma, ColourKept DEF UsbCLookup
<1>14. ASSUME NEW h \in Handler, usb_c_power_priority_restore(h)
     PROVE  ColourInv'
  BY <1>14, ReturnsLemma, ColourKept DEF usb_c_power_priority_restore
<1>15. ASSUME NEW h \in Handler, KbdRead(h)
     PROVE  ColourInv'
  BY <1>15, ReadLemma, ColourKept DEF KbdRead
<1>16. ASSUME NEW h \in Handler, KbdSync(h)
     PROVE  ColourInv'
  BY <1>16, ReturnsLemma, ColourKept DEF KbdSync
<1>17. ASSUME WorkBegin PROVE ColourInv'
  BY <1>17 DEF WorkBegin, ColourInv, ColourTyped, Coloured
<1>18. ASSUME WorkChannel PROVE ColourInv'
  BY <1>18, ChannelStep
<1>19. ASSUME WorkApply PROVE ColourInv'
  <2>1. Lit(core.intensity) # Black
    BY DEF Lit, Black
  <2>2. QED
    BY <1>19, <2>1 DEF WorkApply, ColourInv, ColourTyped, Coloured, Shown
<1>20. ASSUME WorkLevel PROVE ColourInv'
  BY <1>20 DEF WorkLevel, ColourInv, ColourTyped, Coloured
<1>21. ASSUME NEW a \in Toggle, SwitchKey(a)
     PROVE  ColourInv'
  BY <1>21, ColourKept DEF SwitchKey, Pressed
<1>22. ASSUME NEW level \in Level, LevelKey(level)
     PROVE  ColourInv'
  BY <1>22, ColourKept DEF LevelKey, Pressed
<1>23. ASSUME Adapter PROVE ColourInv'
  BY <1>23, ColourKept DEF Adapter, Pressed
<1>24. CASE UNCHANGED vars
  BY <1>24, ColourKept DEF vars
<1>25. QED
  BY <1>1, <1>2, <1>3, <1>4, <1>5, <1>6, <1>7, <1>8, <1>9, <1>10, <1>11, <1>12,
     <1>13, <1>14, <1>15, <1>16, <1>17, <1>18, <1>19, <1>20, <1>21, <1>22,
     <1>23, <1>24 DEF Next, Process, Handles, Works, EC

-----------------------------------------------------------------------------
(* Refinement of Switch                                                    *)

\* A step that changes no switch, no wish and no mutex of a switch.
LEMMA StutterLemma ==
  ASSUME TInv, TInv',
         status' = status, \A a \in Toggle : lock'[a] = lock[a],
         \A t \in Caller : Waiting(t)' <=> Waiting(t),
         \A t \in Caller : Waiting(t) =>
            task'[t].op = task[t].op /\ task'[t].arg = task[t].arg,
         \A a \in Toggle : keys'[a] = keys[a]
  PROVE  UNCHANGED Switches!switchVars
<1>1. Effective' = Effective
  BY DEF Effective, Free
<1>2. Wishes' = Wishes
  BY DEF Wishes
<1>3. [a \in Toggle |-> keys[a]]' = [a \in Toggle |-> keys[a]]
  OBVIOUS
<1>4. QED
  BY <1>1, <1>2, <1>3 DEF Switches!switchVars

\* A process that calls the store of a switch asks for it.
LEMMA RequestStep ==
  ASSUME TInv, TInv', NEW t \in Caller, NEW op \in Toggle, Enter(t, op)
  PROVE  Switches!Request(t)
<1> DEFINE w == [of |-> op, to |-> task'[t].arg]
<1>1. /\ task'[t].op = op /\ task'[t].step = "enter" /\ task'[t].arg \in BOOLEAN
      /\ \A u \in Caller \ {t} : task'[u] = task[u]
  BY EnterLemma, ArgsLemma DEF Thread
<1>2. w \in Switches!Wish
  BY <1>1 DEF Switches!Wish
<1>3. ~Waiting(t) /\ Waiting(t)'
  BY <1>1, ThreadAssumption DEF Waiting, Enter
<1>4. Wishes[t] = Nobody
  BY <1>3 DEF Wishes
<1>5. \A u \in Caller \ {t} : Waiting(u)' <=> Waiting(u)
  BY <1>1 DEF Waiting
<1>6. Wishes' = [Wishes EXCEPT ![t] = w]
  BY <1>1, <1>3, <1>5 DEF Wishes
<1>7. Effective' = Effective /\ [a \in Toggle |-> keys[a]]' = [a \in Toggle |-> keys[a]]
  BY DEF Enter, switches, Effective, Free
<1> HIDE DEF w
<1>8. QED
  BY <1>2, <1>4, <1>6, <1>7 DEF Switches!Request

\* The read under the mutex is the moment at which the wish is served.
LEMMA ServeStep ==
  ASSUME TInv, TInv', NEW t \in Caller, NEW a \in Toggle, ToggleRead(t, a)
  PROVE  Switches!Serve(t)
<1> USE ThreadAssumption
<1>1. Waiting(t) /\ task[t].op = a /\ task[t].arg \in BOOLEAN
  BY ArgsLemma DEF ToggleRead, At, Waiting, TInv, Fits, Thread
<1>2. Wishes[t] = [of |-> a, to |-> task[t].arg]
  BY <1>1 DEF Wishes
<1>3. Wishes[t] # Nobody /\ Wishes[t].of = a /\ Wishes[t].to = task[t].arg
  BY <1>1, <1>2
<1>4. Effective[a] = status[a] /\ status[a] \in BOOLEAN
  BY DEF ToggleRead, Effective, TInv, Typed
<1>5. status' = status /\ \A b \in Toggle \ {a} : lock'[b] = lock[b]
  BY DEF ToggleRead, switches, Take, TInv, Typed, Mutex
<1>6. Effective'[a] = task[t].arg
  <2>1. CASE task[t].arg = status[a]
    BY <2>1, <1>5 DEF ToggleRead, Effective, Free
  <2>2. CASE task[t].arg # status[a]
    <3>1. lock'[a] = t /\ t # Nobody
      BY <2>2 DEF ToggleRead, Take, TInv, Typed, Mutex, Thread
    <3>2. Effective'[a] = ~status[a]
      BY <3>1, <1>5 DEF Effective, Free
    <3>3. QED
      BY <3>2, <2>2, <1>1, <1>4, Zenon
  <2>3. QED
    BY <2>1, <2>2
<1>7. Effective' = [Effective EXCEPT ![a] = task[t].arg]
  BY <1>5, <1>6 DEF Effective, Free
<1>8. ~Waiting(t)' /\ \A u \in Caller \ {t} : task'[u] = task[u]
  <2>1. CASE task[t].arg = status[a]
    BY <2>1, ReturnsLemma DEF ToggleRead, Idle, Waiting, TInv, Typed, Thread
  <2>2. CASE task[t].arg # status[a]
    BY <2>2, GoesLemma DEF ToggleRead, Waiting, Step, TInv, Typed, Thread
  <2>3. QED
    BY <2>1, <2>2
<1>9. Wishes' = [Wishes EXCEPT ![t] = Nobody]
  BY <1>8 DEF Wishes, Waiting
<1>10. [b \in Toggle |-> keys[b]]' = [b \in Toggle |-> keys[b]]
  BY DEF ToggleRead
<1>11. QED
  BY <1>3, <1>7, <1>9, <1>10 DEF Switches!Serve

\* A flip that is under way takes the press of a key along.
LEMMA PressStep ==
  ASSUME TInv, TInv', NEW a \in Toggle, SwitchKey(a)
  PROVE  Switches!Press(a)
<1>1. status' = [status EXCEPT ![a] = ~@] /\ lock' = lock
  BY DEF SwitchKey
<1>2. Effective' = [Effective EXCEPT ![a] = ~@]
  <2>1. \A b \in Toggle \ {a} : Effective'[b] = Effective[b]
    BY <1>1 DEF Effective, Free, TInv, Typed
  <2>2. Effective'[a] = ~Effective[a]
    <3>1. CASE Free(a)
      BY <3>1, <1>1 DEF Effective, Free, TInv, Typed
    <3>2. CASE ~Free(a)
      BY <3>2, <1>1 DEF Effective, Free, TInv, Typed
    <3>3. QED
      BY <3>1, <3>2
  <2>3. QED
    BY <2>1, <2>2 DEF Effective
<1>3. Wishes' = Wishes
  BY DEF SwitchKey, Wishes, Waiting
<1>4. [b \in Toggle |-> keys[b]]' = [[b \in Toggle |-> keys[b]] EXCEPT ![a] = @ + 1]
  BY DEF SwitchKey, Pressed, TInv, Typed
<1>5. QED
  BY <1>2, <1>3, <1>4 DEF Switches!Press

\* Every step is a step of Switch, or none.
LEMMA SwitchStep ==
  ASSUME TInv, TInv', Holding, [Next]_vars
  PROVE  [Switches!Next]_(Switches!switchVars)
<1> USE ThreadAssumption, ArgsLemma DEF TInv, Typed, switches, Event, Mutex,
      Take, Release, Thread, Step, Idle, At, Free, Waiting
<1>1. ASSUME NEW t \in Caller, NEW op \in DOMAIN Args \ Toggle, Enter(t, op)
     PROVE  UNCHANGED Switches!switchVars
  BY <1>1, EnterLemma, StutterLemma DEF Enter
<1>2. ASSUME NEW t \in Caller, NEW a \in Toggle, ToggleFlip(t, a)
     PROVE  UNCHANGED Switches!switchVars
  <2>1. lock[a] = t /\ lock[a] # Nobody
    BY <1>2 DEF ToggleFlip, Holding, Inside
  <2>2. status' = [status EXCEPT ![a] = ~@] /\ lock' = [lock EXCEPT ![a] = Nobody]
    BY <1>2 DEF ToggleFlip
  <2>3. Effective' = Effective
    BY <2>1, <2>2 DEF Effective
  <2>4. \A u \in Caller : Waiting(u)' = Waiting(u)
    BY <1>2, ReturnsLemma DEF ToggleFlip
  <2>5. \A u \in Caller : Waiting(u) => task'[u] = task[u]
    BY <1>2, ReturnsLemma DEF ToggleFlip
  <2>6. Wishes' = Wishes
    BY <2>4, <2>5 DEF Wishes
  <2>7. QED
    BY <1>2, <2>3, <2>6 DEF ToggleFlip, Switches!switchVars
<1>3. ASSUME NEW t \in Caller, ChargeWrite(t)
     PROVE  UNCHANGED Switches!switchVars
  BY <1>3, GoesLemma, StutterLemma DEF ChargeWrite
<1>4. ASSUME NEW t \in Caller, ChargeRemember(t)
     PROVE  UNCHANGED Switches!switchVars
  BY <1>4, ReturnsLemma, StutterLemma DEF ChargeRemember
<1>5. ASSUME NEW t \in Caller, UsbCWrite(t)
     PROVE  UNCHANGED Switches!switchVars
  BY <1>5, GoesLemma, StutterLemma DEF UsbCWrite
<1>6. ASSUME NEW t \in Caller, UsbCRemember(t)
     PROVE  UNCHANGED Switches!switchVars
  BY <1>6, ReturnsLemma, StutterLemma DEF UsbCRemember
<1>7. ASSUME NEW t \in Caller, BrightnessStore(t)
     PROVE  UNCHANGED Switches!switchVars
  BY <1>7, ReturnsLemma, StutterLemma DEF BrightnessStore, Queue
<1>8. ASSUME NEW t \in Caller, ColourStore(t)
     PROVE  UNCHANGED Switches!switchVars
  BY <1>8, GoesLemma, StutterLemma DEF ColourStore
<1>9. ASSUME NEW t \in Caller, ColourStored(t)
     PROVE  UNCHANGED Switches!switchVars
  BY <1>9, ReturnsLemma, StutterLemma DEF ColourStored, Queue
<1>10. ASSUME NEW h \in Handler, NEW e \in Event, uniwill_wmi_notify(h, e)
     PROVE  UNCHANGED Switches!switchVars
  BY <1>10, NotifyLemma, StutterLemma DEF uniwill_wmi_notify
<1>11. ASSUME NEW h \in Handler, uniwill_restore_charge_type(h)
     PROVE  UNCHANGED Switches!switchVars
  BY <1>11, GoesLemma, StutterLemma DEF uniwill_restore_charge_type
<1>12. ASSUME NEW h \in Handler, UsbCLookup(h)
     PROVE  UNCHANGED Switches!switchVars
  BY <1>12, LookupLemma, StutterLemma DEF UsbCLookup
<1>13. ASSUME NEW h \in Handler, usb_c_power_priority_restore(h)
     PROVE  UNCHANGED Switches!switchVars
  BY <1>13, ReturnsLemma, StutterLemma DEF usb_c_power_priority_restore
<1>14. ASSUME NEW h \in Handler, KbdRead(h)
     PROVE  UNCHANGED Switches!switchVars
  BY <1>14, ReadLemma, StutterLemma DEF KbdRead
<1>15. ASSUME NEW h \in Handler, KbdSync(h)
     PROVE  UNCHANGED Switches!switchVars
  BY <1>15, ReturnsLemma, StutterLemma DEF KbdSync
<1>16. ASSUME WorkBegin PROVE UNCHANGED Switches!switchVars
  BY <1>16, StutterLemma DEF WorkBegin
<1>17. ASSUME WorkChannel PROVE UNCHANGED Switches!switchVars
  BY <1>17, StutterLemma DEF WorkChannel
<1>18. ASSUME WorkApply PROVE UNCHANGED Switches!switchVars
  BY <1>18, StutterLemma DEF WorkApply
<1>19. ASSUME WorkLevel PROVE UNCHANGED Switches!switchVars
  BY <1>19, StutterLemma DEF WorkLevel
<1>20. ASSUME NEW level \in Level, LevelKey(level)
     PROVE  UNCHANGED Switches!switchVars
  BY <1>20, StutterLemma DEF LevelKey, Pressed
<1>21. ASSUME Adapter PROVE UNCHANGED Switches!switchVars
  BY <1>21, StutterLemma DEF Adapter, Pressed
<1>22. CASE UNCHANGED vars
  BY <1>22, StutterLemma DEF vars
<1>23. ASSUME NEW t \in Caller, NEW op \in Toggle, Enter(t, op) PROVE Switches!Next
  BY <1>23, RequestStep DEF Switches!Next
<1>24. ASSUME NEW t \in Caller, NEW a \in Toggle, ToggleRead(t, a) PROVE Switches!Next
  BY <1>24, ServeStep DEF Switches!Next
<1>25. ASSUME NEW a \in Toggle, SwitchKey(a) PROVE Switches!Next
  BY <1>25, PressStep DEF Switches!Next
<1>26. ASSUME NEW t \in Caller, Process(t) PROVE [Switches!Next]_(Switches!switchVars)
  <2>1. CASE \E op \in DOMAIN Args : Enter(t, op)
    BY <2>1, <1>1, <1>23
  <2>2. CASE \E a \in Toggle : ToggleRead(t, a) \/ ToggleFlip(t, a)
    BY <2>2, <1>2, <1>24
  <2>3. QED
    BY <1>26, <2>1, <2>2, <1>3, <1>4, <1>5, <1>6, <1>7, <1>8, <1>9 DEF Process
<1>27. ASSUME NEW h \in Handler, Handles(h) PROVE UNCHANGED Switches!switchVars
  BY <1>27, <1>10, <1>11, <1>12, <1>13, <1>14, <1>15 DEF Handles
<1>28. ASSUME Works PROVE UNCHANGED Switches!switchVars
  BY <1>28, <1>16, <1>17, <1>18, <1>19 DEF Works
<1>29. ASSUME EC PROVE [Switches!Next]_(Switches!switchVars)
  BY <1>29, <1>20, <1>21, <1>25 DEF EC
<1>30. QED
  BY <1>22, <1>26, <1>27, <1>28, <1>29 DEF Next

-----------------------------------------------------------------------------
(* The theorems                                                            *)

IInv == TInv /\ Holding /\ Charged /\ ColourInv

LEMMA Initially ==
  ASSUME Init PROVE IInv
<1>1. Idle \in TaskRec
  BY DEF Idle, TaskRec, Op, Step, Arg
<1>2. Typed
  BY <1>1, ThreadAssumption DEF Init, Typed, Mutex, Event
<1>3. Fits /\ Holding /\ Charged
  BY <1>2, ThreadAssumption, ArgsLemma
  DEF Init, Typed, Fits, Holding, Charged, Inside, Idle, At, Event, Thread, Mutex
<1>4. ColourInv
  BY ThreadAssumption
  DEF Init, ColourInv, ColourTyped, Coloured, Lit
<1>5. QED
  BY <1>2, <1>3, <1>4 DEF IInv, TInv

LEMMA Inductive ==
  ASSUME IInv, [Next]_vars PROVE IInv'
BY TypeStep, FitsStep, HoldingStep, ChargedStep, ColourStep DEF IInv, TInv

LEMMA Invariance == Spec => []IInv
<1>1. Init => IInv
  BY Initially
<1>2. IInv /\ [Next]_vars => IInv'
  BY Inductive
<1>3. QED
  BY <1>1, <1>2, PTL DEF Spec, Safety

\* Every variable holds a value of its kind, and whoever holds a mutex is in
\* the middle of an access under it, whatever runs in parallel in the driver.
THEOREM ThreadsTypeCorrect == Spec => []ThreadsTypeOK
<1>1. ASSUME IInv PROVE ThreadsTypeOK
  <2>1. \A t \in Thread : task[t].op \in DOMAIN Args \cup Event \cup {"none"}
                          /\ task[t].step \in Step
    BY <1>1 DEF IInv, TInv, Typed, TaskRec, Op
  <2>2. ASSUME NEW m \in Mutex, ~Free(m)
        PROVE  lock[m] \in Thread /\ task[lock[m]].step # "enter"
    BY <1>1, <2>2 DEF IInv, TInv, Typed, Free, Holding, Inside, At
  <2>3. QED
    BY <1>1, <2>1, <2>2 DEF ThreadsTypeOK, IInv, TInv, Typed
<1>2. QED
  BY <1>1, Invariance, PTL

\* While no adapter event is on its way and no process is in the middle of a
\* write, the EC charges as uniwill_data remembers, however set_property and
\* the adapter events race.
THEOREM ChargeIsKept == Spec => []ChargeKept
<1>1. ASSUME IInv PROVE ChargeKept
  BY <1>1 DEF IInv, Charged, Answered, ChargeKept
<1>2. QED
  BY <1>1, Invariance, PTL

\* Once the worker of the LED core is done the keyboard shows the colour stored
\* last, black as faint white, however the stores and the worker's reads of the
\* two intensities interleave.
THEOREM ColourIsShown == Spec => []ColourSettles
<1>1. ASSUME IInv PROVE ColourSettles
  BY <1>1 DEF IInv, ColourInv, Coloured, Requeued, Lit, ColourSettles
<1>2. QED
  BY <1>1, Invariance, PTL

\* write_super_key_enable and write_fan_boost are atomic: a read of the status,
\* a flip and the keys that come in between implement Switch.
THEOREM TogglesAreAtomic == Spec => ToggleIsAtomic
<1>1. Init => Switches!Init
  BY ThreadAssumption
  DEF Init, Switches!Init, Effective, Free, Wishes, Waiting, Mutex, Idle, Thread
<1>2. IInv /\ IInv' /\ [Next]_vars => [Switches!Next]_(Switches!switchVars)
  BY SwitchStep DEF IInv
<1>3. QED
  BY <1>1, <1>2, Invariance, PTL DEF Spec, Safety, ToggleIsAtomic,
     Switches!Spec
=============================================================================
