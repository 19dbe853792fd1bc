---------------------------- MODULE DriverProofs ----------------------------
(***************************************************************************)
(* The driver keeps its promises for every machine, every content of the   *)
(* EC, all values and all bounds: the invariants of Driver.                *)
(***************************************************************************)
EXTENDS HandlerProofs

-----------------------------------------------------------------------------
(* The inductive invariant                                                 *)

\* What holds of the EC in whatever state it is.
EcTyped(ec) ==
  /\ ec["usb_c"] \in {0, 1} /\ ec["profile"] \in 0..3
  /\ ec["project"] = ResetEC["project"] /\ ec["has_gpu"] = ResetEC["has_gpu"]

Asleep == phase \in {"quiet", "woken"}

SysInv ==
  /\ Sys(sys) /\ RgbTyped(sys) /\ sys.ok = TRUE /\ sys.fuse = 0
  /\ sys.cache_only = Asleep
  /\ EcTyped(sys.ec)
  /\ machine.fallback = FALSE => sys.window = TRUE

CountInv ==
  /\ machine \in Machines /\ phase \in Phase
  /\ lost \subseteq Everything \cup Minor
  /\ pending \in BOOLEAN
  /\ requests \in Nat /\ faults \in Nat /\ sleeps \in Nat /\ unloads \in Nat

\* The probe adds at most one feature to those of the descriptor.
FeatureInv ==
  Bound => /\ machine.features \subseteq features
           /\ features \subseteq machine.features \cup {"NVIDIA_CTGP_CONTROL"}

\* Of the calls All the last ones are left.
Left(calls, All) ==
  /\ pc \subseteq All
  /\ \A c \in pc : \A d \in All : calls[c] <= calls[d] => d \in pc

CallInv ==
  /\ phase \notin {"probing", "suspend", "resume"} => pc = {}
  /\ phase = "probing" => Left(ProbeCalls, DOMAIN ProbeCalls)
  /\ phase = "suspend" => Left(SuspendCalls, {c \in DOMAIN SuspendCalls : Suspends(c)})
  /\ phase = "resume" => Left(ResumeCalls, {c \in DOMAIN ResumeCalls : Resumes(c)})

\* Only what is offered is queued.
QueueInv ==
  \A a \in DOMAIN queue : a \in Led /\ queue[a] \in Values[a] /\ Offered(a)

Coloured == "KEYBOARD_BACKLIGHT" \in machine.features /\ machine.single = FALSE

Boosting == "NVIDIA_CTGP_CONTROL" \in features

\* A probe that is still at work has made the call c.
Past(c) == phase = "probing" => c \notin pc

\* What a bound driver has in its cache, whatever has failed.
CacheInv ==
  Bound =>
    /\ Past("ec") => "manual" \in DOMAIN sys.cache /\ sys.cache["manual"] = 1
    /\ \A f \in {"project", "has_gpu"} :
         f \in DOMAIN sys.cache => sys.cache[f] = ResetEC[f]
    /\ Coloured /\ Past("kbd_led") => InRange(sys)
    /\ Boosting /\ Past("ctgp") =>
         /\ {"ctgp_general", "ctgp_on", "tpp_offset", "db_offset"} \subseteq DOMAIN sys.cache
         /\ sys.cache["ctgp_general"] = 1
         /\ sys.cache["tpp_offset"] = 255 /\ sys.cache["db_offset"] = 25
    /\ Supports("LIGHTBAR") /\ Past("led") =>
         /\ LightFields \subseteq DOMAIN sys.cache /\ AppBits(sys)
         /\ "uneven" \notin lost => Even(sys)

\* The copies that are written back name a value of the EC.
LastInv ==
  Bound =>
    /\ Modes /\ Past("battery") => sys.last["charge"] \in DOMAIN ChargingProfile
    /\ Priority /\ Past("usb_c")
         => sys.last["usb_c"] \in DOMAIN usb_c_power_priority_value

\* In use or coming into use, and nothing is lost that matters.
Awake == phase \in {"on", "suspend", "probing"}
Sound == Awake /\ lost \subseteq Minor

\* The driver reaches the EC.
AliveInv ==
  /\ Awake /\ Past("ec") /\ "manual" \notin lost => Alive(sys)
  /\ phase = "probing" /\ "ec" \notin pc => "manual" \notin lost
  /\ phase = "resume" /\ "transport" \notin pc => Alive(sys)

\* The EC and the cache agree, or a sync will make them.
SyncInv ==
  /\ Sound => Coherent(sys)
  /\ phase = "probing" /\ "ec" \in pc => DOMAIN sys.cache = {}
  /\ phase = "resume" /\ "sync" \notin pc => Coherent(sys)
  /\ Asleep => sys.dirty = TRUE
  /\ phase = "resume" /\ "sync" \in pc => sys.dirty = TRUE

ManualInv ==
  "manual" \notin lost =>
    /\ Awake /\ Past("ec") => sys.ec["manual"] = 1
    /\ phase = "unloaded" \/ (phase = "probing" /\ "ec" \in pc) => sys.ec["manual"] = 0

BoostInv ==
  Boosting =>
    /\ phase \in {"on", "probing"} /\ Past("ctgp") /\ lost \subseteq Minor
         => sys.cache["ctgp_on"] = 1
    /\ phase = "suspend" /\ lost \subseteq Minor =>
         sys.cache["ctgp_on"] = IF "ctgp" \in pc THEN 1 ELSE 0
    /\ phase = "quiet" /\ lost \subseteq Minor => sys.ec["ctgp_on"] = 0
    /\ phase = "resume" /\ "ctgp" \notin pc => sys.cache["ctgp_on"] = 1

ShownInv ==
  Coloured =>
    /\ (phase = "unloaded" \/ (phase = "probing" /\ "kbd_led" \in pc))
         /\ "colour" \notin lost => Honest(sys)
    /\ Awake /\ Past("kbd_led") /\ lost \subseteq {"uneven", "adapter"}
         => sys.ec["shown"] = sys.ec["rgb"]
    /\ phase = "resume" /\ "kbd_led" \notin pc => sys.ec["shown"] = sys.ec["rgb"]

\* The charge type and the USB-C priority are in force, or an event or the
\* resume will see to it, or their event is known to be lost.
AdapterInv ==
  pending = FALSE /\ "adapter" \notin lost =>
    /\ Modes => /\ Sound /\ Past("battery") => ChargeSet(sys)
                /\ phase = "resume" /\ "battery" \notin pc => ChargeSet(sys)
    /\ Priority => /\ Sound /\ Past("usb_c") => UsbCSet(sys)
                   /\ phase = "resume" /\ "usb_c" \notin pc => UsbCSet(sys)

IInv ==
  /\ SysInv /\ CountInv /\ FeatureInv /\ CallInv /\ QueueInv /\ CacheInv /\ LastInv
  /\ AliveInv /\ SyncInv /\ ManualInv /\ BoostInv /\ ShownInv /\ AdapterInv
-----------------------------------------------------------------------------
(* It implies the properties                                               *)

LEMMA MachineLemma ==
  ASSUME machine \in Machines
  PROVE  /\ machine.fallback \in BOOLEAN /\ machine.single \in BOOLEAN
         /\ ~ ("BATTERY_CHARGE_LIMIT" \in machine.features
               /\ "BATTERY_CHARGE_MODES" \in machine.features)
BY MachinesAssumption

\* Only the boost is added to the features of the descriptor.
LEMMA FeatureLemma ==
  ASSUME FeatureInv, Bound
  PROVE  /\ \A f : f # "NVIDIA_CTGP_CONTROL" =>
              (f \in features <=> f \in machine.features)
         /\ machine.features \subseteq features
BY DEF FeatureInv

LEMMA SoundLemma ==
  ASSUME IInv, Sound
  PROVE  /\ Coherent(sys) /\ sys.cache_only = FALSE
         /\ Past("ec") => Alive(sys)
         /\ "manual" \notin lost /\ Bound
<1>1. "manual" \notin Minor
  BY DEF Minor
<1>2. "manual" \notin lost /\ Awake
  BY <1>1 DEF Sound
<1>3. Coherent(sys) /\ (Past("ec") => Alive(sys))
  BY <1>2 DEF IInv, AliveInv, SyncInv
<1>4. Asleep = FALSE /\ Bound
  BY <1>2 DEF Awake, Asleep, Bound
<1>5. QED
  BY <1>2, <1>3, <1>4 DEF IInv, SysInv

LEMMA IntactLemma ==
  ASSUME Intact
  PROVE  Sound /\ phase = "on" /\ \A c : Past(c)
BY DEF Intact, Sound, Awake, Past

\* What stays queued stays offered.
LEMMA QueueKept ==
  ASSUME QueueInv, DOMAIN queue' \subseteq DOMAIN queue,
         \A a \in DOMAIN queue' : queue'[a] = queue[a],
         features \subseteq features',
         phase \in {"on", "probing"}
           => phase' = "on" \/ (phase' = phase /\ pc' \subseteq pc)
  PROVE  QueueInv'
<1> SUFFICES ASSUME NEW a \in DOMAIN queue'
             PROVE  a \in Led /\ queue'[a] \in Values[a] /\ Offered(a)'
  BY DEF QueueInv
<1>1. a \in Led /\ queue[a] \in Values[a] /\ Offered(a)
  BY DEF QueueInv
<1>2. QED
  BY <1>1 DEF Offered, Supports

LEMMA QueueEmpty ==
  ASSUME QueueInv, phase \notin {"on", "probing"}
  PROVE  DOMAIN queue = {}
BY DEF QueueInv, Offered

\* Most of the invariant is not about the counters and the queue.
LEMMA RestStays ==
  ASSUME UNCHANGED <<machine, features, phase, pc, sys, pending, lost>>,
         SysInv, FeatureInv, CallInv, CacheInv, LastInv,
         AliveInv, SyncInv, ManualInv, BoostInv, ShownInv, AdapterInv
  PROVE  /\ SysInv' /\ FeatureInv' /\ CallInv' /\ CacheInv' /\ LastInv'
         /\ AliveInv' /\ SyncInv' /\ ManualInv' /\ BoostInv' /\ ShownInv' /\ AdapterInv'
<1>1. /\ Asleep' = Asleep /\ Awake' = Awake /\ Bound' = Bound /\ Sound' = Sound
      /\ Coloured' = Coloured /\ Boosting' = Boosting
      /\ Modes' = Modes /\ Priority' = Priority
      /\ Supports("LIGHTBAR")' = Supports("LIGHTBAR") /\ sys' = sys
      /\ \A c : Past(c)' = Past(c)
  BY DEF Asleep, Awake, Bound, Sound, Coloured, Boosting, Modes, Priority, Supports, Past
<1>2. SysInv' /\ FeatureInv' /\ CallInv'
  BY <1>1 DEF SysInv, FeatureInv, CallInv, Left, Suspends, Resumes, Supports
<1>3. CacheInv' /\ LastInv' /\ AliveInv' /\ SyncInv'
  BY <1>1 DEF CacheInv, LastInv, AliveInv, SyncInv
<1>4. ManualInv' /\ BoostInv' /\ ShownInv' /\ AdapterInv'
  BY <1>1 DEF ManualInv, BoostInv, ShownInv, AdapterInv
<1>5. QED
  BY <1>2, <1>3, <1>4

LEMMA InvTypeOK == IInv => DriverTypeOK
<1> SUFFICES ASSUME IInv
             PROVE  DriverTypeOK
  OBVIOUS
<1>1. machine \in Machines /\ phase \in Phase /\ lost \subseteq Everything \cup Minor
  BY DEF IInv, CountInv
<1>2. {requests, faults, sleeps, unloads} \subseteq Nat
  BY DEF IInv, CountInv
<1>3. DOMAIN sys.cache \subseteq Field
  BY DEF IInv, SysInv, Sys, Cache
<1>4. sys.ok = TRUE /\ sys.fuse = 0
  BY DEF IInv, SysInv
<1>5. sys.cache_only = (phase \in {"quiet", "woken"})
  BY DEF IInv, SysInv, Asleep
<1>6. pc \subseteq UNION {DOMAIN calls : calls \in {ProbeCalls, SuspendCalls, ResumeCalls}}
  <2>1. pc = {} \/ phase \in {"probing", "suspend", "resume"}
    BY DEF IInv, CallInv
  <2>2. phase = "suspend" => pc \subseteq DOMAIN SuspendCalls
    BY DEF IInv, CallInv, Left
  <2>3. phase = "resume" => pc \subseteq DOMAIN ResumeCalls
    BY DEF IInv, CallInv, Left
  <2>4. phase = "probing" => pc \subseteq DOMAIN ProbeCalls
    BY DEF IInv, CallInv, Left
  <2> HIDE DEF IInv
  <2>5. pc \subseteq DOMAIN ProbeCalls \/ pc \subseteq DOMAIN SuspendCalls
        \/ pc \subseteq DOMAIN ResumeCalls
    BY <2>1, <2>2, <2>3, <2>4
  <2>6. QED
    BY <2>5
<1>7. \A a \in DOMAIN queue : a \in Led /\ queue[a] \in Values[a] /\ Offered(a)
  BY DEF IInv, QueueInv
<1>8. QED
  BY <1>1, <1>2, <1>3, <1>4, <1>5, <1>6, <1>7 DEF DriverTypeOK

LEMMA InvCoherent == IInv => CacheCoherent
BY IntactLemma, SoundLemma DEF CacheCoherent, Coherent

LEMMA InvLightbar == IInv => LightbarSame
<1> SUFFICES ASSUME IInv, Intact, "uneven" \notin lost, Supports("LIGHTBAR")
             PROVE  /\ sys.ec["ac_rgb"] = sys.ec["bat_rgb"]
                    /\ sys.ec["ac_off"] = sys.ec["bat_off"]
                    /\ sys.ec["ac_rainbow"] = sys.ec["bat_rainbow"]
                    /\ sys.ec["ac_app"] = 1 /\ sys.ec["bat_app"] = 1
  BY DEF LightbarSame
<1>1. Coherent(sys) /\ Bound /\ Past("led")
  BY IntactLemma, SoundLemma
<1>2. LightFields \subseteq DOMAIN sys.cache /\ AppBits(sys) /\ Even(sys)
  BY <1>1 DEF IInv, CacheInv
<1>3. \A f \in LightFields : sys.ec[f] = sys.cache[f]
  BY <1>1, <1>2 DEF Coherent
<1>4. QED
  BY <1>2, <1>3 DEF AppBits, Even, LightFields

LEMMA InvManual == IInv => ManualWhileBound
BY DEF IInv, ManualInv, ManualWhileBound, Awake, Bound, Past

LEMMA InvAdapter == IInv => AdapterApplied
<1> SUFFICES ASSUME IInv, Intact, ~pending, "adapter" \notin lost
             PROVE  /\ Supports("BATTERY_CHARGE_MODES") => ChargeSet(sys)
                    /\ Supports("USB_C_POWER_PRIORITY") => UsbCSet(sys)
  BY DEF AdapterApplied, ChargeSet, UsbCSet
<1>1. pending = FALSE /\ Sound /\ \A c : Past(c)
  BY IntactLemma DEF IInv, CountInv
<1>2. QED
  BY <1>1 DEF IInv, AdapterInv, Supports, Modes, Priority

LEMMA InvReadings == IInv => NoPhantomReadings
<1> SUFFICES ASSUME IInv, Intact, NEW sensor \in DOMAIN SensorFeature
             PROVE  uniwill_read(sys, sensor)
                      = uniwill_read([sys EXCEPT !.window = TRUE], sensor)
  BY DEF NoPhantomReadings
<1> DEFINE s == [sys EXCEPT !.window = TRUE]
<1>1. Alive(sys) /\ Shaped(sys)
  BY IntactLemma, SoundLemma DEF IInv, SysInv, Sys
<1>2. s.cache = sys.cache /\ s.ec = sys.ec /\ s.window = TRUE
  BY <1>1 DEF Shaped, Part
<1> HIDE DEF s
<1>3. Seen(s, sensor) = Seen(sys, sensor)
  BY <1>1, <1>2 DEF Seen, OnWire, Alive
<1>4. uniwill_read(sys, sensor) = uniwill_read(s, sensor)
  BY <1>3 DEF uniwill_read
<1>5. QED
  BY <1>4 DEF s

LEMMA InvBoost == IInv => BoostFollowsPower
<1> SUFFICES ASSUME IInv, lost \subseteq Minor, Supports("NVIDIA_CTGP_CONTROL")
             PROVE  /\ phase = "on" =>
                         /\ sys.ec["ctgp_on"] = 1 /\ sys.ec["ctgp_general"] = 1
                         /\ sys.ec["tpp_offset"] = 255 /\ sys.ec["db_offset"] = 25
                    /\ phase = "quiet" => sys.ec["ctgp_on"] = 0
  BY DEF BoostFollowsPower
<1>1. Boosting
  BY DEF Boosting, Supports
<1>2. phase = "quiet" => sys.ec["ctgp_on"] = 0
  BY <1>1 DEF IInv, BoostInv
<1>3. ASSUME phase = "on"
      PROVE  /\ sys.ec["ctgp_on"] = 1 /\ sys.ec["ctgp_general"] = 1
             /\ sys.ec["tpp_offset"] = 255 /\ sys.ec["db_offset"] = 25
  <2>1. Coherent(sys) /\ Bound /\ Past("ctgp")
    BY <1>3, SoundLemma DEF Sound, Awake, Past
  <2>2. /\ {"ctgp_general", "ctgp_on", "tpp_offset", "db_offset"} \subseteq DOMAIN sys.cache
        /\ sys.cache["ctgp_general"] = 1
        /\ sys.cache["tpp_offset"] = 255 /\ sys.cache["db_offset"] = 25
    BY <1>1, <2>1 DEF IInv, CacheInv
  <2>3. sys.cache["ctgp_on"] = 1
    BY <1>1, <1>3, <2>1 DEF IInv, BoostInv
  <2>4. QED
    BY <2>1, <2>2, <2>3 DEF Coherent
<1>4. QED
  BY <1>2, <1>3

LEMMA InvColour == IInv => ColourShown
<1> SUFFICES ASSUME IInv, Intact, "colour" \notin lost,
                    Supports("KEYBOARD_BACKLIGHT"), ~machine.single
             PROVE  sys.ec["shown"] = sys.ec["rgb"]
  BY DEF ColourShown
<1>1. /\ Awake /\ Bound /\ lost \subseteq {"uneven", "adapter"}
      /\ Past("kbd_led")
  BY IntactLemma, SoundLemma DEF Sound, Minor
<1>2. machine.single = FALSE
  BY MachineLemma DEF IInv, CountInv
<1>3. Coloured
  BY <1>1, <1>2, FeatureLemma DEF IInv, Supports, Coloured
<1>4. QED
  BY <1>1, <1>3 DEF IInv, ShownInv
-----------------------------------------------------------------------------
(* It holds at the start                                                   *)

LEMMA EcLemma ==
  ASSUME NEW ec \in StartEC \cup {ResetEC}
  PROVE  /\ ec = [f \in EcField |-> ec[f]] /\ EcTyped(ec)
         /\ ec["rgb"] \in Int
<1>1. /\ ec = [f \in EcField |-> ec[f]]
      /\ ec["project"] = ResetEC["project"] /\ ec["has_gpu"] = ResetEC["has_gpu"]
      /\ ec["usb_c"] \in {0, 1} /\ ec["profile"] \in 0..3 /\ ec["rgb"] \in Nat
  BY EcAssumption DEF EcField
<1>2. QED
  BY <1>1 DEF EcTyped

LEMMA StartLemma ==
  ASSUME NEW ec \in StartEC, NEW window \in BOOLEAN
  PROVE  LET s == Fresh([ec |-> ec, window |-> window, ok |-> TRUE, fuse |-> 0,
                         cache |-> <<>>, cache_only |-> FALSE, dirty |-> FALSE,
                         use_wmi |-> FALSE, last |-> <<>>])
         IN /\ Sys(s) /\ s.ok = TRUE /\ s.fuse = 0 /\ s.ec = ec /\ s.window = window
            /\ DOMAIN s.cache = {} /\ s.cache_only = FALSE
<1> DEFINE r == [ec |-> ec, window |-> window, ok |-> TRUE, fuse |-> 0,
                 cache |-> <<>>, cache_only |-> FALSE, dirty |-> FALSE,
                 use_wmi |-> FALSE, last |-> <<>>]
           c == [f \in {} |-> 0]
           l == [fn_lock |-> 0, super_key |-> 0, touchpad |-> 0, charge |-> 0,
                 kbd |-> <<0, 0>>, powershare |-> 0, usb_c |-> "charging"]
           s == Fresh(r)
<1>1. DOMAIN r = Part
  BY DEF Part
<1>2. /\ s.ec = ec /\ s.window = window /\ s.ok = TRUE /\ s.fuse = 0
      /\ s.cache = c /\ s.cache_only = FALSE /\ s.dirty = FALSE
      /\ s.use_wmi = FALSE /\ s.last = l
  BY DEF Fresh
<1>3. Shaped(s)
  BY <1>1 DEF Fresh, Shaped, Part
<1>4. l = [x \in LastPart |-> l[x]]
  BY DEF LastPart
<1>5. Cache(c) /\ DOMAIN c = {}
  BY DEF Cache
<1>6. ec = [f \in EcField |-> ec[f]]
  BY EcLemma
<1> HIDE DEF s, l, c
<1>7. Sys(s)
  <2>1. s.ec = [f \in EcField |-> s.ec[f]]
    BY <1>2, <1>6
  <2>2. s.last = [x \in LastPart |-> s.last[x]]
    BY <1>2, <1>4
  <2>3. Cache(s.cache)
    BY <1>2, <1>5
  <2>4. /\ s.window \in BOOLEAN /\ s.use_wmi \in BOOLEAN /\ s.cache_only \in BOOLEAN
        /\ s.dirty \in BOOLEAN /\ s.ok \in BOOLEAN
    BY <1>2, Zenon
  <2>5. s.fuse \in Nat
    BY <1>2
  <2>6. QED
    BY <1>3, <2>1, <2>2, <2>3, <2>4, <2>5 DEF Sys
<1>8. QED
  BY <1>2, <1>5, <1>7 DEF s

LEMMA InitLemma == uniwill_init => IInv
<1> SUFFICES ASSUME uniwill_init
             PROVE  IInv
  OBVIOUS
<1>1. PICK ec \in StartEC,
           window \in {TRUE} \cup (IF machine.fallback THEN {FALSE} ELSE {}) :
        sys = Fresh([ec |-> ec, window |-> window, ok |-> TRUE, fuse |-> 0,
                     cache |-> <<>>, cache_only |-> FALSE, dirty |-> FALSE,
                     use_wmi |-> FALSE, last |-> <<>>])
  BY DEF uniwill_init
<1>2. /\ machine \in Machines /\ features = {} /\ phase = "unloaded" /\ pc = {}
      /\ queue = NoWork /\ pending = FALSE /\ lost = {}
      /\ requests = 0 /\ faults = 0 /\ sleeps = 0 /\ unloads = 0
  BY DEF uniwill_init
<1>3. window \in BOOLEAN /\ (machine.fallback = FALSE => window = TRUE)
  OBVIOUS
<1>4. /\ Sys(sys) /\ sys.ok = TRUE /\ sys.fuse = 0 /\ sys.ec = ec /\ sys.window = window
      /\ DOMAIN sys.cache = {} /\ sys.cache_only = FALSE
  BY <1>1, <1>3, StartLemma
<1>5. EcTyped(ec) /\ ec["rgb"] \in Int
  BY EcLemma
<1>6. RgbTyped(sys)
  BY <1>4, <1>5 DEF RgbTyped
<1>7. ~Bound /\ ~Awake /\ Asleep = FALSE
  BY <1>2 DEF Bound, Awake, Asleep
<1>8. SysInv
  BY <1>3, <1>4, <1>5, <1>6, <1>7 DEF SysInv
<1>9. CountInv /\ FeatureInv /\ CallInv /\ QueueInv /\ CacheInv /\ LastInv
  BY <1>2, <1>7 DEF CountInv, FeatureInv, CallInv, QueueInv, NoWork, CacheInv, LastInv,
                    Phase
<1>10. AliveInv /\ SyncInv /\ BoostInv /\ AdapterInv
  BY <1>2, <1>7 DEF AliveInv, SyncInv, Sound, BoostInv, Boosting, AdapterInv, Modes, Priority
<1>11. ManualInv
  BY <1>2, <1>4, <1>7, StartAssumption DEF ManualInv
<1>12. ShownInv
  BY <1>2, <1>4, <1>7, StartAssumption DEF ShownInv, Honest
<1>13. QED
  BY <1>8, <1>9, <1>10, <1>11, <1>12 DEF IInv
-----------------------------------------------------------------------------
(* A handler of a bound driver                                             *)

\* What only a probe, a removal and a sync change.
Fixed == {"manual", "project", "has_gpu", "tpp_offset", "db_offset"}

\* What a handler has to respect that steps to sys' and may change the
\* fields F.
Respects(F) ==
  /\ F \cap Fixed = {}
  /\ RgbTyped(sys') /\ sys'.ec["usb_c"] \in {0, 1} /\ sys'.ec["profile"] \in 0..3
  /\ Coloured /\ Past("kbd_led") => InRange(sys')
  /\ Boosting /\ Past("ctgp") => sys'.cache["ctgp_general"] = 1
  /\ Supports("LIGHTBAR") /\ Past("led")
       => AppBits(sys') /\ ("uneven" \notin lost' => Even(sys'))
  /\ Modes /\ Past("battery") => sys'.last["charge"] \in DOMAIN ChargingProfile
  /\ Priority /\ Past("usb_c")
       => sys'.last["usb_c"] \in DOMAIN usb_c_power_priority_value

LEMMA BoundStep ==
  ASSUME IInv, Bound, Bound', Asleep' = Asleep, UNCHANGED <<machine, features>>,
         \A c : Past(c)' = Past(c),
         NEW F, NEW L, NEW ok, Stepped(sys, sys', F, L, ok), Respects(F)
  PROVE  /\ SysInv' /\ FeatureInv' /\ CacheInv' /\ LastInv'
         /\ Alive(sys') = Alive(sys) /\ sys'.ec["manual"] = sys.ec["manual"]
<1>1. /\ Sys(sys') /\ sys'.ok = TRUE /\ sys'.fuse = 0
      /\ sys'.window = sys.window /\ sys'.use_wmi = sys.use_wmi
      /\ sys'.cache_only = sys.cache_only
  BY DEF Stepped
<1>2. sys'.cache_only = Asleep'
  BY <1>1 DEF IInv, SysInv
<1>3. \A f \in Fixed : f \notin F
  BY DEF Respects
<1>4. \A f \in {"project", "has_gpu", "manual"} : sys'.ec[f] = sys.ec[f]
  BY <1>3, PlainFields DEF Fixed, Stepped
<1>5. EcTyped(sys'.ec)
  BY <1>4 DEF IInv, SysInv, EcTyped, Respects
<1>6. RgbTyped(sys')
  BY DEF Respects
<1>7. machine'.fallback = FALSE => sys'.window = TRUE
  BY <1>1 DEF IInv, SysInv
<1>8. SysInv'
  BY <1>1, <1>2, <1>5, <1>6, <1>7 DEF SysInv
<1>9. FeatureInv'
  BY DEF IInv, FeatureInv
<1>10. /\ DOMAIN sys.cache \subseteq DOMAIN sys'.cache
       /\ \A f \in Fixed : f \in DOMAIN sys'.cache
            => f \in DOMAIN sys.cache /\ sys'.cache[f] = sys.cache[f]
  BY <1>3 DEF Stepped
<1>11. CacheInv'
  <2>1. Past("ec")' => "manual" \in DOMAIN sys'.cache /\ sys'.cache["manual"] = 1
    BY <1>10 DEF IInv, CacheInv, Fixed
  <2>2. \A f \in {"project", "has_gpu"} : f \in DOMAIN sys'.cache => sys'.cache[f] = ResetEC[f]
    BY <1>10 DEF IInv, CacheInv, Fixed
  <2>3. Coloured' /\ Past("kbd_led")' => InRange(sys')
    BY DEF Respects, Coloured
  <2>4. ASSUME Boosting', Past("ctgp")'
        PROVE  /\ {"ctgp_general", "ctgp_on", "tpp_offset", "db_offset"} \subseteq DOMAIN sys'.cache
               /\ sys'.cache["ctgp_general"] = 1
               /\ sys'.cache["tpp_offset"] = 255 /\ sys'.cache["db_offset"] = 25
    <3>1. Boosting /\ Past("ctgp")
      BY <2>4 DEF Boosting
    <3>2. QED
      BY <1>10, <3>1 DEF IInv, CacheInv, Fixed, Respects
  <2>5. ASSUME Supports("LIGHTBAR")', Past("led")'
        PROVE  /\ LightFields \subseteq DOMAIN sys'.cache /\ AppBits(sys')
               /\ "uneven" \notin lost' => Even(sys')
    <3>1. Supports("LIGHTBAR") /\ Past("led")
      BY <2>5 DEF Supports
    <3>2. QED
      BY <1>10, <3>1 DEF IInv, CacheInv, Respects
  <2>6. QED
    BY <2>1, <2>2, <2>3, <2>4, <2>5 DEF CacheInv
<1>12. LastInv'
  BY DEF LastInv, Respects, Modes, Priority
<1>13. QED
  BY <1>1, <1>4, <1>8, <1>9, <1>11, <1>12 DEF Alive
-----------------------------------------------------------------------------
(* Steps of the EC by itself                                               *)

LEMMA EcAlters ==
  ASSUME NEW s, Sys(s), NEW ec, ec = [f \in EcField |-> ec[f]]
  PROVE  LET t == [s EXCEPT !.ec = ec]
         IN Sys(t) /\ Alters(s, t, {"ec"}) /\ t.ec = ec
<1> DEFINE t == [s EXCEPT !.ec = ec]
<1>1. Shaped(s)
  BY DEF Sys
<1>2. Shaped(t) /\ t.ec = ec /\ \A x \in Part \ {"ec"} : t[x] = s[x]
  BY <1>1 DEF Shaped, Part
<1> HIDE DEF t
<1>3. Sys(t)
  BY <1>2 DEF Sys, Part
<1>4. QED
  BY <1>2, <1>3 DEF Alters, t

\* What the EC changes by itself, none of which is cached.
Own == {"fn_lock", "super_lock", "kbd_level", "kbd_off", "profile", "usb_c"}

LEMMA EcStep ==
  ASSUME IInv, UNCHANGED <<machine, features, phase, pc, queue, lost>>,
         NEW ec, ec = [f \in EcField |-> ec[f]], sys' = [sys EXCEPT !.ec = ec],
         \A f \in EcField \ Own : ec[f] = sys.ec[f],
         ec["usb_c"] \in {0, 1}, ec["profile"] \in 0..3
  PROVE  /\ SysInv' /\ FeatureInv' /\ CallInv' /\ QueueInv' /\ CacheInv' /\ LastInv'
         /\ AliveInv' /\ SyncInv' /\ ManualInv' /\ BoostInv' /\ ShownInv'
<1>1. Sys(sys)
  BY DEF IInv, SysInv
<1>2. /\ Sys(sys') /\ sys'.ec = ec /\ sys'.window = sys.window
      /\ sys'.use_wmi = sys.use_wmi /\ sys'.cache = sys.cache
      /\ sys'.cache_only = sys.cache_only /\ sys'.dirty = sys.dirty
      /\ sys'.last = sys.last /\ sys'.ok = sys.ok /\ sys'.fuse = sys.fuse
  BY <1>1, EcAlters DEF Alters, Part
<1>3. {"rgb", "shown", "project", "has_gpu", "manual", "ctgp_on"} \subseteq EcField \ Own
  BY DEF EcField, Field, RegisterOf, Own
<1>4. /\ ec["rgb"] = sys.ec["rgb"] /\ ec["shown"] = sys.ec["shown"]
      /\ ec["project"] = sys.ec["project"] /\ ec["has_gpu"] = sys.ec["has_gpu"]
      /\ ec["manual"] = sys.ec["manual"] /\ ec["ctgp_on"] = sys.ec["ctgp_on"]
  BY <1>3
<1>5. RgbTyped(sys')
  BY <1>2, <1>4 DEF IInv, SysInv, RgbTyped
<1>6. EcTyped(sys'.ec)
  BY <1>2, <1>4 DEF IInv, SysInv, EcTyped
<1>7. /\ Asleep' = Asleep /\ Awake' = Awake /\ Bound' = Bound /\ Sound' = Sound
      /\ Coloured' = Coloured /\ Boosting' = Boosting
      /\ Modes' = Modes /\ Priority' = Priority
      /\ Supports("LIGHTBAR")' = Supports("LIGHTBAR")
      /\ \A c : Past(c)' = Past(c)
  BY DEF Asleep, Awake, Bound, Sound, Coloured, Boosting, Modes, Priority, Supports, Past
<1>8. SysInv'
  BY <1>2, <1>5, <1>6, <1>7 DEF IInv, SysInv
<1>9. FeatureInv' /\ CallInv' /\ QueueInv'
  BY QueueKept DEF IInv, FeatureInv, Bound, CallInv, Left, Suspends, Resumes, Supports
<1>10. CacheInv'
  BY <1>2, <1>7 DEF IInv, CacheInv, InRange, AppBits, Even
<1>11. LastInv'
  BY <1>2, <1>7 DEF IInv, LastInv
<1>12. AliveInv'
  BY <1>2, <1>7 DEF IInv, AliveInv, Alive
<1>13. Coherent(sys) => Coherent(sys')
  <2>1. \A f \in DOMAIN sys.cache : f \in EcField \ Own
    <3>1. \A f \in DOMAIN sys.cache : f \in Field /\ RegisterOf[f] \notin Volatile
      BY <1>1 DEF Sys, Cache
    <3>2. \A f \in Own : RegisterOf[f] \in Volatile
      BY DEF Own, RegisterOf, Volatile
    <3>3. QED
      BY <3>1, <3>2 DEF EcField
  <2>2. QED
    BY <1>2, <2>1 DEF Coherent
<1>14. SyncInv'
  BY <1>2, <1>7, <1>13 DEF IInv, SyncInv
<1>15. ManualInv'
  BY <1>2, <1>4, <1>7 DEF IInv, ManualInv
<1>16. BoostInv'
  BY <1>2, <1>4, <1>7 DEF IInv, BoostInv
<1>17. ShownInv'
  BY <1>2, <1>4, <1>7 DEF IInv, ShownInv, Honest
<1>18. QED
  BY <1>8, <1>9, <1>10, <1>11, <1>12, <1>14, <1>15, <1>16, <1>17

LEMMA HotKeyStep ==
  ASSUME IInv, NEW a \in HasKey, HotKey(a)
  PROVE  IInv'
<1> DEFINE e == sys.ec
           Pressed(level) ==
             CASE a = "fn_lock" -> [e EXCEPT !.fn_lock = 1 - @]
               [] a = "super_key_enable" -> [e EXCEPT !.super_lock = 1 - @]
               [] a = "kbd_backlight" ->
                    [e EXCEPT !.kbd_level = level, !.kbd_off = 0]
<1>1. PICK level \in {0, machine.kbd_max} : sys' = [sys EXCEPT !.ec = Pressed(level)]
  BY DEF HotKey
<1> DEFINE ec == Pressed(level)
<1>2. sys' = [sys EXCEPT !.ec = ec]
  BY <1>1
<1>3. e = [f \in EcField |-> e[f]]
  BY DEF IInv, SysInv, Sys
<1>4. a \in {"fn_lock", "super_key_enable", "kbd_backlight"}
  BY DEF HasKey
<1>5. ec = [f \in EcField |-> ec[f]] /\ \A f \in EcField \ Own : ec[f] = e[f]
  <2>1. CASE a = "fn_lock"
    <3>1. ec = [e EXCEPT !.fn_lock = 1 - @]
      BY <2>1
    <3> HIDE DEF ec, e
    <3>2. QED
      BY <1>3, <3>1 DEF Own
  <2>2. CASE a = "super_key_enable"
    <3>1. ec = [e EXCEPT !.super_lock = 1 - @]
      BY <2>2
    <3> HIDE DEF ec, e
    <3>2. QED
      BY <1>3, <3>1 DEF Own
  <2>3. CASE a = "kbd_backlight"
    <3>1. ec = [e EXCEPT !.kbd_level = level, !.kbd_off = 0]
      BY <2>3
    <3> HIDE DEF ec, e
    <3>2. QED
      BY <1>3, <3>1 DEF Own
  <2>4. QED
    BY <1>4, <2>1, <2>2, <2>3
<1>6. ec["profile"] = sys.ec["profile"] /\ ec["usb_c"] = sys.ec["usb_c"]
  BY <1>3, <1>4
<1> HIDE DEF ec
<1>7. ec["usb_c"] \in {0, 1} /\ ec["profile"] \in 0..3
  BY <1>6 DEF IInv, SysInv, EcTyped
<1>8. /\ SysInv' /\ FeatureInv' /\ CallInv' /\ QueueInv' /\ CacheInv' /\ LastInv'
      /\ AliveInv' /\ SyncInv' /\ ManualInv' /\ BoostInv' /\ ShownInv'
  BY <1>2, <1>5, <1>7, EcStep DEF HotKey
<1>9. CountInv'
  BY DEF HotKey, IInv, CountInv
<1>10. sys'.ec = ec /\ sys'.last = sys.last
  <2>1. Sys(sys)
    BY DEF IInv, SysInv
  <2>2. QED
    BY <1>2, <1>5, <2>1, EcAlters DEF Alters, Part
<1>11. AdapterInv'
  BY <1>6, <1>10 DEF HotKey, IInv, AdapterInv, Modes, Priority, Sound, Awake, Past,
                     ChargeSet, UsbCSet
<1>12. QED
  BY <1>8, <1>9, <1>11 DEF IInv

LEMMA PlugStep ==
  ASSUME IInv, Plug
  PROVE  IInv'
<1> DEFINE e == sys.ec
           ec == [e EXCEPT !.profile = ResetEC.profile, !.usb_c = ResetEC.usb_c]
<1>1. e = [f \in EcField |-> e[f]] /\ Shaped(sys)
  BY DEF IInv, SysInv, Sys
<1>2. sys' = [sys EXCEPT !.ec = ec]
  BY <1>1 DEF Plug, Shaped, Part
<1>3. ec = [f \in EcField |-> ec[f]] /\ \A f \in EcField \ Own : ec[f] = e[f]
  BY <1>1 DEF Own
<1>4. ec["profile"] = ResetEC["profile"] /\ ec["usb_c"] = ResetEC["usb_c"]
  BY <1>1 DEF EcField, Field, RegisterOf
<1>5. ec["usb_c"] \in {0, 1} /\ ec["profile"] \in 0..3
  BY <1>4, EcLemma DEF EcTyped
<1> HIDE DEF ec
<1>6. UNCHANGED <<machine, features, phase, pc, queue, lost>>
  BY DEF Plug
<1>7. /\ SysInv' /\ FeatureInv' /\ CallInv' /\ QueueInv' /\ CacheInv' /\ LastInv'
      /\ AliveInv' /\ SyncInv' /\ ManualInv' /\ BoostInv' /\ ShownInv'
  BY <1>2, <1>3, <1>5, <1>6, EcStep
<1>8. CountInv' /\ AdapterInv'
  BY DEF Plug, IInv, CountInv, AdapterInv
<1>9. QED
  BY <1>7, <1>8 DEF IInv
-----------------------------------------------------------------------------
(* The phases of a suspend                                                 *)

LEMMA SuspendBegins ==
  ASSUME IInv, Suspend
  PROVE  IInv'
<1>1. /\ phase = "on" /\ phase' = "suspend" /\ DOMAIN queue = {}
      /\ pc' = {c \in DOMAIN SuspendCalls : Suspends(c)}
      /\ UNCHANGED <<machine, features, sys, queue, pending, lost, requests, faults,
                     sleeps, unloads>>
  BY DEF Suspend
<1>2. /\ Asleep' = Asleep /\ Awake' = Awake /\ Bound' = Bound /\ Sound' = Sound
      /\ Coloured' = Coloured /\ Boosting' = Boosting
      /\ Modes' = Modes /\ Priority' = Priority
      /\ Supports("LIGHTBAR")' = Supports("LIGHTBAR") /\ sys' = sys
      /\ \A c : Past(c) /\ Past(c)'
  BY <1>1 DEF Asleep, Awake, Bound, Sound, Coloured, Boosting, Modes, Priority, Supports,
              Past
<1>3. SysInv' /\ CountInv' /\ FeatureInv'
  BY <1>1, <1>2 DEF IInv, SysInv, CountInv, FeatureInv, Phase
<1>4. CallInv' /\ QueueInv'
  BY <1>1 DEF CallInv, Left, Suspends, Supports, QueueInv
<1>5. CacheInv' /\ LastInv'
  BY <1>1, <1>2 DEF IInv, CacheInv, LastInv
<1>6. AliveInv' /\ SyncInv'
  BY <1>1, <1>2 DEF IInv, AliveInv, SyncInv
<1>7. ManualInv' /\ ShownInv'
  BY <1>1, <1>2 DEF IInv, ManualInv, ShownInv
<1>8. BoostInv'
  <2>1. Boosting => "ctgp" \in pc'
    BY <1>1 DEF Boosting, Suspends, Supports, SuspendCalls, SuspendNeeds
  <2>2. QED
    BY <1>1, <1>2, <2>1 DEF IInv, BoostInv
<1>9. AdapterInv'
  BY <1>1, <1>2 DEF IInv, AdapterInv
<1>10. QED
  BY <1>3, <1>4, <1>5, <1>6, <1>7, <1>8, <1>9 DEF IInv

LEMMA SwitchAlters ==
  ASSUME NEW s, Sys(s), NEW only \in BOOLEAN, NEW dirty \in BOOLEAN
  PROVE  LET t == [s EXCEPT !.cache_only = only, !.dirty = dirty]
         IN /\ Sys(t) /\ Alters(s, t, {"cache_only", "dirty"})
            /\ t.cache_only = only /\ t.dirty = dirty
<1> DEFINE t == [s EXCEPT !.cache_only = only, !.dirty = dirty]
<1>1. Shaped(s)
  BY DEF Sys
<1>2. /\ Shaped(t) /\ t.cache_only = only /\ t.dirty = dirty
      /\ \A x \in Part \ {"cache_only", "dirty"} : t[x] = s[x]
  BY <1>1 DEF Shaped, Part
<1> HIDE DEF t
<1>3. Sys(t)
  BY <1>2 DEF Sys, Part
<1>4. QED
  BY <1>2, <1>3 DEF Alters, t

\* Regmap is told to serve from the cache, or no longer to.
LEMMA SwitchStep ==
  ASSUME IInv, UNCHANGED <<machine, features>>, Bound, Bound',
         phase # "probing", phase' # "probing", "uneven" \notin lost' => "uneven" \notin lost,
         NEW only \in BOOLEAN, NEW dirty \in BOOLEAN, Asleep' = only,
         sys' = [sys EXCEPT !.cache_only = only, !.dirty = dirty]
  PROVE  /\ SysInv' /\ FeatureInv' /\ CacheInv' /\ LastInv'
         /\ sys'.ec = sys.ec /\ sys'.cache = sys.cache /\ sys'.dirty = dirty
<1>1. Sys(sys)
  BY DEF IInv, SysInv
<1>2. /\ Sys(sys') /\ sys'.ec = sys.ec /\ sys'.window = sys.window
      /\ sys'.use_wmi = sys.use_wmi /\ sys'.cache = sys.cache
      /\ sys'.cache_only = only /\ sys'.dirty = dirty
      /\ sys'.last = sys.last /\ sys'.ok = sys.ok /\ sys'.fuse = sys.fuse
  <2>1. /\ Sys(sys') /\ Alters(sys, sys', {"cache_only", "dirty"})
        /\ sys'.cache_only = only /\ sys'.dirty = dirty
    BY <1>1, SwitchAlters
  <2>2. QED
    BY <2>1 DEF Alters, Part
<1>3. /\ Coloured' = Coloured /\ Boosting' = Boosting
      /\ Modes' = Modes /\ Priority' = Priority
      /\ Supports("LIGHTBAR")' = Supports("LIGHTBAR")
      /\ \A c : Past(c) /\ Past(c)'
  BY DEF Coloured, Boosting, Modes, Priority, Supports, Past
<1>4. SysInv'
  BY <1>2 DEF IInv, SysInv, RgbTyped
<1>5. FeatureInv' /\ LastInv'
  BY <1>2, <1>3 DEF IInv, FeatureInv, LastInv
<1>6. CacheInv'
  BY <1>2, <1>3 DEF IInv, CacheInv, InRange, AppBits, Even
<1>7. QED
  BY <1>2, <1>4, <1>5, <1>6

LEMMA SuspendEnds ==
  ASSUME IInv, SuspendDone
  PROVE  IInv'
<1>1. /\ phase = "suspend" /\ pc = {} /\ phase' = "quiet"
      /\ sys' = [sys EXCEPT !.cache_only = TRUE, !.dirty = TRUE]
      /\ UNCHANGED <<machine, features, pc, queue, pending, lost, requests, faults,
                     sleeps, unloads>>
  BY DEF SuspendDone
<1>2. Asleep' = TRUE /\ Awake' = FALSE /\ Sound' = FALSE /\ Bound /\ Bound'
  BY <1>1 DEF Asleep, Awake, Bound, Sound
<1>3. /\ SysInv' /\ FeatureInv' /\ CacheInv' /\ LastInv'
      /\ sys'.ec = sys.ec /\ sys'.cache = sys.cache /\ sys'.dirty = TRUE
  BY <1>1, <1>2, SwitchStep
<1>4. CountInv' /\ CallInv' /\ QueueInv'
  BY <1>1, QueueKept DEF IInv, CountInv, CallInv, Phase
<1>5. AliveInv' /\ SyncInv' /\ ManualInv' /\ ShownInv' /\ AdapterInv'
  BY <1>1, <1>2, <1>3 DEF AliveInv, SyncInv, ManualInv, ShownInv, AdapterInv
<1>6. BoostInv'
  <2>1. ASSUME Boosting, lost \subseteq Minor
        PROVE  sys.ec["ctgp_on"] = 0
    <3>1. Coherent(sys) /\ Bound /\ Past("ctgp")
      BY <1>1, <2>1, SoundLemma DEF Sound, Awake, Past
    <3>2. "ctgp_on" \in DOMAIN sys.cache
      BY <2>1, <3>1 DEF IInv, CacheInv
    <3>3. sys.cache["ctgp_on"] = 0
      BY <1>1, <2>1 DEF IInv, BoostInv
    <3>4. QED
      BY <3>1, <3>2, <3>3 DEF Coherent
  <2>2. QED
    BY <1>1, <1>3, <2>1 DEF BoostInv, Boosting
<1>7. QED
  BY <1>3, <1>4, <1>5, <1>6 DEF IInv

LEMMA ResumeBegins ==
  ASSUME IInv, Resume
  PROVE  IInv'
<1>1. /\ phase \in {"quiet", "woken"} /\ phase' = "resume"
      /\ pc' = {c \in DOMAIN ResumeCalls : Resumes(c)}
      /\ sys' = [sys EXCEPT !.cache_only = FALSE]
      /\ lost' = lost \ {"adapter"}
      /\ UNCHANGED <<machine, features, queue, pending, requests, faults, sleeps,
                     unloads>>
  BY DEF Resume
<1>2. Asleep /\ Asleep' = FALSE /\ Awake' = FALSE /\ Sound' = FALSE /\ Bound /\ Bound'
  BY <1>1 DEF Asleep, Awake, Bound, Sound
<1>3. Sys(sys) /\ sys.dirty = TRUE
  BY <1>2 DEF IInv, SysInv, SyncInv
<1>4. sys' = [sys EXCEPT !.cache_only = FALSE, !.dirty = TRUE]
  BY <1>1, <1>3 DEF Sys, Shaped, Part
<1>5. /\ SysInv' /\ FeatureInv' /\ CacheInv' /\ LastInv'
      /\ sys'.ec = sys.ec /\ sys'.cache = sys.cache /\ sys'.dirty = TRUE
  BY <1>1, <1>2, <1>4, SwitchStep
<1>6. /\ {"transport", "sync"} \subseteq pc'
      /\ Boosting => "ctgp" \in pc'
      /\ Modes => "battery" \in pc'
      /\ Priority => "usb_c" \in pc'
      /\ "KEYBOARD_BACKLIGHT" \in features => "kbd_led" \in pc'
  BY <1>1 DEF ResumeCalls, Resumes, Suspends, SuspendNeeds, Supports, Boosting,
     Modes, Priority
<1>7. Coloured => "kbd_led" \in pc'
  BY <1>2, <1>6, FeatureLemma DEF Coloured, IInv
<1>8. CountInv'
  BY <1>1 DEF IInv, CountInv, Phase
<1>9. CallInv' /\ QueueInv'
  BY <1>1, QueueKept DEF IInv, CallInv, Left, Resumes, Suspends, Supports
<1>10. AliveInv' /\ SyncInv' /\ ManualInv'
  BY <1>1, <1>2, <1>5, <1>6 DEF AliveInv, SyncInv, ManualInv
<1>11. BoostInv' /\ ShownInv'
  BY <1>1, <1>2, <1>6, <1>7 DEF BoostInv, Boosting, ShownInv, Coloured
<1>12. AdapterInv'
  BY <1>1, <1>2, <1>6 DEF AdapterInv, Modes, Priority
<1>13. QED
  BY <1>5, <1>8, <1>9, <1>10, <1>11, <1>12 DEF IInv

LEMMA SleepStep ==
  ASSUME IInv, Sleep
  PROVE  IInv'
<1>1. /\ phase = "quiet" /\ phase' = "woken" /\ sleeps' = sleeps + 1
      /\ UNCHANGED <<machine, features, pc, queue, pending, lost, requests, faults,
                     unloads>>
  BY DEF Sleep
<1>2. PICK ec \in {sys.ec, ResetEC},
           window \in {sys.window} \cup (IF machine.fallback THEN {FALSE} ELSE {}) :
        sys' = [sys EXCEPT !.ec = ec, !.window = window]
  BY DEF Sleep
<1>3. Sys(sys)
  BY DEF IInv, SysInv
<1>4. /\ ec = [f \in EcField |-> ec[f]] /\ EcTyped(ec) /\ ec["rgb"] \in Int
      /\ window \in BOOLEAN /\ (machine.fallback = FALSE => window = TRUE)
  <2>1. /\ sys.ec = [f \in EcField |-> sys.ec[f]] /\ EcTyped(sys.ec)
        /\ sys.ec["rgb"] \in Int
        /\ sys.window \in BOOLEAN /\ (machine.fallback = FALSE => sys.window = TRUE)
    BY DEF IInv, SysInv, Sys, RgbTyped
  <2>2. ec = ResetEC => /\ ec = [f \in EcField |-> ec[f]] /\ EcTyped(ec)
                        /\ ec["rgb"] \in Int
    BY EcLemma
  <2>3. /\ ec = [f \in EcField |-> ec[f]] /\ EcTyped(ec) /\ ec["rgb"] \in Int
    BY <2>1, <2>2
  <2>4. window \in BOOLEAN /\ (machine.fallback = FALSE => window = TRUE)
    BY <2>1
  <2>5. QED
    BY <2>3, <2>4
<1>5. /\ Shaped(sys') /\ sys'.ec = ec /\ sys'.window = window
      /\ \A x \in Part \ {"ec", "window"} : sys'[x] = sys[x]
  BY <1>2, <1>3 DEF Sys, Shaped, Part
<1>6. Sys(sys') /\ RgbTyped(sys')
  <2>1. /\ sys'.cache = sys.cache /\ sys'.cache_only = sys.cache_only
        /\ sys'.dirty = sys.dirty /\ sys'.last = sys.last /\ sys'.ok = sys.ok
        /\ sys'.fuse = sys.fuse /\ sys'.use_wmi = sys.use_wmi
    BY <1>5 DEF Part
  <2>2. Sys(sys')
    BY <1>3, <1>4, <1>5, <2>1 DEF Sys
  <2>3. QED
    BY <1>4, <1>5, <2>1, <2>2 DEF IInv, SysInv, RgbTyped
<1>7. /\ sys'.cache = sys.cache /\ sys'.cache_only = sys.cache_only
      /\ sys'.last = sys.last /\ sys'.dirty = sys.dirty
      /\ sys'.ok = sys.ok /\ sys'.fuse = sys.fuse
  BY <1>5 DEF Part
<1>8. /\ Asleep /\ Asleep' /\ Awake' = FALSE /\ Sound' = FALSE /\ Bound /\ Bound'
      /\ Coloured' = Coloured /\ Boosting' = Boosting
      /\ Modes' = Modes /\ Priority' = Priority
      /\ Supports("LIGHTBAR")' = Supports("LIGHTBAR")
      /\ \A c : Past(c) /\ Past(c)'
  BY <1>1 DEF Asleep, Awake, Bound, Sound, Coloured, Boosting, Modes, Priority, Supports,
              Past
<1>9. SysInv'
  BY <1>1, <1>4, <1>5, <1>6, <1>7, <1>8 DEF IInv, SysInv
<1>10. CountInv' /\ FeatureInv' /\ CallInv' /\ QueueInv' /\ LastInv'
  BY <1>1, <1>7, <1>8, QueueKept DEF IInv, CountInv, FeatureInv, CallInv, LastInv, Phase
<1>11. CacheInv'
  BY <1>1, <1>7, <1>8 DEF IInv, CacheInv, InRange, AppBits, Even
<1>12. AliveInv' /\ SyncInv' /\ ManualInv'
  BY <1>1, <1>7, <1>8 DEF IInv, AliveInv, SyncInv, ManualInv
<1>13. BoostInv' /\ ShownInv' /\ AdapterInv'
  BY <1>1, <1>8 DEF BoostInv, ShownInv, AdapterInv
<1>14. QED
  BY <1>9, <1>10, <1>11, <1>12, <1>13 DEF IInv
-----------------------------------------------------------------------------
(* The handlers                                                            *)

LEMMA ArmedLemma ==
  ASSUME IInv, NEW n \in Nat
  PROVE  /\ Sys(Armed(n)) /\ Armed(n).ok = TRUE /\ Armed(n).fuse = n
         /\ Armed(n).ec = sys.ec /\ Armed(n).cache = sys.cache
         /\ Armed(n).last = sys.last /\ Armed(n).window = sys.window
         /\ Armed(n).use_wmi = sys.use_wmi /\ Armed(n).dirty = sys.dirty
         /\ Armed(n).cache_only = sys.cache_only
<1>1. Sys(sys) /\ sys.ok = TRUE
  BY DEF IInv, SysInv
<1>2. Armed(n) = Begins(sys, n)
  BY DEF Armed, Begins
<1>3. /\ Sys(Begins(sys, n)) /\ Begins(sys, n).ok = TRUE /\ Begins(sys, n).fuse = n
      /\ Alters(sys, Begins(sys, n), {"fuse"})
  BY <1>1, BeginLemma
<1>4. QED
  BY <1>2, <1>3 DEF Alters, Part

\* What is said of the EC and the cache is the same before and after.
Same(s, t) ==
  /\ Alive(s) = Alive(t) /\ Coherent(s) = Coherent(t) /\ Glows(s) = Glows(t)
  /\ InRange(s) = InRange(t) /\ RgbTyped(s) = RgbTyped(t) /\ Even(s) = Even(t)
  /\ AppBits(s) = AppBits(t) /\ ChargeSet(s) = ChargeSet(t) /\ UsbCSet(s) = UsbCSet(t)
  /\ Writing(s) = Writing(t) /\ Honest(s) = Honest(t)

LEMMA SameLemma ==
  ASSUME NEW s, NEW t, s.ec = t.ec, s.cache = t.cache, s.last = t.last,
         s.window = t.window, s.use_wmi = t.use_wmi, s.cache_only = t.cache_only
  PROVE  Same(s, t)
BY DEF Same, Alive, Coherent, Glows, InRange, RgbTyped, Even, AppBits, ChargeSet,
       UsbCSet, Writing, Honest

LEMMA FuseLemma ==
  ASSUME NEW k \in Nat, NEW n \in Fuses(k)
  PROVE  n \in Nat
BY DEF Fuses

LEMMA EndsLemma ==
  ASSUME IInv, NEW n \in Nat, NEW done, Ends(n, done), NEW F, NEW L,
         Touches(Armed(n), done, F, L)
  PROVE  /\ Stepped(sys, sys', F, L, done.ok) /\ done.ok \in BOOLEAN
         /\ n = 0 /\ Asleep = FALSE => done.ok = TRUE
         /\ sys'.ec = done.ec /\ sys'.cache = done.cache /\ sys'.last = done.last
         /\ Same(done, sys') /\ Same(Armed(n), sys)
         /\ faults' \in Nat /\ (faults' = 0 => n = 0 /\ faults = 0)
<1>1. Sys(sys) /\ sys.ok = TRUE /\ sys.cache_only = Asleep /\ faults \in Nat
  BY DEF IInv, SysInv, CountInv
<1>2. Armed(n) = Begins(sys, n) /\ sys' = Ended(done)
  BY DEF Armed, Begins, Ends, Ended
<1>3. Touches(Begins(sys, n), done, F, L)
  BY <1>2
<1>4. /\ Stepped(sys, Ended(done), F, L, done.ok)
      /\ n = 0 /\ sys.cache_only = FALSE => done.ok = TRUE
      /\ Ended(done).ec = done.ec /\ Ended(done).cache = done.cache
      /\ Ended(done).last = done.last
  BY <1>1, <1>3, StepLemma
<1>5. Sys(done) /\ done.ok \in BOOLEAN
  BY DEF Touches, Sys
<1>6. Alters(done, Ended(done), {"ok", "fuse"})
  BY <1>5, EndLemma
<1>7. Same(done, sys')
  BY <1>2, <1>6, SameLemma DEF Alters, Part
<1>8. Same(Armed(n), sys)
  BY ArmedLemma, SameLemma
<1>9. faults' \in Nat /\ (faults' = 0 => n = 0 /\ faults = 0)
  BY <1>1 DEF Ends, Smaller
<1>10. QED
  BY <1>1, <1>2, <1>4, <1>5, <1>7, <1>8, <1>9

\* An attribute is not offered before the driver has taken the EC over.
LEMMA OfferedLemma ==
  ASSUME IInv, NEW a, Offered(a)
  PROVE  /\ phase \in {"on", "probing"} /\ Past("ec")
         /\ a = "kbd_backlight" => Past("kbd_led")
<1>1. CASE phase = "on"
  BY <1>1 DEF Past
<1>2. CASE phase = "probing"
  <2>1. a \in DOMAIN RegisteredBy /\ RegisteredBy[a] \in DOMAIN ProbeCalls \ pc
    BY <1>2 DEF Offered, RegisteredBy, ProbeCalls
  <2>2. \A d \in DOMAIN ProbeCalls : ProbeCalls["ec"] <= ProbeCalls[d]
    BY DEF ProbeCalls
  <2>3. "ec" \notin pc
    BY <1>2, <2>1, <2>2 DEF IInv, CallInv, Left
  <2>4. a = "kbd_backlight" => RegisteredBy[a] = "kbd_led"
    BY DEF RegisteredBy
  <2>5. QED
    BY <1>2, <2>1, <2>3, <2>4 DEF Past
<1>3. QED
  BY <1>1, <1>2 DEF Offered

LEMMA SetsStep ==
  ASSUME IInv, NEW a \in Setting, NEW v \in Values[a], Sets(a, v), Offered(a),
         requests' \in Nat,
         UNCHANGED <<machine, features, phase, pc, pending, sleeps, unloads>>
  PROVE  /\ SysInv' /\ CountInv' /\ FeatureInv' /\ CallInv' /\ CacheInv' /\ LastInv'
         /\ AliveInv' /\ SyncInv' /\ ManualInv' /\ BoostInv' /\ ShownInv' /\ AdapterInv'
<1> DEFINE Done(n) == StoreOf(Armed(n), a, v)
           uneven == IF a \in {"rainbow_animation", "lightbar"} THEN {"uneven"} ELSE {}
<1>1. PICK n \in Fuses(8) :
        /\ Ends(n, Done(n))
        /\ lost' = IF Done(n).ok \/ a \in Atomic THEN lost
                   ELSE lost \cup {a} \cup uneven
  BY DEF Sets
<1> DEFINE s == Armed(n)
           t == Done(n)
           F == StoreFields
           L == {"charge", "usb_c"}
<1>2. /\ phase \in {"on", "probing"} /\ Past("ec")
      /\ a = "kbd_backlight" => Past("kbd_led")
      /\ UNCHANGED <<machine, features, phase, pc, pending, sleeps, unloads>>
  BY OfferedLemma
<1>3. n \in Nat
  BY FuseLemma
<1>4. Sys(s) /\ s.ok = TRUE /\ s.cache = sys.cache /\ s.last = sys.last /\ s.ec = sys.ec
      /\ s.cache_only = sys.cache_only
  BY <1>3, ArmedLemma
<1>5. Stores(s, t, a)
  BY <1>4, StoreLemma
<1> HIDE DEF s, t, Done
<1>6. Touches(s, t, F, L)
  BY <1>5 DEF Stores
<1>7. /\ Stepped(sys, sys', F, L, t.ok) /\ t.ok \in BOOLEAN
      /\ n = 0 /\ Asleep = FALSE => t.ok = TRUE
      /\ sys'.ec = t.ec /\ sys'.cache = t.cache /\ sys'.last = t.last
      /\ Same(t, sys') /\ Same(s, sys)
      /\ faults' \in Nat /\ (faults' = 0 => n = 0 /\ faults = 0)
  <2>1. Ends(n, t) /\ Touches(Armed(n), t, F, L)
    BY <1>1, <1>6 DEF t, s
  <2>2. QED
    BY <1>3, <2>1, EndsLemma DEF s
<1>8. /\ Asleep = FALSE /\ Asleep' = FALSE /\ Awake /\ Awake' /\ Bound /\ Bound'
      /\ Coloured' = Coloured /\ Boosting' = Boosting
      /\ Modes' = Modes /\ Priority' = Priority
      /\ sys.cache_only = FALSE
      /\ \A c : Past(c)' = Past(c)
  <2>1. /\ Asleep = FALSE /\ Asleep' = FALSE /\ Awake /\ Awake' /\ Bound /\ Bound'
        /\ Coloured' = Coloured /\ Boosting' = Boosting
        /\ Modes' = Modes /\ Priority' = Priority
        /\ \A c : Past(c)' = Past(c)
    BY <1>2 DEF Asleep, Awake, Bound, Coloured, Boosting, Modes, Priority, Past
  <2>2. sys.cache_only = FALSE
    BY <2>1 DEF IInv, SysInv
  <2>3. QED
    BY <2>1, <2>2
<1>9. lost' = IF t.ok = TRUE \/ a \in Atomic THEN lost ELSE lost \cup {a} \cup uneven
  BY <1>1, <1>7 DEF t
<1>10. a \in Everything /\ a \notin Minor /\ a # "manual" /\ a # "adapter"
  BY DEF Everything, Minor, Setting, FeatureOf
<1>11. lost \subseteq lost' /\ lost' \subseteq Everything \cup Minor
  BY <1>9, <1>10 DEF IInv, CountInv, Minor
<1>12. lost' \subseteq Minor => lost' = lost /\ (t.ok = TRUE \/ a \in Atomic)
  BY <1>9, <1>10
<1>13. "kbd_backlight" \notin Atomic /\ "rainbow_animation" \notin Atomic /\ "lightbar" \notin Atomic
  BY DEF Atomic
<1>14. Sound' => Sound /\ Alive(sys) /\ Coherent(sys) /\ (t.ok = TRUE \/ a \in Atomic)
  <2>1. Sound' => Sound
    BY <1>8, <1>12 DEF Sound
  <2>2. QED
    BY <1>2, <1>12, <2>1, SoundLemma DEF Sound
<1>15. Respects(F)
  <2>1. F \cap Fixed = {}
    BY DEF StoreFields, Plain, LightFields, ColourFields, KbdFields, Fixed
  <2>2. RgbTyped(sys')
    BY <1>5, <1>7 DEF Stores, Same, IInv, SysInv
  <2>3. sys'.ec["usb_c"] \in {0, 1} /\ sys'.ec["profile"] \in 0..3
    BY <1>4, <1>5, <1>7 DEF Stores, IInv, SysInv, EcTyped
  <2>4. Coloured /\ Past("kbd_led") => InRange(sys')
    <3>1. Coloured /\ Past("kbd_led") => InRange(sys)
      BY <1>8 DEF IInv, CacheInv
    <3>2. InRange(s) => InRange(t)
      BY <1>5 DEF Stores, InRange, Touches
    <3>3. QED
      BY <1>7, <3>1, <3>2 DEF Same
  <2>5. Boosting /\ Past("ctgp") => sys'.cache["ctgp_general"] = 1
    <3>1. "ctgp_general" \notin F
      BY DEF StoreFields, Plain, LightFields, ColourFields, KbdFields
    <3>2. QED
      BY <1>7, <1>8, <3>1 DEF Stepped, IInv, CacheInv
  <2>6. Supports("LIGHTBAR") /\ Past("led")
          => AppBits(sys') /\ ("uneven" \notin lost' => Even(sys'))
    <3>1. Supports("LIGHTBAR") /\ Past("led")
            => /\ LightFields \subseteq DOMAIN s.cache /\ AppBits(s)
               /\ "uneven" \notin lost => Even(s)
      BY <1>4, <1>7, <1>8 DEF IInv, CacheInv, Same
    <3>2. "uneven" \notin lost' => /\ "uneven" \notin lost
                                   /\ t.ok = TRUE \/ a \notin {"rainbow_animation", "lightbar"}
      BY <1>9, <1>11, <1>13
    <3>3. Supports("LIGHTBAR") /\ Past("led")
            => AppBits(t) /\ ("uneven" \notin lost' => Even(t))
      BY <1>5, <3>1, <3>2 DEF Stores
    <3>4. QED
      BY <1>7, <3>3 DEF Same
  <2>7. /\ Modes /\ Past("battery") => sys'.last["charge"] \in DOMAIN ChargingProfile
        /\ Priority /\ Past("usb_c")
             => sys'.last["usb_c"] \in DOMAIN usb_c_power_priority_value
    BY <1>4, <1>5, <1>7, <1>8 DEF Stores, IInv, LastInv
  <2>8. QED
    BY <2>1, <2>2, <2>3, <2>4, <2>5, <2>6, <2>7 DEF Respects
<1> HIDE DEF F, L
<1>16. /\ SysInv' /\ FeatureInv' /\ CacheInv' /\ LastInv'
       /\ Alive(sys') = Alive(sys) /\ sys'.ec["manual"] = sys.ec["manual"]
  BY <1>2, <1>7, <1>8, <1>15, BoundStep
<1>17. CountInv'
  BY <1>2, <1>7, <1>11 DEF IInv, CountInv
<1>18. CallInv'
  BY <1>2 DEF IInv, CallInv, Left, Suspends, Resumes, Supports
<1>19. AliveInv'
  <2>1. "manual" \notin lost => "manual" \notin lost'
    BY <1>9, <1>10
  <2>2. QED
    BY <1>2, <1>8, <1>11, <1>16, <2>1 DEF IInv, AliveInv
<1>20. Sound' => Coherent(sys')
  <2>1. Sound' /\ t.ok = TRUE => Coherent(sys')
    BY <1>7, <1>8, <1>14 DEF Stepped
  <2>2. Sound' /\ a \in Atomic => Coherent(sys')
    BY <1>5, <1>7, <1>14 DEF Stores, Same
  <2>3. QED
    BY <1>14, <2>1, <2>2
<1>21. SyncInv'
  BY <1>2, <1>8, <1>20 DEF SyncInv, Past
<1>22. ManualInv'
  BY <1>2, <1>8, <1>11, <1>16 DEF IInv, ManualInv
<1>23. BoostInv'
  <2>1. ASSUME Boosting, Past("ctgp"), lost' \subseteq Minor
        PROVE  sys'.cache["ctgp_on"] = 1
    <3>1. sys.cache["ctgp_on"] = 1
      BY <1>2, <1>12, <2>1 DEF IInv, BoostInv
    <3>2. "ctgp_on" \in DOMAIN sys.cache
      BY <1>8, <2>1 DEF IInv, CacheInv
    <3>3. "ctgp_on" \notin F
      BY DEF F, StoreFields, Plain, LightFields, ColourFields, KbdFields
    <3>4. QED
      BY <1>7, <3>1, <3>2, <3>3 DEF Stepped
  <2>2. QED
    BY <1>2, <1>8, <2>1 DEF BoostInv
<1>24. ShownInv'
  <2>1. ASSUME Coloured, Past("kbd_led"), lost' \subseteq {"uneven", "adapter"}
        PROVE  sys'.ec["shown"] = sys'.ec["rgb"]
    <3>1. lost' \subseteq Minor /\ lost \subseteq {"uneven", "adapter"} /\ Sound'
      BY <1>8, <1>11, <2>1 DEF Minor, Sound
    <3>2. sys.ec["shown"] = sys.ec["rgb"] /\ InRange(sys) /\ Coherent(sys) /\ Alive(sys)
      BY <1>8, <1>14, <2>1, <3>1 DEF IInv, ShownInv, CacheInv
    <3>3. Glows(sys) /\ Writing(sys)
      BY <1>8, <3>2 DEF Glows, InRange, Coherent, Writing
    <3>4. a = "kbd_backlight" => t.ok = TRUE
      BY <1>12, <1>13, <3>1
    <3>5. machine.single = FALSE
      BY <2>1 DEF Coloured
    <3>6. Glows(t)
      BY <1>5, <1>7, <3>2, <3>3, <3>4, <3>5 DEF Stores, Same
    <3>7. QED
      BY <1>7, <3>6 DEF Same, Glows
  <2>2. ASSUME Coloured, phase = "probing", "kbd_led" \in pc, "colour" \notin lost'
        PROVE  Honest(sys')
    <3>1. Honest(sys) /\ a # "kbd_backlight"
      BY <1>2, <1>11, <2>2 DEF IInv, ShownInv, Past
    <3>2. QED
      BY <1>5, <1>7, <3>1 DEF Stores, Same
  <2>3. QED
    BY <1>2, <1>8, <2>1, <2>2 DEF ShownInv
<1>25. AdapterInv'
  <2>1. ASSUME pending = FALSE, "adapter" \notin lost', Sound'
        PROVE  /\ Modes /\ Past("battery") => ChargeSet(sys')
               /\ Priority /\ Past("usb_c") => UsbCSet(sys')
    <3>1. Writing(s) /\ Sound /\ "adapter" \notin lost
      BY <1>7, <1>8, <1>11, <1>14, <2>1 DEF Writing, Same
    <3>2. /\ Modes /\ Past("battery") => ChargeSet(sys)
          /\ Priority /\ Past("usb_c") => UsbCSet(sys)
      BY <2>1, <3>1 DEF IInv, AdapterInv
    <3>3. (ChargeSet(s) => ChargeSet(t)) /\ (UsbCSet(s) => UsbCSet(t))
      BY <1>4, <1>5, <3>1 DEF Stores
    <3>4. QED
      BY <1>7, <3>2, <3>3 DEF Same
  <2>2. QED
    BY <1>2, <1>8, <2>1 DEF AdapterInv
<1>26. QED
  BY <1>16, <1>17, <1>18, <1>19, <1>21, <1>22, <1>23, <1>24, <1>25

\* A write to an attribute, of a process or of the worker of a LED.
LEMMA StoreStep ==
  ASSUME IInv, NEW a \in Setting, NEW v \in Values[a], Store(a, v)
  PROVE  IInv'
<1>1. /\ Offered(a) /\ requests' \in Nat
      /\ UNCHANGED <<machine, features, phase, pc, pending, sleeps, unloads>>
  BY DEF Store, IInv, CountInv
<1>2. CASE a \notin Led
  <2>1. Sets(a, v) /\ queue' = queue
    BY <1>2 DEF Store
  <2>2. QueueInv'
    BY <1>1, <2>1, QueueKept DEF IInv
  <2>3. /\ SysInv' /\ CountInv' /\ FeatureInv' /\ CallInv' /\ CacheInv' /\ LastInv'
        /\ AliveInv' /\ SyncInv' /\ ManualInv' /\ BoostInv' /\ ShownInv' /\ AdapterInv'
    BY <1>1, <2>1, SetsStep
  <2>4. QED
    BY <2>2, <2>3 DEF IInv
<1>3. CASE a \in Led
  <2>1. queue' = Over([led \in {a} |-> v], queue) /\ UNCHANGED <<sys, lost, faults>>
    BY <1>3 DEF Store
  <2>2. QueueInv'
    <3>1. DOMAIN queue' = {a} \cup DOMAIN queue
      BY <2>1 DEF Over
    <3>2. \A led \in DOMAIN queue' : queue'[led] = IF led = a THEN v ELSE queue[led]
      BY <2>1 DEF Over
    <3>3. \A led \in DOMAIN queue' : led = a \/ led \in DOMAIN queue
      BY <3>1
    <3>4. QED
      BY <1>1, <1>3, <3>2, <3>3 DEF IInv, QueueInv, Offered, Supports
  <2>3. CountInv'
    BY <1>1, <2>1 DEF IInv, CountInv
  <2>4. /\ SysInv' /\ FeatureInv' /\ CallInv' /\ CacheInv' /\ LastInv'
        /\ AliveInv' /\ SyncInv' /\ ManualInv' /\ BoostInv' /\ ShownInv' /\ AdapterInv'
    BY <1>1, <2>1, RestStays DEF IInv
  <2>5. QED
    BY <2>2, <2>3, <2>4 DEF IInv
<1>4. QED
  BY <1>2, <1>3

LEMMA LedWorkStep ==
  ASSUME IInv, NEW a, LedWork(a)
  PROVE  IInv'
<1>1. /\ a \in DOMAIN queue /\ Sets(a, queue[a])
      /\ queue' = [led \in DOMAIN queue \ {a} |-> queue[led]]
      /\ UNCHANGED <<machine, features, phase, pc, pending, requests, sleeps, unloads>>
  BY DEF LedWork
<1>2. a \in Led /\ queue[a] \in Values[a] /\ Offered(a)
  BY <1>1 DEF IInv, QueueInv
<1>3. a \in Setting /\ requests' \in Nat
  BY <1>1, <1>2 DEF Led, Setting, FeatureOf, IInv, CountInv
<1>4. QueueInv'
  BY <1>1, QueueKept DEF IInv
<1>5. /\ SysInv' /\ CountInv' /\ FeatureInv' /\ CallInv' /\ CacheInv' /\ LastInv'
      /\ AliveInv' /\ SyncInv' /\ ManualInv' /\ BoostInv' /\ ShownInv' /\ AdapterInv'
  BY <1>1, <1>2, <1>3, SetsStep
<1>6. QED
  BY <1>4, <1>5 DEF IInv

\* A handler that leaves the colour, the lightbar and the copies of the two
\* settings alone that the adapter resets.
LEMMA QuietRespects ==
  ASSUME IInv, Bound, \A c : Past(c),
         NEW F, NEW L, NEW ok, Stepped(sys, sys', F, L, ok),
         F \cap (LightFields \cup {"rgb"} \cup Fixed) = {},
         "uneven" \in lost => "uneven" \in lost',
         Boosting => sys'.cache["ctgp_general"] = 1,
         sys'.ec["usb_c"] \in {0, 1}, sys'.ec["profile"] \in 0..3,
         Modes => sys'.last["charge"] = sys.last["charge"],
         Priority => sys'.last["usb_c"] = sys.last["usb_c"]
  PROVE  Respects(F)
<1>1. /\ DOMAIN sys.cache \subseteq DOMAIN sys'.cache
      /\ \A f \in LightFields \cup {"rgb"} : f \in DOMAIN sys'.cache
           => f \in DOMAIN sys.cache /\ sys'.cache[f] = sys.cache[f]
      /\ sys'.ec["rgb"] = sys.ec["rgb"]
  BY PlainFields DEF Stepped
<1>2. RgbTyped(sys')
  BY <1>1 DEF IInv, SysInv, RgbTyped
<1>3. Coloured => InRange(sys')
  BY <1>1 DEF IInv, CacheInv, InRange
<1>4. ASSUME Supports("LIGHTBAR")
      PROVE  AppBits(sys') /\ ("uneven" \notin lost' => Even(sys'))
  <2>1. /\ LightFields \subseteq DOMAIN sys.cache /\ AppBits(sys)
        /\ "uneven" \notin lost => Even(sys)
    BY <1>4 DEF IInv, CacheInv
  <2>2. \A f \in LightFields : sys'.cache[f] = sys.cache[f]
    BY <1>1, <2>1
  <2>3. QED
    BY <2>1, <2>2, StoreFieldsLemma DEF AppBits, Even
<1>5. /\ Modes => sys'.last["charge"] \in DOMAIN ChargingProfile
      /\ Priority => sys'.last["usb_c"] \in DOMAIN usb_c_power_priority_value
  BY DEF IInv, LastInv
<1>6. F \cap Fixed = {}
  OBVIOUS
<1>7. QED
  BY <1>2, <1>3, <1>4, <1>5, <1>6 DEF Respects

LEMMA ColourKept ==
  ASSUME IInv, Bound, Coloured, Past("kbd_led"), Coherent(sys), sys.ec["shown"] = sys.ec["rgb"],
         NEW F, NEW L, NEW ok, Stepped(sys, sys', F, L, ok), "rgb" \notin F
  PROVE  sys'.ec["shown"] = sys'.ec["rgb"]
<1>1. InRange(sys)
  BY DEF IInv, CacheInv
<1>2. sys.ec["rgb"] # 0
  BY <1>1 DEF InRange, Coherent
<1>3. sys'.ec["rgb"] = sys.ec["rgb"]
  BY PlainFields DEF Stepped
<1>4. QED
  BY <1>2, <1>3 DEF Stepped

LEMMA BoostKept ==
  ASSUME IInv, Bound, Boosting, Past("ctgp"),
         NEW F, NEW L, NEW ok, Stepped(sys, sys', F, L, ok)
  PROVE  /\ "ctgp_on" \notin F => sys'.cache["ctgp_on"] = sys.cache["ctgp_on"]
         /\ "ctgp_general" \notin F => sys'.cache["ctgp_general"] = 1
         /\ {"ctgp_general", "ctgp_on"} \subseteq DOMAIN sys.cache
         /\ sys.cache["ctgp_general"] = 1
<1>1. {"ctgp_general", "ctgp_on"} \subseteq DOMAIN sys.cache /\ sys.cache["ctgp_general"] = 1
  BY DEF IInv, CacheInv
<1>2. QED
  BY <1>1 DEF Stepped

LEMMA ShowStep ==
  ASSUME IInv, Show
  PROVE  IInv'
<1>1. PICK n \in Fuses(1) : Ends(n, Read(Armed(n), "OEM_9"))
  BY DEF Show
<1> DEFINE s == Armed(n)
           t == Read(s, "OEM_9")
           F == {"ac_auto_boot"}
<1>2. /\ phase = "on" /\ phase' = "on" /\ requests' = requests + 1
      /\ UNCHANGED <<machine, features, pc, queue, pending, lost, sleeps, unloads>>
  BY DEF Show
<1>3. n \in Nat
  BY FuseLemma
<1>4. /\ Sys(s) /\ s.cache = sys.cache /\ s.ec = sys.ec
  BY <1>3, ArmedLemma
<1>5. Touches(s, t, F, {}) /\ Reads(s, t, "OEM_9")
  BY <1>4, AutoBootRead, ReadLemma, RegisterLemma
<1> HIDE DEF t
<1>6. /\ Stepped(sys, sys', F, {}, t.ok)
      /\ sys'.ec = t.ec /\ sys'.cache = t.cache /\ sys'.last = t.last
      /\ Same(t, sys') /\ Same(s, sys)
      /\ faults' \in Nat /\ (faults' = 0 => n = 0 /\ faults = 0)
  <2>1. Ends(n, t) /\ Touches(Armed(n), t, F, {})
    BY <1>1, <1>5 DEF t
  <2>2. QED
    BY <1>3, <2>1, EndsLemma
<1> HIDE DEF s
<1>7. /\ Asleep = FALSE /\ Asleep' = FALSE /\ Awake /\ Awake' /\ Bound /\ Bound'
      /\ Coloured' = Coloured /\ Boosting' = Boosting
      /\ Modes' = Modes /\ Priority' = Priority /\ Sound' = Sound
      /\ \A c : Past(c) /\ Past(c)' = Past(c)
  BY <1>2 DEF Asleep, Awake, Bound, Coloured, Boosting, Modes, Priority, Sound, Past
<1>8. sys'.ec = sys.ec /\ sys'.last["charge"] = sys.last["charge"]
      /\ sys'.last["usb_c"] = sys.last["usb_c"]
  BY <1>4, <1>5, <1>6 DEF Reads, Alters, Part, Stepped, LastPart
<1>9. F \cap (LightFields \cup {"rgb"} \cup Fixed) = {}
      /\ "ctgp_on" \notin F /\ "ctgp_general" \notin F
  BY DEF LightFields, Fixed
<1> HIDE DEF F
<1>10. Boosting => /\ sys'.cache["ctgp_general"] = 1
                   /\ sys'.cache["ctgp_on"] = sys.cache["ctgp_on"]
  BY <1>6, <1>7, <1>9, BoostKept
<1>11. Respects(F)
  <2>1. sys'.ec["usb_c"] \in {0, 1} /\ sys'.ec["profile"] \in 0..3
    BY <1>8 DEF IInv, SysInv, EcTyped
  <2>2. QED
    BY <1>2, <1>6, <1>7, <1>8, <1>9, <1>10, <2>1, QuietRespects
<1>12. /\ SysInv' /\ FeatureInv' /\ CacheInv' /\ LastInv'
       /\ Alive(sys') = Alive(sys) /\ sys'.ec["manual"] = sys.ec["manual"]
  BY <1>2, <1>6, <1>7, <1>11, BoundStep
<1>13. CountInv' /\ CallInv' /\ QueueInv'
  BY <1>2, <1>6, QueueKept DEF IInv, CountInv, CallInv
<1>14. AliveInv' /\ ManualInv'
  BY <1>2, <1>7, <1>12 DEF IInv, AliveInv, ManualInv
<1>15. Sound => Coherent(sys')
  <2>1. Sound => Coherent(sys) /\ Alive(s)
    BY <1>6, <1>7, SoundLemma DEF Same
  <2>2. QED
    BY <1>4, <1>5, <1>6, <1>8, <2>1 DEF Reads, Coherent, OnWire
<1>16. SyncInv'
  BY <1>2, <1>7, <1>15 DEF SyncInv, Past
<1>17. BoostInv'
  BY <1>2, <1>7, <1>10 DEF IInv, BoostInv
<1>18. ShownInv'
  BY <1>2, <1>7, <1>8 DEF IInv, ShownInv
<1>19. AdapterInv'
  BY <1>2, <1>6, <1>7, <1>8 DEF IInv, AdapterInv, ChargeSet, UsbCSet
<1>20. QED
  BY <1>12, <1>13, <1>14, <1>16, <1>17, <1>18, <1>19 DEF IInv

\* A call that is due comes before all the others.
LEMMA DueLemma ==
  /\ \A c \in DOMAIN ProbeCalls : ProbeCalls[c] \in Int
  /\ \A c, d \in DOMAIN ProbeCalls : ProbeCalls[c] = ProbeCalls[d] => c = d
  /\ \A c \in DOMAIN ResumeCalls : ResumeCalls[c] \in Int
  /\ \A c, d \in DOMAIN ResumeCalls : ResumeCalls[c] = ResumeCalls[d] => c = d
  /\ \A c \in DOMAIN SuspendCalls : SuspendCalls[c] \in Int
  /\ \A c, d \in DOMAIN SuspendCalls : SuspendCalls[c] = SuspendCalls[d] => c = d
BY DEF ProbeCalls, ResumeCalls, SuspendCalls

\* What is left of the calls is in order after one more of them.
LEMMA LeftLemma ==
  ASSUME NEW calls, NEW All \in SUBSET DOMAIN calls, Left(calls, All),
         NEW c \in Due(calls),
         \A x \in DOMAIN calls : calls[x] \in Int,
         \A x \in DOMAIN calls : \A y \in DOMAIN calls : calls[x] = calls[y] => x = y
  PROVE  /\ c \in All /\ c \in pc
         /\ pc \ {c} \subseteq All
         /\ \A x \in pc \ {c} : \A d \in All : calls[x] <= calls[d] => d \in pc \ {c}
         /\ \A d \in All : calls[c] <= calls[d] => d \in pc
         /\ \A d \in pc : calls[c] <= calls[d]
<1>1. c \in pc /\ pc \subseteq All /\ \A d \in pc : calls[c] <= calls[d]
  BY DEF Due, Left
<1>2. ASSUME NEW x \in pc \ {c}, NEW d \in All, calls[x] <= calls[d]
      PROVE  d \in pc \ {c}
  <2>1. d \in pc
    BY <1>2 DEF Left
  <2>2. calls[c] <= calls[x] /\ calls[c] # calls[x]
    BY <1>1, <1>2
  <2>3. d # c
    BY <1>1, <1>2, <2>2
  <2>4. QED
    BY <2>1, <2>3
<1>3. QED
  BY <1>1, <1>2 DEF Left

\* The fields that are written again are not cached.
LEMMA AdapterVolatile ==
  /\ RegisterOf["profile"] \in Volatile /\ RegisterOf["usb_c"] \in Volatile
  /\ \A f \in KbdFields : RegisterOf[f] \in Volatile
  /\ {"profile", "usb_c"} \cap (LightFields \cup {"rgb"} \cup Fixed) = {}
BY DEF RegisterOf, Volatile, KbdFields, LightFields, Fixed

\* What is written again is a value of the EC.
LEMMA RememberedValues ==
  ASSUME IInv, Bound, \A c : Past(c)
  PROVE  /\ Modes => ChargingProfile[sys.last["charge"]] \in 0..3
         /\ Priority => usb_c_power_priority_value[sys.last["usb_c"]] \in {0, 1}
BY DEF IInv, LastInv, ChargingProfile, usb_c_power_priority_value

LEMMA ResumeReaches ==
  ASSUME IInv, phase = "resume"
  PROVE  \A c \in DOMAIN ResumeCalls \ {"transport", "sync"} : Resumes(c) /\ c \notin pc
           => "transport" \notin pc /\ "sync" \notin pc
<1>1. Left(ResumeCalls, {c \in DOMAIN ResumeCalls : Resumes(c)})
  BY DEF IInv, CallInv
<1>2. \A c \in DOMAIN ResumeCalls \ {"transport", "sync"} :
        /\ ResumeCalls["transport"] <= ResumeCalls[c]
        /\ ResumeCalls["sync"] <= ResumeCalls[c]
  BY DEF ResumeCalls
<1>3. QED
  BY <1>1, <1>2 DEF Left

LEMMA NotifyBound ==
  ASSUME IInv, Notify, Listening
  PROVE  IInv'
<1>1. PICK n \in Fuses(4) :
        /\ Ends(n, uniwill_notifier_call(Armed(n)))
        /\ uniwill_notifier_call(Armed(n)).ok => lost' = lost \ {"adapter"}
        /\ ~uniwill_notifier_call(Armed(n)).ok => lost' = lost \cup {"adapter"}
  <2>1. PICK n \in Fuses(4) :
          LET done == uniwill_notifier_call(Armed(n))
          IN /\ Ends(n, done)
             /\ lost' = CASE Listening /\ done.ok -> lost \ {"adapter"}
                          [] Listening /\ ~done.ok -> lost \cup {"adapter"}
                          [] phase = "probing" /\ Copied -> lost \cup {"adapter"}
                          [] OTHER -> lost
    BY Zenon DEF Notify
  <2>2. phase # "probing"
    BY DEF Listening
  <2>3. WITNESS n \in Fuses(4)
  <2>4. QED
    BY <2>1, <2>2, Zenon
<1> DEFINE s == Armed(n)
           t == uniwill_notifier_call(s)
           F == {"profile", "usb_c"}
<1>2. /\ pending' = FALSE
      /\ UNCHANGED <<machine, features, phase, pc, queue, requests, sleeps, unloads>>
  BY DEF Notify
<1>3. n \in Nat
  BY FuseLemma
<1>4. /\ Sys(s) /\ s.cache = sys.cache /\ s.ec = sys.ec /\ s.last = sys.last
      /\ s.cache_only = sys.cache_only
  BY <1>3, ArmedLemma
<1>5. Notifies(s, t)
  BY <1>4, NotifierLemma
<1> HIDE DEF t
<1>6. Touches(s, t, F, {})
  BY <1>5 DEF Notifies
<1>7. /\ Stepped(sys, sys', F, {}, t.ok)
      /\ n = 0 /\ Asleep = FALSE => t.ok = TRUE
      /\ sys'.ec = t.ec /\ sys'.cache = t.cache /\ sys'.last = t.last
      /\ Same(t, sys') /\ Same(s, sys)
      /\ faults' \in Nat /\ (faults' = 0 => n = 0 /\ faults = 0)
  <2>1. Ends(n, t) /\ Touches(Armed(n), t, F, {})
    BY <1>1, <1>6 DEF t
  <2>2. QED
    BY <1>3, <2>1, EndsLemma
<1>8. /\ Asleep' = Asleep /\ Awake' = Awake /\ Bound /\ Bound'
      /\ Coloured' = Coloured /\ Boosting' = Boosting
      /\ Modes' = Modes /\ Priority' = Priority /\ Sound' = Sound
      /\ \A c : Past(c) /\ Past(c)' = Past(c)
      /\ \A x : x # "adapter" => (x \in lost' <=> x \in lost)
      /\ lost' \subseteq Everything \cup Minor
      /\ "adapter" \notin lost' => t.ok = TRUE
  <2>1. lost' = IF t.ok = TRUE THEN lost \ {"adapter"} ELSE lost \cup {"adapter"}
    BY <1>1, <1>7 DEF t, s
  <2>2. /\ \A x : x # "adapter" => (x \in lost' <=> x \in lost)
        /\ "adapter" \notin lost' => t.ok = TRUE
        /\ lost' \subseteq lost \cup Minor
    BY <2>1 DEF Minor
  <2>3. Sound' = Sound
    BY <1>2, <2>2 DEF Sound, Awake, Minor
  <2>4. lost' \subseteq Everything \cup Minor
    BY <2>2 DEF IInv, CountInv
  <2>5. QED
    BY <1>2, <2>2, <2>3, <2>4 DEF Asleep, Awake, Bound, Coloured, Boosting, Modes, Priority,
                                  Past, Listening
<1> HIDE DEF s
<1>9. sys'.last["charge"] = sys.last["charge"] /\ sys'.last["usb_c"] = sys.last["usb_c"]
  BY <1>7 DEF Stepped, LastPart
<1>10. /\ sys'.ec["profile"] = sys.ec["profile"]
          \/ (Modes /\ sys'.ec["profile"] = ChargingProfile[sys.last["charge"]])
       /\ sys'.ec["usb_c"] = sys.ec["usb_c"]
          \/ (Priority /\ sys'.ec["usb_c"] = usb_c_power_priority_value[sys.last["usb_c"]])
  BY <1>4, <1>5, <1>7 DEF Notifies
<1>11. sys'.ec["usb_c"] \in {0, 1} /\ sys'.ec["profile"] \in 0..3
  <2>1. sys.ec["usb_c"] \in {0, 1} /\ sys.ec["profile"] \in 0..3
    BY DEF IInv, SysInv, EcTyped
  <2>2. QED
    BY <1>8, <1>10, <2>1, RememberedValues
<1>12. F \cap (LightFields \cup {"rgb"} \cup Fixed) = {}
       /\ "ctgp_on" \notin F /\ "ctgp_general" \notin F /\ "rgb" \notin F
       /\ \A f \in F : RegisterOf[f] \in Volatile
  BY AdapterVolatile
<1> HIDE DEF F
<1>13. Boosting => /\ sys'.cache["ctgp_general"] = 1
                   /\ sys'.cache["ctgp_on"] = sys.cache["ctgp_on"]
  BY <1>7, <1>8, <1>12, BoostKept
<1>14. Respects(F)
  BY <1>2, <1>7, <1>8, <1>9, <1>11, <1>12, <1>13, QuietRespects
<1>15. /\ SysInv' /\ FeatureInv' /\ CacheInv' /\ LastInv'
       /\ Alive(sys') = Alive(sys) /\ sys'.ec["manual"] = sys.ec["manual"]
  BY <1>2, <1>7, <1>8, <1>14, BoundStep
<1>16. CountInv' /\ CallInv' /\ QueueInv'
  BY <1>2, <1>7, <1>8, QueueKept
     DEF IInv, CountInv, CallInv, Left, Suspends, Resumes, Supports
<1>17. AliveInv' /\ ManualInv'
  BY <1>2, <1>8, <1>15 DEF IInv, AliveInv, ManualInv
<1>18. Coherent(sys) => Coherent(sys')
  BY <1>7, <1>12, SteppedVolatile DEF IInv, SysInv
<1>19. sys.dirty = TRUE => sys'.dirty = TRUE
  BY <1>7 DEF Stepped
<1>20. SyncInv'
  BY <1>2, <1>8, <1>18, <1>19 DEF IInv, SyncInv, Listening
<1>21. BoostInv'
  <2>1. sys'.ec["ctgp_on"] = sys.ec["ctgp_on"]
    BY <1>7, <1>12, PlainFields DEF Stepped
  <2>2. lost' \subseteq Minor <=> lost \subseteq Minor
    BY <1>8 DEF Minor
  <2>3. QED
    BY <1>2, <1>8, <1>13, <2>1, <2>2 DEF IInv, BoostInv
<1>22. ShownInv'
  <2>1. ASSUME Coloured, Coherent(sys), sys.ec["shown"] = sys.ec["rgb"]
        PROVE  sys'.ec["shown"] = sys'.ec["rgb"]
    BY <1>7, <1>8, <1>12, <2>1, ColourKept
  <2>2. Awake /\ lost \subseteq {"uneven", "adapter"} => Coherent(sys)
    BY SoundLemma DEF Sound, Minor
  <2>3. Coloured /\ phase = "resume" /\ "kbd_led" \notin pc => Coherent(sys)
    <3>1. Coloured => Resumes("kbd_led")
      BY <1>8, FeatureLemma DEF IInv, Coloured, Resumes, Suspends, SuspendNeeds, Supports
    <3>2. "kbd_led" \in DOMAIN ResumeCalls \ {"transport", "sync"}
      BY DEF ResumeCalls
    <3>3. QED
      BY <3>1, <3>2, ResumeReaches DEF IInv, SyncInv
  <2>4. lost' \subseteq {"uneven", "adapter"} <=> lost \subseteq {"uneven", "adapter"}
    BY <1>8
  <2>5. phase' \notin {"unloaded", "probing"}
    BY <1>2 DEF Listening
  <2>6. QED
    BY <1>2, <1>8, <2>1, <2>2, <2>3, <2>4, <2>5 DEF IInv, ShownInv
<1>23. AdapterInv'
  <2>1. ASSUME "adapter" \notin lost', Alive(sys), Asleep = FALSE
        PROVE  (Modes => ChargeSet(sys')) /\ (Priority => UsbCSet(sys'))
    <3>1. t.ok = TRUE /\ Alive(s) /\ s.cache_only = FALSE
      BY <1>4, <1>7, <1>8, <2>1 DEF Same, IInv, SysInv
    <3>2. /\ Modes => sys'.ec["profile"] = ChargingProfile[sys'.last["charge"]]
          /\ Priority => sys'.ec["usb_c"] = usb_c_power_priority_value[sys'.last["usb_c"]]
      BY <1>4, <1>5, <1>7, <1>9, <3>1 DEF Notifies
    <3>3. QED
      BY <1>8, <1>9, <3>2 DEF ChargeSet, UsbCSet, IInv, LastInv
  <2>2. Sound => Alive(sys) /\ Asleep = FALSE
    <3>1. Sound => Alive(sys)
      BY <1>8, SoundLemma
    <3>2. Sound => Asleep = FALSE
      BY DEF Sound, Awake, Asleep
    <3>3. QED
      BY <3>1, <3>2
  <2>3. /\ Modes /\ phase = "resume" /\ "battery" \notin pc => Alive(sys) /\ Asleep = FALSE
        /\ Priority /\ phase = "resume" /\ "usb_c" \notin pc => Alive(sys) /\ Asleep = FALSE
    <3>1. (Modes => Resumes("battery")) /\ (Priority => Resumes("usb_c"))
      BY DEF Modes, Priority, Resumes, Supports
    <3>2. {"battery", "usb_c"} \subseteq DOMAIN ResumeCalls \ {"transport", "sync"}
      BY DEF ResumeCalls
    <3>3. phase = "resume" => Asleep = FALSE
      BY DEF Asleep
    <3>4. QED
      BY <3>1, <3>2, <3>3, ResumeReaches DEF IInv, AliveInv
  <2>4. QED
    BY <1>2, <1>8, <2>1, <2>2, <2>3 DEF AdapterInv
<1>24. QED
  BY <1>8, <1>15, <1>16, <1>17, <1>20, <1>21, <1>22, <1>23 DEF IInv

\* The event that nobody hears is lost if a probe has taken its copies.
LEMMA NotifyUnbound ==
  ASSUME IInv, Notify, ~Listening
  PROVE  IInv'
<1>1. PICK n \in Fuses(4) :
        /\ Ends(n, Armed(n))
        /\ lost' = IF phase = "probing" /\ Copied THEN lost \cup {"adapter"} ELSE lost
  BY Zenon DEF Notify
<1>2. /\ pending' = FALSE
      /\ UNCHANGED <<machine, features, phase, pc, queue, requests, sleeps, unloads>>
  BY DEF Notify
<1>3. n \in Nat
  BY FuseLemma
<1>4. Sys(sys) /\ sys.ok = TRUE /\ sys.fuse = 0 /\ faults \in Nat
  BY DEF IInv, SysInv, CountInv
<1>5. n = 0
  <2>1. Armed(n).fuse = n
    BY <1>3, ArmedLemma
  <2>2. n > 0 => Armed(n).fuse = 0
    BY <1>1 DEF Ends
  <2>3. QED
    BY <1>3, <2>1, <2>2
<1>6. sys' = sys /\ faults' = faults
  <2>1. sys' = [[sys EXCEPT !.fuse = 0] EXCEPT !.ok = TRUE, !.fuse = 0]
    BY <1>1, <1>5 DEF Ends, Armed
  <2>2. sys' = sys
    BY <1>4, <2>1 DEF Sys, Shaped, Part
  <2>3. QED
    BY <1>1, <1>4, <1>5, <2>2 DEF Ends, Smaller
<1>7. /\ Asleep' = Asleep /\ Asleep = FALSE /\ Awake' = Awake /\ Bound' = Bound
      /\ Coloured' = Coloured /\ Boosting' = Boosting
      /\ Modes' = Modes /\ Priority' = Priority
      /\ Supports("LIGHTBAR")' = Supports("LIGHTBAR")
      /\ phase \in {"unloaded", "probing"} /\ \A c : Past(c)' = Past(c)
  BY <1>2 DEF Asleep, Awake, Bound, Coloured, Boosting, Modes, Priority, Supports, Past,
              Listening
<1>8. /\ \A x : x # "adapter" => (x \in lost' <=> x \in lost)
      /\ lost \subseteq lost' /\ lost' \subseteq lost \cup Minor
      /\ "adapter" \notin lost' /\ phase = "probing"
           => (Modes => ~Past("battery")) /\ (Priority => ~Past("usb_c"))
  BY <1>1 DEF Minor, Copied, Modes, Priority, Supports, Past
<1>9. /\ Sound' = Sound /\ (lost' \subseteq Minor <=> lost \subseteq Minor)
      /\ lost' \subseteq {"uneven", "adapter"} <=> lost \subseteq {"uneven", "adapter"}
  BY <1>7, <1>8 DEF Sound, Minor
<1>10. SysInv' /\ CountInv' /\ FeatureInv' /\ CallInv' /\ QueueInv'
  BY <1>2, <1>6, <1>7, <1>8, QueueKept
     DEF IInv, SysInv, CountInv, FeatureInv, CallInv, Left, Suspends, Resumes, Supports
<1>11. CacheInv' /\ LastInv' /\ AliveInv' /\ SyncInv'
  BY <1>2, <1>6, <1>7, <1>8, <1>9 DEF IInv, CacheInv, LastInv, AliveInv, SyncInv
<1>12. ManualInv' /\ BoostInv' /\ ShownInv'
  BY <1>2, <1>6, <1>7, <1>8, <1>9 DEF IInv, ManualInv, BoostInv, ShownInv
<1>13. AdapterInv'
  BY <1>2, <1>7, <1>8 DEF AdapterInv, Sound, Awake
<1>14. QED
  BY <1>10, <1>11, <1>12, <1>13 DEF IInv

LEMMA SuspendCallStep ==
  ASSUME IInv, SuspendStep
  PROVE  IInv'
<1> DEFINE Done(c, n) == SuspendCall(Armed(n), c)
           All == {c \in DOMAIN SuspendCalls : Suspends(c)}
<1>1. PICK c \in Due(SuspendCalls), n \in Fuses(3) :
        /\ Ends(n, Done(c, n))
        /\ pc' = IF Done(c, n).ok THEN pc \ {c} ELSE {}
        /\ phase' = IF Done(c, n).ok THEN "suspend" ELSE "on"
        /\ lost' = IF Done(c, n).ok THEN lost
                   ELSE lost \cup (IF c = "ctgp" THEN {"ctgp"} ELSE {})
                     \cup (IF "kbd_led" \in pc THEN {} ELSE {"kbd_backlight"})
  BY DEF SuspendStep
<1> DEFINE s == Armed(n)
           t == Done(c, n)
           F == IF c = "ctgp" THEN KbdFields \cup {"ctgp_general", "ctgp_on"}
                ELSE KbdFields
           L == IF c = "battery" THEN {"charge"} ELSE OtherLast
<1>2. /\ phase = "suspend"
      /\ UNCHANGED <<machine, features, queue, pending, requests, sleeps, unloads>>
  BY DEF SuspendStep
<1>3. n \in Nat
  BY FuseLemma
<1>4. Sys(s) /\ s.cache = sys.cache /\ s.ec = sys.ec
  BY <1>3, ArmedLemma
<1>5. /\ c \in All /\ c \in pc
      /\ pc \ {c} \subseteq All
      /\ \A x \in pc \ {c} : \A d \in All : SuspendCalls[x] <= SuspendCalls[d] => d \in pc \ {c}
      /\ \A d \in All : SuspendCalls[c] <= SuspendCalls[d] => d \in pc
      /\ \A d \in pc : SuspendCalls[c] <= SuspendCalls[d]
  <2>1. Left(SuspendCalls, All)
    BY <1>2 DEF IInv, CallInv
  <2>2. All \in SUBSET DOMAIN SuspendCalls
    OBVIOUS
  <2> HIDE DEF All
  <2>3. QED
    BY <2>1, <2>2, LeftLemma, DueLemma
<1>6. Suspended(s, t, c)
  BY <1>4, <1>5, SuspendLemma
<1> HIDE DEF t, s, Done
<1>7. Touches(s, t, F, L) /\ (c = "ctgp" => Boosts(s, t, 0))
  BY <1>6 DEF Suspended
<1>8. /\ Stepped(sys, sys', F, L, t.ok) /\ t.ok \in BOOLEAN
      /\ sys'.ec = t.ec /\ sys'.cache = t.cache /\ sys'.last = t.last
      /\ faults' \in Nat /\ (faults' = 0 => n = 0 /\ faults = 0)
  <2>1. Ends(n, t) /\ Touches(Armed(n), t, F, L)
    BY <1>1, <1>7 DEF t, s
  <2> HIDE DEF F, L
  <2>2. QED
    BY <1>3, <2>1, EndsLemma
<1>9. /\ t.ok = TRUE => pc' = pc \ {c} /\ phase' = "suspend" /\ lost' = lost
      /\ t.ok = FALSE => pc' = {} /\ phase' = "on"
           /\ lost' = lost \cup (IF c = "ctgp" THEN {"ctgp"} ELSE {})
                     \cup (IF "kbd_led" \in pc THEN {} ELSE {"kbd_backlight"})
  BY <1>1 DEF t
<1>10. /\ Asleep = FALSE /\ Asleep' = FALSE /\ Awake /\ Awake' /\ Bound /\ Bound'
       /\ Coloured' = Coloured /\ Boosting' = Boosting
       /\ Modes' = Modes /\ Priority' = Priority
       /\ phase' \in {"on", "suspend"} /\ \A d : Past(d) /\ Past(d)' = Past(d)
  BY <1>2, <1>8, <1>9 DEF Asleep, Awake, Bound, Coloured, Boosting, Modes, Priority, Past
<1>11. {"ctgp", "kbd_backlight"} \subseteq Everything \ Minor
  BY DEF Everything, Minor, Setting, FeatureOf
<1>12. /\ lost \subseteq lost' /\ lost' \subseteq Everything \cup Minor
       /\ lost' \subseteq Minor => lost' = lost /\ (t.ok = TRUE \/ c # "ctgp")
  BY <1>8, <1>9, <1>11 DEF IInv, CountInv
<1>13. Sound' => Sound
  BY <1>10, <1>12 DEF Sound
<1>14. Modes => c # "battery"
  <2>1. Suspends(c)
    BY <1>5
  <2>2. c = "battery" => "BATTERY_CHARGE_LIMIT" \in features
    BY <2>1 DEF Suspends, SuspendNeeds, Supports
  <2>3. ~ ("BATTERY_CHARGE_LIMIT" \in features /\ "BATTERY_CHARGE_MODES" \in features)
    BY <1>10, MachineLemma, FeatureLemma DEF IInv, CountInv
  <2>4. QED
    BY <2>2, <2>3 DEF Modes
<1>15. /\ F \cap (LightFields \cup {"rgb"} \cup Fixed) = {} /\ "rgb" \notin F
       /\ "profile" \notin F /\ "usb_c" \notin F
       /\ c # "ctgp" => /\ "ctgp_on" \notin F /\ "ctgp_general" \notin F
                        /\ \A f \in F : RegisterOf[f] \in Volatile
  BY AdapterVolatile DEF KbdFields, LightFields, Fixed
<1>16. /\ Modes => sys'.last["charge"] = sys.last["charge"]
       /\ sys'.last["usb_c"] = sys.last["usb_c"]
  <2>1. "usb_c" \notin L /\ (Modes => "charge" \notin L)
        /\ {"charge", "usb_c"} \subseteq LastPart
    BY <1>14 DEF OtherLast, LastPart
  <2> HIDE DEF F, L
  <2>2. QED
    BY <1>8, <2>1 DEF Stepped
<1> HIDE DEF F, L
<1>17. sys'.ec["profile"] = sys.ec["profile"] /\ sys'.ec["usb_c"] = sys.ec["usb_c"]
  BY <1>8, <1>15, PlainFields DEF Stepped
<1>18. Boosting => /\ sys'.cache["ctgp_general"] = 1
                   /\ c # "ctgp" => sys'.cache["ctgp_on"] = sys.cache["ctgp_on"]
                   /\ c = "ctgp" /\ t.ok = TRUE => sys'.cache["ctgp_on"] = 0
  <2>1. Boosting => /\ "ctgp_on" \notin F => sys'.cache["ctgp_on"] = sys.cache["ctgp_on"]
                    /\ "ctgp_general" \notin F => sys'.cache["ctgp_general"] = 1
                    /\ {"ctgp_general", "ctgp_on"} \subseteq DOMAIN sys.cache
                    /\ sys.cache["ctgp_general"] = 1
    BY <1>8, <1>10, BoostKept
  <2>2. QED
    BY <1>4, <1>7, <1>8, <1>15, <2>1 DEF Boosts
<1>19. Respects(F)
  <2>1. sys'.ec["usb_c"] \in {0, 1} /\ sys'.ec["profile"] \in 0..3
    BY <1>17 DEF IInv, SysInv, EcTyped
  <2>2. QED
    BY <1>8, <1>10, <1>12, <1>15, <1>16, <1>18, <2>1, QuietRespects
<1>20. /\ SysInv' /\ FeatureInv' /\ CacheInv' /\ LastInv'
       /\ Alive(sys') = Alive(sys) /\ sys'.ec["manual"] = sys.ec["manual"]
  BY <1>2, <1>8, <1>10, <1>19, BoundStep
<1>21. CountInv'
  BY <1>2, <1>8, <1>10, <1>12 DEF IInv, CountInv, Phase
<1>22. CallInv'
  <2>1. {x \in DOMAIN SuspendCalls : Suspends(x)}' = All
    BY <1>2 DEF Suspends, Supports
  <2>2. t.ok = TRUE => Left(SuspendCalls, {x \in DOMAIN SuspendCalls : Suspends(x)})'
    BY <1>5, <1>9, <2>1 DEF Left
  <2>3. QED
    BY <1>8, <1>9, <2>2 DEF CallInv
<1>23. AliveInv' /\ ManualInv' /\ QueueInv'
  BY <1>2, <1>10, <1>12, <1>20, QueueKept DEF IInv, AliveInv, ManualInv
<1>24. Sound' => Coherent(sys')
  <2>1. Sound' => Coherent(sys) /\ Alive(sys) /\ sys.cache_only = FALSE
                  /\ (t.ok = TRUE \/ c # "ctgp")
    BY <1>10, <1>12, <1>13, SoundLemma DEF Sound
  <2>2. Sound' /\ t.ok = TRUE => Coherent(sys')
    BY <1>8, <2>1 DEF Stepped
  <2>3. Sound' /\ c # "ctgp" => Coherent(sys')
    BY <1>8, <1>15, <2>1, SteppedVolatile DEF IInv, SysInv
  <2>4. QED
    BY <2>1, <2>2, <2>3
<1>25. SyncInv'
  BY <1>10, <1>24 DEF SyncInv
<1>26. BoostInv'
  <2>1. ASSUME Boosting, lost' \subseteq Minor
        PROVE  /\ phase' = "on" => sys'.cache["ctgp_on"] = 1
               /\ phase' = "suspend" =>
                    sys'.cache["ctgp_on"] = IF "ctgp" \in pc' THEN 1 ELSE 0
    <3>1. /\ lost \subseteq Minor /\ (t.ok = TRUE \/ c # "ctgp")
          /\ sys.cache["ctgp_on"] = IF "ctgp" \in pc THEN 1 ELSE 0
      BY <1>2, <1>12, <2>1 DEF IInv, BoostInv
    <3>2. CASE c = "ctgp"
      BY <1>9, <1>18, <2>1, <3>1, <3>2
    <3>3. CASE c # "ctgp"
      <4>1. "ctgp" \in All
        BY <2>1 DEF Boosting, Suspends, SuspendNeeds, Supports, SuspendCalls
      <4>2. SuspendCalls[c] <= SuspendCalls["ctgp"]
        BY <1>5 DEF SuspendCalls
      <4>3. "ctgp" \in pc
        BY <1>5, <4>1, <4>2
      <4>4. QED
        BY <1>8, <1>9, <1>18, <2>1, <3>1, <3>3, <4>3
    <3>4. QED
      BY <3>2, <3>3
  <2>2. QED
    BY <1>10, <2>1 DEF BoostInv
<1>27. ShownInv'
  <2>1. ASSUME Coloured, lost' \subseteq {"uneven", "adapter"}
        PROVE  sys'.ec["shown"] = sys'.ec["rgb"]
    <3>1. lost \subseteq {"uneven", "adapter"} /\ Sound
      BY <1>10, <1>12, <2>1 DEF Minor, Sound
    <3>2. sys.ec["shown"] = sys.ec["rgb"] /\ Coherent(sys)
      BY <1>10, <2>1, <3>1, SoundLemma DEF IInv, ShownInv
    <3>3. QED
      BY <1>8, <1>10, <1>15, <2>1, <3>2, ColourKept
  <2>2. QED
    BY <1>10, <2>1 DEF ShownInv
<1>28. AdapterInv'
  BY <1>2, <1>8, <1>10, <1>12, <1>13, <1>16, <1>17
     DEF IInv, AdapterInv, ChargeSet, UsbCSet
<1>29. QED
  BY <1>20, <1>21, <1>22, <1>23, <1>25, <1>26, <1>27, <1>28 DEF IInv
-----------------------------------------------------------------------------
(* The functions of the resume                                             *)

LEMMA EndsPlain ==
  ASSUME IInv, NEW n \in Nat, NEW done, Ends(n, done), Sys(done)
  PROVE  /\ Sys(sys') /\ sys'.ok = TRUE /\ sys'.fuse = 0
         /\ sys'.ec = done.ec /\ sys'.cache = done.cache /\ sys'.last = done.last
         /\ sys'.window = done.window /\ sys'.use_wmi = done.use_wmi
         /\ sys'.cache_only = done.cache_only /\ sys'.dirty = done.dirty
         /\ faults' \in Nat /\ (faults' = 0 => n = 0 /\ faults = 0)
<1>1. sys' = Ended(done) /\ faults \in Nat
  BY DEF Ends, Ended, IInv, CountInv
<1>2. /\ Sys(Ended(done)) /\ Ended(done).ok = TRUE /\ Ended(done).fuse = 0
      /\ Alters(done, Ended(done), {"ok", "fuse"})
  BY EndLemma
<1>3. faults' \in Nat /\ (faults' = 0 => n = 0 /\ faults = 0)
  BY <1>1 DEF Ends, Smaller
<1>4. QED
  BY <1>1, <1>2, <1>3 DEF Alters, Part

\* Nothing but the EC, the transport and the dirty mark has changed.
LEMMA CacheStays ==
  ASSUME IInv, Bound, Bound', Asleep' = Asleep, UNCHANGED <<machine, features>>,
         \A c : Past(c)' = Past(c),
         "uneven" \in lost => "uneven" \in lost',
         Sys(sys'), sys'.ok = TRUE, sys'.fuse = 0, sys'.cache = sys.cache,
         sys'.last = sys.last, sys'.window = sys.window,
         sys'.cache_only = sys.cache_only, EcTyped(sys'.ec), sys'.ec["rgb"] \in Int
  PROVE  SysInv' /\ FeatureInv' /\ CacheInv' /\ LastInv'
<1>1. /\ Coloured' = Coloured /\ Boosting' = Boosting
      /\ Modes' = Modes /\ Priority' = Priority
      /\ Supports("LIGHTBAR")' = Supports("LIGHTBAR")
  BY DEF Coloured, Boosting, Modes, Priority, Supports
<1>2. RgbTyped(sys')
  BY DEF IInv, SysInv, RgbTyped
<1>3. SysInv'
  BY <1>2 DEF IInv, SysInv
<1>4. FeatureInv' /\ LastInv'
  BY <1>1 DEF IInv, FeatureInv, LastInv
<1>5. CacheInv'
  BY <1>1 DEF IInv, CacheInv, InRange, AppBits, Even
<1>6. QED
  BY <1>3, <1>4, <1>5

\* A resume that fails leaves everything open but the cache.
LEMMA ResumeFails ==
  ASSUME IInv, phase = "resume", UNCHANGED queue,
         SysInv', FeatureInv', CacheInv', LastInv', CountInv',
         phase' = "on", pc' = {}, "manual" \in lost'
  PROVE  IInv'
<1>1. Asleep' = FALSE /\ Sound' = FALSE
  BY DEF Asleep, Sound, Minor
<1>2. ~ (lost' \subseteq Minor) /\ ~ (lost' \subseteq {"uneven", "adapter"})
  BY DEF Minor
<1>3. CallInv' /\ QueueInv'
  BY QueueEmpty DEF CallInv, QueueInv, IInv
<1>4. AliveInv' /\ SyncInv' /\ ManualInv'
  BY <1>1 DEF AliveInv, SyncInv, ManualInv
<1>5. BoostInv' /\ ShownInv' /\ AdapterInv'
  BY <1>1, <1>2 DEF BoostInv, ShownInv, AdapterInv
<1>6. QED
  BY <1>3, <1>4, <1>5 DEF IInv

\* A call that has worked keeps the invariant, with what it has restored
\* and the calls before it; after the last one the driver is in use.
LEMMA ResumeWorks ==
  ASSUME IInv, phase = "resume", NEW c \in Due(ResumeCalls), pc' = pc \ {c},
         phase' = IF pc' = {} THEN "on" ELSE "resume",
         lost' = IF pc' = {} THEN Mended ELSE lost,
         UNCHANGED <<machine, features, queue, pending>>,
         SysInv', FeatureInv', CacheInv', LastInv', CountInv',
         "transport" \notin pc' => Alive(sys'),
         "sync" \notin pc' => Coherent(sys'),
         "sync" \in pc' => sys'.dirty = TRUE,
         Boosting /\ "ctgp" \notin pc' => sys'.cache["ctgp_on"] = 1,
         Coloured /\ "kbd_led" \notin pc' => sys'.ec["shown"] = sys'.ec["rgb"],
         pending = FALSE /\ "adapter" \notin lost =>
           /\ Modes /\ "battery" \notin pc' => ChargeSet(sys')
           /\ Priority /\ "usb_c" \notin pc' => UsbCSet(sys')
  PROVE  IInv'
<1>1. /\ Coloured' = Coloured /\ Boosting' = Boosting
      /\ Modes' = Modes /\ Priority' = Priority
  BY DEF Coloured, Boosting, Modes, Priority
<1>2. /\ phase' \in {"on", "resume"} /\ Asleep' = FALSE /\ Bound'
      /\ Awake' => phase' = "on" /\ pc' = {}
      /\ phase' = "on" => pc' = {} /\ lost' \subseteq {"uneven", "adapter"}
      /\ "adapter" \in lost => "adapter" \in lost'
      /\ phase' # "probing" /\ QueueInv'
  BY QueueEmpty DEF Asleep, Bound, Awake, Mended, QueueInv, IInv
<1>3. CallInv'
  <2> DEFINE All == {x \in DOMAIN ResumeCalls : Resumes(x)}
  <2>1. All' = All
    BY DEF Resumes, Suspends, Supports
  <2>2. Left(ResumeCalls, All)
    BY DEF IInv, CallInv
  <2>3. All \in SUBSET DOMAIN ResumeCalls
    OBVIOUS
  <2> HIDE DEF All
  <2>4. /\ pc \ {c} \subseteq All
        /\ \A x \in pc \ {c} : \A d \in All :
             ResumeCalls[x] <= ResumeCalls[d] => d \in pc \ {c}
    BY <2>2, <2>3, LeftLemma, DueLemma
  <2>5. Left(ResumeCalls, All)'
    BY <2>1, <2>4 DEF Left
  <2>6. QED
    BY <1>2, <2>5 DEF CallInv, All
<1>4. AliveInv' /\ SyncInv'
  BY <1>2 DEF AliveInv, SyncInv, Sound
<1>5. ManualInv'
  <2>1. ASSUME phase' = "on"
        PROVE  sys'.ec["manual"] = 1
    <3>1. Coherent(sys')
      BY <1>2, <2>1
    <3>2. "manual" \in DOMAIN sys'.cache /\ sys'.cache["manual"] = 1
      BY <1>2 DEF CacheInv, Past
    <3>3. QED
      BY <3>1, <3>2 DEF Coherent
  <2>2. QED
    BY <1>2, <2>1 DEF ManualInv
<1>6. BoostInv'
  BY <1>1, <1>2 DEF BoostInv
<1>7. ShownInv'
  BY <1>1, <1>2 DEF ShownInv
<1>8. AdapterInv'
  BY <1>1, <1>2 DEF AdapterInv, Sound
<1>9. QED
  BY <1>2, <1>3, <1>4, <1>5, <1>6, <1>7, <1>8 DEF IInv

\* The phase after a call of the resume, and what is lost then.
AfterCall(c, ok) ==
  /\ pc' = IF ok THEN pc \ {c} ELSE {}
  /\ phase' = IF pc' = {} THEN "on" ELSE "resume"
  /\ lost' = CASE ~ok -> Mended \cup Everything
               [] ok /\ pc' = {} -> Mended
               [] OTHER -> lost

LEMMA AfterLemma ==
  ASSUME IInv, phase = "resume", NEW c, NEW ok \in BOOLEAN, AfterCall(c, ok)
  PROVE  /\ Bound /\ Bound' /\ Asleep = FALSE /\ Asleep' = FALSE
         /\ phase' \in Phase /\ lost' \subseteq Everything \cup Minor
         /\ "uneven" \in lost => "uneven" \in lost'
         /\ \A d : Past(d) /\ Past(d)' = Past(d)
         /\ ok = FALSE => phase' = "on" /\ pc' = {} /\ "manual" \in lost'
         /\ ok = TRUE => /\ pc' = pc \ {c}
                         /\ phase' = IF pc' = {} THEN "on" ELSE "resume"
                         /\ lost' = IF pc' = {} THEN Mended ELSE lost
<1>1. phase' \in {"on", "resume"}
  BY DEF AfterCall
<1>2. ok = FALSE => pc' = {} /\ lost' = Mended \cup Everything
  BY DEF AfterCall
<1>3. ok = TRUE => /\ pc' = pc \ {c}
                   /\ lost' = IF pc' = {} THEN Mended ELSE lost
  BY DEF AfterCall
<1>4. lost \subseteq Everything \cup Minor
  BY DEF IInv, CountInv
<1>5. Bound /\ Bound' /\ Asleep = FALSE /\ Asleep' = FALSE /\ phase' \in Phase
  BY <1>1 DEF Bound, Asleep, Phase
<1>6. "manual" \in Everything
  BY DEF Everything
<1>7. ok = TRUE \/ ok = FALSE
  OBVIOUS
<1>8. lost' \subseteq Everything \cup Minor /\ ("uneven" \in lost => "uneven" \in lost')
  BY <1>2, <1>3, <1>4, <1>7 DEF Mended, Minor
<1>9. \A d : Past(d) /\ Past(d)' = Past(d)
  BY <1>1 DEF Past
<1>10. QED
  BY <1>2, <1>3, <1>5, <1>6, <1>8, <1>9 DEF AfterCall

\* The calls of the resume up to c are done, but not c itself.
LEMMA ResumeOrder ==
  ASSUME IInv, phase = "resume", NEW c \in Due(ResumeCalls)
  PROVE  /\ c \in DOMAIN ResumeCalls /\ Resumes(c) /\ c \in pc
         /\ \A d \in DOMAIN ResumeCalls :
              /\ Resumes(d) /\ ResumeCalls[c] <= ResumeCalls[d] => d \in pc
              /\ ~ (ResumeCalls[c] <= ResumeCalls[d]) => d \notin pc
<1> DEFINE All == {x \in DOMAIN ResumeCalls : Resumes(x)}
<1>1. Left(ResumeCalls, All)
  BY DEF IInv, CallInv
<1>2. All \in SUBSET DOMAIN ResumeCalls
  OBVIOUS
<1> HIDE DEF All
<1>3. /\ c \in All /\ c \in pc
      /\ \A d \in All : ResumeCalls[c] <= ResumeCalls[d] => d \in pc
      /\ \A d \in pc : ResumeCalls[c] <= ResumeCalls[d]
  BY <1>1, <1>2, LeftLemma, DueLemma
<1>4. QED
  BY <1>3 DEF All

LEMMA TransportStep ==
  ASSUME IInv, phase = "resume", "transport" \in Due(ResumeCalls), NEW n \in Nat,
         Ends(n, ResumeCall(Armed(n), "transport")),
         AfterCall("transport", ResumeCall(Armed(n), "transport").ok),
         UNCHANGED <<machine, features, queue, pending, requests, sleeps, unloads>>
  PROVE  IInv'
<1> DEFINE s == Armed(n)
           t == ResumeCall(s, "transport")
<1>1. /\ Sys(s) /\ s.ec = sys.ec /\ s.cache = sys.cache /\ s.last = sys.last
      /\ s.window = sys.window /\ s.dirty = sys.dirty /\ s.cache_only = sys.cache_only
  BY ArmedLemma
<1>2. machine.fallback \in BOOLEAN /\ (machine.fallback = FALSE => s.window)
  BY <1>1, MachineLemma DEF IInv, SysInv, CountInv
<1> HIDE DEF s
<1>3. t = uniwill_ec_check_transport(s, machine.fallback)
  BY DEF ResumeCall
<1>4. /\ Sys(t) /\ Alters(s, t, {"ok", "fuse", "use_wmi"})
      /\ t.ok = TRUE => Alive(t)
  <2>1. LET u == uniwill_ec_check_transport(s, machine.fallback)
        IN /\ Sys(u) /\ Alters(s, u, {"ok", "fuse", "use_wmi"})
           /\ s.ok = FALSE => u = s
           /\ s.fuse = 0 => u.fuse = 0
           /\ u.ok = TRUE => Alive(u)
           /\ Alive(s) => Alive(u)
    BY <1>1, <1>2, TransportLemma
  <2>2. QED
    BY <1>3, <2>1
<1>5. Ends(n, t) /\ AfterCall("transport", t.ok)
  BY DEF s
<1> HIDE DEF t
<1>6. t.ok \in BOOLEAN
  BY <1>4 DEF Sys
<1>7. /\ Sys(sys') /\ sys'.ok = TRUE /\ sys'.fuse = 0
      /\ sys'.ec = t.ec /\ sys'.cache = t.cache /\ sys'.last = t.last
      /\ sys'.window = t.window /\ sys'.use_wmi = t.use_wmi
      /\ sys'.cache_only = t.cache_only /\ sys'.dirty = t.dirty
      /\ faults' \in Nat /\ (faults' = 0 => n = 0 /\ faults = 0)
  BY <1>4, <1>5, EndsPlain
<1>8. /\ sys'.ec = sys.ec /\ sys'.cache = sys.cache /\ sys'.last = sys.last
      /\ sys'.window = sys.window /\ sys'.cache_only = sys.cache_only
      /\ sys'.dirty = sys.dirty
  BY <1>1, <1>4, <1>7 DEF Alters, Part
<1>9. /\ Bound /\ Bound' /\ Asleep = FALSE /\ Asleep' = FALSE
      /\ phase' \in Phase /\ lost' \subseteq Everything \cup Minor
      /\ "uneven" \in lost => "uneven" \in lost'
      /\ \A d : Past(d) /\ Past(d)' = Past(d)
      /\ t.ok = FALSE => phase' = "on" /\ pc' = {} /\ "manual" \in lost'
      /\ t.ok = TRUE => /\ pc' = pc \ {"transport"}
                        /\ phase' = IF pc' = {} THEN "on" ELSE "resume"
                        /\ lost' = IF pc' = {} THEN Mended ELSE lost
  BY <1>5, <1>6, AfterLemma
<1>10. SysInv' /\ FeatureInv' /\ CacheInv' /\ LastInv'
  <2>1. EcTyped(sys'.ec) /\ sys'.ec["rgb"] \in Int
    BY <1>8 DEF IInv, SysInv, RgbTyped
  <2>2. QED
    BY <1>7, <1>8, <1>9, <2>1, CacheStays
<1>11. CountInv'
  BY <1>7, <1>9 DEF IInv, CountInv
<1>12. CASE t.ok = FALSE
  BY <1>9, <1>10, <1>11, <1>12, ResumeFails
<1>13. CASE t.ok = TRUE
  <2>1. \A d \in DOMAIN ResumeCalls : Resumes(d) => d \in pc
    <3>1. \A d \in DOMAIN ResumeCalls : ResumeCalls["transport"] <= ResumeCalls[d]
      BY DEF ResumeCalls
    <3>2. QED
      BY <3>1, ResumeOrder
  <2>2. /\ "sync" \in pc /\ (Boosting => "ctgp" \in pc)
        /\ Modes => "battery" \in pc
        /\ Priority => "usb_c" \in pc
        /\ Coloured => "kbd_led" \in pc
    <3>1. /\ Resumes("sync") /\ (Boosting => Resumes("ctgp"))
          /\ Modes => Resumes("battery")
          /\ Priority => Resumes("usb_c")
          /\ "KEYBOARD_BACKLIGHT" \in features => Resumes("kbd_led")
      BY DEF Resumes, Suspends, SuspendNeeds, Supports, Boosting, Modes, Priority
    <3>2. Coloured => Resumes("kbd_led")
      BY <1>9, <3>1, FeatureLemma DEF IInv, Coloured
    <3>3. {"sync", "ctgp", "battery", "usb_c", "kbd_led"} \subseteq DOMAIN ResumeCalls
      BY DEF ResumeCalls
    <3>4. QED
      BY <2>1, <3>1, <3>2, <3>3
  <2>3. "sync" \in pc' /\ (Boosting => "ctgp" \in pc') /\ (Modes => "battery" \in pc')
        /\ (Priority => "usb_c" \in pc') /\ (Coloured => "kbd_led" \in pc')
    BY <1>9, <1>13, <2>2
  <2>4. Alive(sys')
    BY <1>4, <1>7, <1>13 DEF Alive
  <2>5. sys'.dirty = TRUE
    BY <1>8, <2>2 DEF IInv, SyncInv
  <2>6. QED
    BY <1>9, <1>10, <1>11, <1>13, <2>3, <2>4, <2>5, ResumeWorks
<1>14. QED
  BY <1>6, <1>12, <1>13

LEMMA SyncStep ==
  ASSUME IInv, phase = "resume", "sync" \in Due(ResumeCalls), NEW n \in Nat,
         Ends(n, ResumeCall(Armed(n), "sync")),
         AfterCall("sync", ResumeCall(Armed(n), "sync").ok),
         UNCHANGED <<machine, features, queue, pending, requests, sleeps, unloads>>
  PROVE  IInv'
<1> DEFINE s == Armed(n)
           t == ResumeCall(s, "sync")
<1>1. \A d \in DOMAIN ResumeCalls :
        /\ Resumes(d) /\ d # "transport" => d \in pc
        /\ d = "transport" => d \notin pc
  <2>1. \A d \in DOMAIN ResumeCalls : d # "transport" <=> ResumeCalls["sync"] <= ResumeCalls[d]
    BY DEF ResumeCalls
  <2>2. QED
    BY <2>1, ResumeOrder
<1>2. "transport" \in DOMAIN ResumeCalls /\ "sync" \in DOMAIN ResumeCalls /\ Resumes("sync")
  BY DEF ResumeCalls, Resumes
<1>3. "transport" \notin pc /\ "sync" \in pc
  BY <1>1, <1>2
<1>4. Alive(sys) /\ sys.dirty = TRUE
  BY <1>3 DEF IInv, AliveInv, SyncInv
<1>5. /\ Sys(s) /\ s.ok = TRUE /\ s.ec = sys.ec /\ s.cache = sys.cache
      /\ s.last = sys.last /\ s.use_wmi = sys.use_wmi
      /\ s.window = sys.window /\ s.dirty = sys.dirty /\ s.cache_only = sys.cache_only
  BY ArmedLemma
<1>6. Synced(s, t)
  <2> HIDE DEF s
  <2>1. t = regcache_sync(s)
    BY DEF ResumeCall
  <2>2. QED
    BY <1>4, <1>5, <2>1, SyncLemma
<1>7. Ends(n, t) /\ AfterCall("sync", t.ok)
  OBVIOUS
<1> HIDE DEF s, t
<1>8. t.ok \in BOOLEAN /\ Sys(t)
  BY <1>6 DEF Synced, Sys
<1>9. /\ Sys(sys') /\ sys'.ok = TRUE /\ sys'.fuse = 0
      /\ sys'.ec = t.ec /\ sys'.cache = t.cache /\ sys'.last = t.last
      /\ sys'.window = t.window /\ sys'.use_wmi = t.use_wmi
      /\ sys'.cache_only = t.cache_only /\ sys'.dirty = t.dirty
      /\ faults' \in Nat /\ (faults' = 0 => n = 0 /\ faults = 0)
  BY <1>7, <1>8, EndsPlain
<1>10. /\ sys'.cache = sys.cache /\ sys'.last = sys.last
       /\ sys'.window = sys.window /\ sys'.cache_only = sys.cache_only
       /\ sys'.use_wmi = sys.use_wmi
  BY <1>5, <1>6, <1>9 DEF Synced, Alters, Part
<1>11. /\ Bound /\ Bound' /\ Asleep = FALSE /\ Asleep' = FALSE
       /\ phase' \in Phase /\ lost' \subseteq Everything \cup Minor
       /\ "uneven" \in lost => "uneven" \in lost'
       /\ \A d : Past(d) /\ Past(d)' = Past(d)
       /\ t.ok = FALSE => phase' = "on" /\ pc' = {} /\ "manual" \in lost'
       /\ t.ok = TRUE => /\ pc' = pc \ {"sync"}
                         /\ phase' = IF pc' = {} THEN "on" ELSE "resume"
                         /\ lost' = IF pc' = {} THEN Mended ELSE lost
  BY <1>7, <1>8, AfterLemma
<1>12. /\ \A f \in EcField : f \notin DOMAIN sys.cache => sys'.ec[f] = sys.ec[f]
       /\ t.ok = TRUE => \A f \in DOMAIN sys.cache :
            f \notin {"project", "has_gpu"} => sys'.ec[f] = sys.cache[f]
       /\ \A f \in {"project", "has_gpu"} : sys'.ec[f] = sys.ec[f]
       /\ \A f \in DOMAIN sys.cache : sys'.ec[f] = sys.ec[f] \/ sys'.ec[f] = sys.cache[f]
  BY <1>4, <1>5, <1>6, <1>9 DEF Synced, Alive
<1>13. EcTyped(sys'.ec) /\ sys'.ec["rgb"] \in Int
  <2>1. "profile" \notin DOMAIN sys.cache /\ "usb_c" \notin DOMAIN sys.cache
    BY AdapterVolatile DEF IInv, SysInv, Sys, Cache
  <2>2. {"profile", "usb_c", "rgb"} \subseteq EcField
    BY PlainFields
  <2>3. sys'.ec["profile"] = sys.ec["profile"] /\ sys'.ec["usb_c"] = sys.ec["usb_c"]
    BY <1>12, <2>1, <2>2
  <2>4. EcTyped(sys'.ec)
    BY <1>12, <2>3 DEF IInv, SysInv, EcTyped
  <2>5. sys'.ec["rgb"] \in Int
    BY <1>12, <2>2 DEF IInv, SysInv, RgbTyped
  <2>6. QED
    BY <2>4, <2>5
<1>14. SysInv' /\ FeatureInv' /\ CacheInv' /\ LastInv'
  BY <1>9, <1>10, <1>11, <1>13, CacheStays
<1>15. CountInv'
  BY <1>9, <1>11 DEF IInv, CountInv
<1>16. CASE t.ok = FALSE
  BY <1>11, <1>14, <1>15, <1>16, ResumeFails
<1>17. CASE t.ok = TRUE
  <2>1. /\ Boosting => "ctgp" \in pc'
        /\ Modes => "battery" \in pc'
        /\ Priority => "usb_c" \in pc'
        /\ Coloured => "kbd_led" \in pc'
    <3>1. /\ Boosting => Resumes("ctgp")
          /\ Modes => Resumes("battery")
          /\ Priority => Resumes("usb_c")
          /\ "KEYBOARD_BACKLIGHT" \in features => Resumes("kbd_led")
      BY DEF Resumes, Suspends, SuspendNeeds, Supports, Boosting, Modes, Priority
    <3>2. Coloured => Resumes("kbd_led")
      BY <1>11, <3>1, FeatureLemma DEF IInv, Coloured
    <3>3. {"ctgp", "battery", "usb_c", "kbd_led"} \subseteq DOMAIN ResumeCalls
      BY DEF ResumeCalls
    <3>4. QED
      BY <1>1, <1>11, <1>17, <3>1, <3>2, <3>3
  <2>2. Alive(sys')
    BY <1>4, <1>10 DEF Alive
  <2>3. Coherent(sys')
    <3>1. \A f \in {"project", "has_gpu"} : f \in DOMAIN sys.cache => sys.cache[f] = ResetEC[f]
      BY <1>11 DEF IInv, CacheInv
    <3>2. sys'.ec["project"] = ResetEC["project"] /\ sys'.ec["has_gpu"] = ResetEC["has_gpu"]
      BY <1>13 DEF EcTyped
    <3>3. QED
      BY <1>10, <1>12, <1>17, <3>1, <3>2 DEF Coherent
  <2>4. "sync" \notin pc' /\ "transport" \notin pc'
    BY <1>3, <1>11, <1>17
  <2>5. QED
    BY <1>11, <1>14, <1>15, <1>17, <2>1, <2>2, <2>3, <2>4, ResumeWorks
<1>18. QED
  BY <1>8, <1>16, <1>17

\* What a call restores leaves the cached settings alone, but for the boost.
LEMMA RestoredLemma ==
  /\ (RestoredFields \cup {"ctgp_general", "ctgp_on"})
       \cap (LightFields \cup {"rgb"} \cup Fixed) = {}
  /\ "ctgp_on" \notin RestoredFields /\ "ctgp_general" \notin RestoredFields
BY DEF RestoredFields, KbdFields, LightFields, Fixed

LEMMA RestoreStep ==
  ASSUME IInv, phase = "resume", NEW c \in Due(ResumeCalls), NEW n \in Nat,
         c \notin {"transport", "sync"},
         Ends(n, ResumeCall(Armed(n), c)),
         AfterCall(c, ResumeCall(Armed(n), c).ok),
         UNCHANGED <<machine, features, queue, pending, requests, sleeps, unloads>>
  PROVE  IInv'
<1> DEFINE s == Armed(n)
           t == ResumeCall(s, c)
           F == IF c = "ctgp" THEN RestoredFields \cup {"ctgp_general", "ctgp_on"}
                ELSE RestoredFields
<1>1. c \in DOMAIN ResumeCalls /\ Resumes(c) /\ c \in pc
  BY ResumeOrder
<1>2. "transport" \notin pc /\ "sync" \notin pc
  <2>1. /\ {"transport", "sync"} \subseteq DOMAIN ResumeCalls
        /\ \A d \in {"transport", "sync"} : ~ (ResumeCalls[c] <= ResumeCalls[d])
    BY <1>1 DEF ResumeCalls
  <2>2. QED
    BY <2>1, ResumeOrder
<1>3. Alive(sys) /\ Coherent(sys)
  BY <1>2 DEF IInv, AliveInv, SyncInv
<1>4. /\ Sys(s) /\ s.ok = TRUE /\ s.ec = sys.ec /\ s.cache = sys.cache
      /\ s.last = sys.last /\ s.cache_only = sys.cache_only
  BY ArmedLemma
<1>5. Resumed(s, t, c)
  BY <1>1, <1>4, ResumeLemma
<1>6. Ends(n, t) /\ AfterCall(c, t.ok)
  OBVIOUS
<1> HIDE DEF t
<1>7. Touches(s, t, F, {})
  BY <1>5 DEF Resumed
<1>8. /\ Stepped(sys, sys', F, {}, t.ok) /\ t.ok \in BOOLEAN
      /\ n = 0 /\ Asleep = FALSE => t.ok = TRUE
      /\ sys'.ec = t.ec /\ sys'.cache = t.cache /\ sys'.last = t.last
      /\ Same(t, sys') /\ Same(s, sys)
      /\ faults' \in Nat /\ (faults' = 0 => n = 0 /\ faults = 0)
  <2>1. Ends(n, t) /\ Touches(Armed(n), t, F, {})
    BY <1>6, <1>7
  <2> HIDE DEF F
  <2>2. QED
    BY <2>1, EndsLemma
<1> HIDE DEF s
<1>9. /\ Bound /\ Bound' /\ Asleep = FALSE /\ Asleep' = FALSE
      /\ phase' \in Phase /\ lost' \subseteq Everything \cup Minor
      /\ "uneven" \in lost => "uneven" \in lost'
      /\ \A d : Past(d) /\ Past(d)' = Past(d)
      /\ t.ok = FALSE => phase' = "on" /\ pc' = {} /\ "manual" \in lost'
      /\ t.ok = TRUE => /\ pc' = pc \ {c}
                        /\ phase' = IF pc' = {} THEN "on" ELSE "resume"
                        /\ lost' = IF pc' = {} THEN Mended ELSE lost
  BY <1>6, <1>8, AfterLemma
<1>10. sys.cache_only = FALSE
  BY <1>9 DEF IInv, SysInv
<1>11. /\ F \cap (LightFields \cup {"rgb"} \cup Fixed) = {} /\ "rgb" \notin F
       /\ c # "ctgp" => "ctgp_on" \notin F /\ "ctgp_general" \notin F
  BY RestoredLemma
<1> HIDE DEF F
<1>12. sys'.last["charge"] = sys.last["charge"] /\ sys'.last["usb_c"] = sys.last["usb_c"]
  BY <1>8 DEF Stepped, LastPart
<1>13. c = "usb_c" => Priority
  BY <1>1 DEF Resumes, Supports, Priority
<1>14. /\ sys'.ec["profile"] = sys.ec["profile"]
          \/ (Modes /\ sys'.ec["profile"] = ChargingProfile[sys.last["charge"]])
       /\ sys'.ec["usb_c"] = sys.ec["usb_c"]
          \/ (Priority /\ sys'.ec["usb_c"] = usb_c_power_priority_value[sys.last["usb_c"]])
  BY <1>4, <1>5, <1>8, <1>13 DEF Resumed
<1>15. sys'.ec["usb_c"] \in {0, 1} /\ sys'.ec["profile"] \in 0..3
  <2>1. sys.ec["usb_c"] \in {0, 1} /\ sys.ec["profile"] \in 0..3
    BY DEF IInv, SysInv, EcTyped
  <2>2. QED
    BY <1>9, <1>14, <2>1, RememberedValues
<1>16. Boosting => /\ sys'.cache["ctgp_general"] = 1
                   /\ c # "ctgp" => sys'.cache["ctgp_on"] = sys.cache["ctgp_on"]
                   /\ c = "ctgp" /\ t.ok = TRUE => sys'.cache["ctgp_on"] = 1
  <2>1. Boosting => /\ "ctgp_on" \notin F => sys'.cache["ctgp_on"] = sys.cache["ctgp_on"]
                    /\ "ctgp_general" \notin F => sys'.cache["ctgp_general"] = 1
                    /\ {"ctgp_general", "ctgp_on"} \subseteq DOMAIN sys.cache
                    /\ sys.cache["ctgp_general"] = 1
    BY <1>8, <1>9, BoostKept
  <2>2. c = "ctgp" => Boosts(s, t, 1)
    BY <1>5 DEF Resumed
  <2>3. QED
    BY <1>4, <1>8, <1>11, <2>1, <2>2 DEF Boosts
<1>17. Respects(F)
  BY <1>8, <1>9, <1>11, <1>12, <1>15, <1>16, QuietRespects
<1>18. /\ SysInv' /\ FeatureInv' /\ CacheInv' /\ LastInv'
       /\ Alive(sys') = Alive(sys)
  BY <1>8, <1>9, <1>17, BoundStep
<1>19. CountInv'
  BY <1>8, <1>9 DEF IInv, CountInv
<1>20. CASE t.ok = FALSE
  BY <1>9, <1>18, <1>19, <1>20, ResumeFails
<1>21. CASE t.ok = TRUE
  <2>1. pc' = pc \ {c} /\ "sync" \notin pc'
    BY <1>2, <1>9, <1>21
  <2>2. Alive(sys') /\ Coherent(sys')
    BY <1>3, <1>8, <1>10, <1>18, <1>21 DEF Stepped
  <2>3. ASSUME Boosting, "ctgp" \notin pc'
        PROVE  sys'.cache["ctgp_on"] = 1
    <3>1. CASE c = "ctgp"
      BY <1>16, <1>21, <2>3, <3>1
    <3>2. CASE c # "ctgp"
      <4>1. sys.cache["ctgp_on"] = 1
        BY <2>1, <2>3, <3>2 DEF IInv, BoostInv
      <4>2. QED
        BY <1>16, <2>3, <3>2, <4>1
    <3>3. QED
      BY <3>1, <3>2
  <2>4. ASSUME Coloured, "kbd_led" \notin pc'
        PROVE  sys'.ec["shown"] = sys'.ec["rgb"]
    <3>1. CASE c = "kbd_led"
      <4>1. machine.single = FALSE /\ InRange(sys)
        BY <1>9, <2>4 DEF Coloured, IInv, CacheInv
      <4>2. sys.ec["rgb"] \in 1..50
        BY <1>3, <4>1 DEF InRange, Coherent
      <4>3. sys'.ec["rgb"] = sys.ec["rgb"]
        BY <1>8, <1>11, PlainFields DEF Stepped
      <4>4. Alive(s) /\ s.cache_only = FALSE
        BY <1>3, <1>4, <1>8, <1>10 DEF Same
      <4>5. sys'.ec["shown"] = Applied(sys.ec)
        BY <1>4, <1>5, <1>8, <1>21, <3>1, <4>1, <4>4 DEF Resumed
      <4>6. QED
        BY <4>2, <4>3, <4>5 DEF Applied
    <3>2. CASE c # "kbd_led"
      <4>1. sys.ec["shown"] = sys.ec["rgb"]
        BY <2>1, <2>4, <3>2 DEF IInv, ShownInv
      <4>2. QED
        BY <1>3, <1>8, <1>9, <1>11, <2>4, <4>1, ColourKept
    <3>3. QED
      BY <3>1, <3>2
  <2>5. ASSUME pending = FALSE, "adapter" \notin lost
        PROVE  /\ Modes /\ "battery" \notin pc' => ChargeSet(sys')
               /\ Priority /\ "usb_c" \notin pc' => UsbCSet(sys')
    <3>1. Alive(s) /\ s.cache_only = FALSE
      BY <1>3, <1>4, <1>8, <1>10, <2>5 DEF Same
    <3>2. /\ Modes => sys'.last["charge"] \in DOMAIN ChargingProfile
          /\ Priority => sys'.last["usb_c"] \in DOMAIN usb_c_power_priority_value
      BY <1>9, <1>12 DEF IInv, LastInv
    <3>3. /\ c = "battery" /\ Modes
               => sys'.ec["profile"] = ChargingProfile[sys.last["charge"]]
          /\ c = "usb_c" => sys'.ec["usb_c"] = usb_c_power_priority_value[sys.last["usb_c"]]
      BY <1>4, <1>5, <1>8, <1>21, <3>1 DEF Resumed
    <3>4. /\ c # "battery" /\ Modes /\ "battery" \notin pc' => ChargeSet(sys)
          /\ c # "usb_c" /\ Priority /\ "usb_c" \notin pc' => UsbCSet(sys)
      BY <2>1, <2>5, <3>1 DEF IInv, AdapterInv
    <3>5. Modes /\ "battery" \notin pc' => ChargeSet(sys')
      BY <1>12, <1>14, <3>2, <3>3, <3>4 DEF ChargeSet
    <3>6. Priority /\ "usb_c" \notin pc' => UsbCSet(sys')
      BY <1>12, <1>14, <3>2, <3>3, <3>4 DEF UsbCSet
    <3>7. QED
      BY <3>5, <3>6
  <2>6. QED
    BY <1>9, <1>18, <1>19, <1>21, <2>1, <2>2, <2>3, <2>4, <2>5, ResumeWorks
<1>22. QED
  BY <1>8, <1>20, <1>21

LEMMA ResumeCallStep ==
  ASSUME IInv, ResumeStep
  PROVE  IInv'
<1>1. PICK c \in Due(ResumeCalls), n \in Fuses(12) :
        /\ Ends(n, ResumeCall(Armed(n), c))
        /\ pc' = IF ResumeCall(Armed(n), c).ok THEN pc \ {c} ELSE {}
        /\ phase' = IF pc' = {} THEN "on" ELSE "resume"
        /\ lost' = CASE ~ResumeCall(Armed(n), c).ok -> Mended \cup Everything
                     [] ResumeCall(Armed(n), c).ok /\ pc' = {} -> Mended
                     [] OTHER -> lost
  BY DEF ResumeStep
<1>2. /\ phase = "resume"
      /\ UNCHANGED <<machine, features, queue, pending, requests, sleeps, unloads>>
  BY DEF ResumeStep
<1>3. n \in Nat
  BY FuseLemma
<1>4. AfterCall(c, ResumeCall(Armed(n), c).ok)
  BY <1>1 DEF AfterCall
<1>5. Ends(n, ResumeCall(Armed(n), c))
  BY <1>1
<1>6. CASE c = "transport"
  BY <1>2, <1>3, <1>4, <1>5, <1>6, TransportStep
<1>7. CASE c = "sync"
  BY <1>2, <1>3, <1>4, <1>5, <1>7, SyncStep
<1>8. CASE c \notin {"transport", "sync"}
  BY <1>2, <1>3, <1>4, <1>5, <1>8, RestoreStep
<1>9. QED
  BY <1>6, <1>7, <1>8
-----------------------------------------------------------------------------
(* Probing and removal                                                     *)

\* Whatever the probe and the removal do, the EC and the cache have values
\* of their kinds.
LEMMA LoadStep ==
  ASSUME IInv, UNCHANGED machine, NEW n \in Nat, NEW t, Ends(n, t), Sys(t), RgbTyped(t),
         t.window = sys.window, t.cache_only = FALSE, Asleep' = FALSE,
         \A f \in {"profile", "usb_c", "project", "has_gpu"} : t.ec[f] = sys.ec[f]
  PROVE  /\ SysInv' /\ Same(t, sys') /\ sys'.ec = t.ec /\ sys'.cache = t.cache
         /\ faults' \in Nat /\ (faults' = 0 => n = 0 /\ faults = 0)
<1>1. /\ Sys(sys') /\ sys'.ok = TRUE /\ sys'.fuse = 0
      /\ sys'.ec = t.ec /\ sys'.cache = t.cache /\ sys'.last = t.last
      /\ sys'.window = t.window /\ sys'.use_wmi = t.use_wmi
      /\ sys'.cache_only = t.cache_only /\ sys'.dirty = t.dirty
      /\ faults' \in Nat /\ (faults' = 0 => n = 0 /\ faults = 0)
  BY EndsPlain
<1>2. Same(t, sys')
  BY <1>1, SameLemma
<1>3. RgbTyped(sys')
  BY <1>2 DEF Same
<1>4. EcTyped(sys'.ec)
  BY <1>1 DEF IInv, SysInv, EcTyped
<1>5. machine'.fallback = FALSE => sys'.window = TRUE
  BY <1>1 DEF IInv, SysInv
<1>6. SysInv'
  BY <1>1, <1>3, <1>4, <1>5 DEF SysInv
<1>7. QED
  BY <1>1, <1>2, <1>6

\* A probe begins with an empty cache, and what a driver has left to the EC.
LEMMA ProbeBegins ==
  ASSUME IInv, Probe
  PROVE  IInv'
<1>1. /\ phase = "unloaded" /\ phase' = "probing" /\ pc' = DOMAIN ProbeCalls
      /\ features' = machine.features /\ sys' = Fresh(sys)
      /\ UNCHANGED <<machine, queue, pending, lost, requests, faults, sleeps, unloads>>
  BY DEF Probe, Bound
<1>2. {"ec", "battery", "led", "kbd_led", "ctgp", "usb_c"} \subseteq pc'
  BY <1>1 DEF ProbeCalls
<1>3. /\ Sys(sys') /\ sys'.ec = sys.ec /\ sys'.window = sys.window
      /\ sys'.ok = TRUE /\ sys'.fuse = 0 /\ sys'.cache_only = FALSE
      /\ DOMAIN sys'.cache = {}
  BY <1>1, FreshLemma DEF IInv, SysInv
<1>4. /\ Asleep' = FALSE /\ Bound' /\ Coloured' = Coloured
      /\ \A c \in {"ec", "battery", "led", "kbd_led", "ctgp", "usb_c"} : ~Past(c)'
  BY <1>1, <1>2 DEF Asleep, Bound, Coloured, Past
<1>5. SysInv'
  BY <1>1, <1>3, <1>4 DEF IInv, SysInv, RgbTyped
<1>6. CountInv' /\ FeatureInv'
  BY <1>1 DEF IInv, CountInv, FeatureInv, Phase
<1>7. CallInv' /\ QueueInv'
  BY <1>1, QueueEmpty DEF IInv, CallInv, Left, QueueInv
<1>8. CacheInv' /\ LastInv' /\ AliveInv'
  BY <1>1, <1>2, <1>3, <1>4 DEF CacheInv, LastInv, AliveInv
<1>9. SyncInv'
  BY <1>1, <1>3, <1>4 DEF SyncInv, Coherent
<1>10. ManualInv' /\ BoostInv' /\ ShownInv'
  BY <1>1, <1>3, <1>4 DEF IInv, ManualInv, BoostInv, ShownInv, Honest
<1>11. AdapterInv'
  BY <1>1, <1>4 DEF AdapterInv
<1>12. QED
  BY <1>5, <1>6, <1>7, <1>8, <1>9, <1>10, <1>11 DEF IInv

\* The first call hands the EC over to the driver.
LEMMA ProbeOpens ==
  ASSUME IInv, phase = "probing", "ec" \in Due(ProbeCalls), NEW n \in Nat,
         Registered(ProbeCall(Armed(n), "ec"), "ec").ok,
         ProbeWorks(n, "ec", Registered(ProbeCall(Armed(n), "ec"), "ec")),
         UNCHANGED <<machine, pending, requests, sleeps, unloads>>
  PROVE  IInv'
<1> DEFINE s == Armed(n)
           tried == ProbeCall(s, "ec")
           t == Registered(tried, "ec")
<1>1. pc = DOMAIN ProbeCalls
  <2>1. Left(ProbeCalls, DOMAIN ProbeCalls)
    BY DEF IInv, CallInv
  <2>2. \A d \in DOMAIN ProbeCalls : ProbeCalls["ec"] <= ProbeCalls[d]
    BY DEF ProbeCalls
  <2>3. QED
    BY <2>1, <2>2 DEF Due, Left
<1>2. /\ pc' = DOMAIN ProbeCalls \ {"ec"} /\ "input" \in pc'
      /\ {"battery", "led", "kbd_led", "ctgp", "usb_c"} \subseteq pc'
  BY <1>1 DEF ProbeWorks, ProbeCalls
<1>3. /\ Ends(n, t) /\ phase' = "probing" /\ features' = features /\ queue' = queue
      /\ lost' = lost \ {"manual"}
  BY <1>2 DEF ProbeWorks
<1>4. /\ Sys(s) /\ s.ec = sys.ec /\ s.cache = sys.cache /\ s.window = sys.window
      /\ s.cache_only = sys.cache_only
  BY ArmedLemma
<1>5. DOMAIN sys.cache = {} /\ sys.cache_only = FALSE
  <2>1. "ec" \in pc /\ Asleep = FALSE
    BY <1>1 DEF ProbeCalls, Asleep
  <2>2. QED
    BY <2>1 DEF IInv, SyncInv, SysInv
<1>6. Opens(s, tried, t)
  <2>1. RgbTyped(s)
    BY <1>4, <1>5 DEF IInv, SysInv, RgbTyped
  <2>2. machine.fallback \in BOOLEAN /\ (machine.fallback = FALSE => s.window = TRUE)
    BY <1>4, MachineLemma DEF IInv, SysInv, CountInv
  <2> HIDE DEF s
  <2>3. QED
    BY <1>4, <1>5, <2>1, <2>2, OpenLemma
<1>7. t.ok = TRUE
  BY <1>6 DEF Opens, Sys
<1> HIDE DEF s, tried, t
<1>8. /\ Alive(t) /\ "manual" \in DOMAIN t.cache /\ t.cache["manual"] = 1
      /\ Coherent(t) /\ (Honest(s) => Honest(t))
  BY <1>6, <1>7 DEF Opens
<1>9. Asleep' = FALSE /\ Awake' /\ Bound' /\ Bound /\ Coloured' = Coloured /\ Boosting' = Boosting
      /\ \A c \in {"battery", "led", "kbd_led", "ctgp", "usb_c"} : ~Past(c)'
  BY <1>2, <1>3 DEF Asleep, Awake, Bound, Coloured, Boosting, Past
<1>10. /\ SysInv' /\ Same(t, sys') /\ sys'.ec = t.ec /\ sys'.cache = t.cache
       /\ faults' \in Nat
  <2>1. {"profile", "usb_c", "project", "has_gpu"} \subseteq (EcField \ Effect) \ {"manual"}
    BY DEF EcField, Field, RegisterOf, Effect
  <2>2. \A f \in {"profile", "usb_c", "project", "has_gpu"} : t.ec[f] = sys.ec[f]
    BY <1>4, <1>6, <2>1 DEF Opens
  <2>3. Sys(t) /\ RgbTyped(t) /\ t.window = sys.window /\ t.cache_only = FALSE
    BY <1>4, <1>6 DEF Opens
  <2>4. QED
    BY <1>3, <1>9, <2>2, <2>3, LoadStep
<1>11. CountInv' /\ FeatureInv'
  BY <1>3, <1>9, <1>10 DEF IInv, CountInv, FeatureInv, Phase
<1>12. CallInv'
  <2>1. \A c \in pc', d \in DOMAIN ProbeCalls : ProbeCalls[c] <= ProbeCalls[d] => d # "ec"
    BY <1>2 DEF ProbeCalls
  <2>2. QED
    BY <1>2, <1>3, <2>1 DEF CallInv, Left
<1>13. QueueInv'
  BY <1>1, <1>2, <1>3, QueueKept DEF IInv
<1>14. CacheInv' /\ LastInv'
  <2>1. \A f \in {"project", "has_gpu"} : f \in DOMAIN sys'.cache => sys'.cache[f] = ResetEC[f]
    BY <1>8, <1>10 DEF SysInv, EcTyped, Coherent
  <2>2. QED
    BY <1>8, <1>9, <1>10, <2>1 DEF CacheInv, LastInv
<1>15. AliveInv' /\ SyncInv'
  <2>1. Alive(sys') /\ Coherent(sys')
    BY <1>8, <1>10 DEF Same
  <2>2. QED
    BY <1>2, <1>3, <1>9, <2>1 DEF AliveInv, SyncInv
<1>16. ManualInv'
  BY <1>2, <1>3, <1>8, <1>10 DEF ManualInv, Coherent
<1>17. BoostInv' /\ AdapterInv'
  BY <1>3, <1>9 DEF BoostInv, AdapterInv
<1>18. ShownInv'
  <2>1. Coloured /\ "colour" \notin lost => Honest(sys)
    BY <1>1 DEF IInv, ShownInv, ProbeCalls
  <2>2. Coloured /\ "colour" \notin lost => Honest(sys')
    BY <1>4, <1>8, <1>10, <2>1 DEF Same, Honest
  <2>3. QED
    BY <1>3, <1>9, <2>2 DEF ShownInv
<1>19. QED
  BY <1>10, <1>11, <1>12, <1>13, <1>14, <1>15, <1>16, <1>17, <1>18 DEF IInv

\* The calls of the probe before c are done, and those after it are not.
LEMMA ProbeOrder ==
  ASSUME IInv, phase = "probing", NEW c \in Due(ProbeCalls)
  PROVE  /\ c \in DOMAIN ProbeCalls /\ c \in pc
         /\ \A d \in DOMAIN ProbeCalls : ProbeCalls[c] <= ProbeCalls[d] => d \in pc
         /\ c # "ec" => "ec" \notin pc
         /\ Left(ProbeCalls, DOMAIN ProbeCalls)
         /\ pc \ {c} \subseteq DOMAIN ProbeCalls
         /\ \A x \in pc \ {c} : \A d \in DOMAIN ProbeCalls :
              ProbeCalls[x] <= ProbeCalls[d] => d \in pc \ {c}
<1>1. Left(ProbeCalls, DOMAIN ProbeCalls)
  BY DEF IInv, CallInv
<1>2. /\ c \in DOMAIN ProbeCalls /\ c \in pc
      /\ pc \ {c} \subseteq DOMAIN ProbeCalls
      /\ \A x \in pc \ {c} : \A d \in DOMAIN ProbeCalls :
           ProbeCalls[x] <= ProbeCalls[d] => d \in pc \ {c}
      /\ \A d \in DOMAIN ProbeCalls : ProbeCalls[c] <= ProbeCalls[d] => d \in pc
      /\ \A d \in pc : ProbeCalls[c] <= ProbeCalls[d]
  <2> DEFINE All == DOMAIN ProbeCalls
  <2>1. All \in SUBSET DOMAIN ProbeCalls /\ Left(ProbeCalls, All)
    BY <1>1
  <2> HIDE DEF All
  <2>2. /\ c \in All /\ c \in pc /\ pc \ {c} \subseteq All
        /\ \A x \in pc \ {c} : \A d \in All : ProbeCalls[x] <= ProbeCalls[d] => d \in pc \ {c}
        /\ \A d \in All : ProbeCalls[c] <= ProbeCalls[d] => d \in pc
        /\ \A d \in pc : ProbeCalls[c] <= ProbeCalls[d]
    BY <2>1, LeftLemma, DueLemma
  <2>3. QED
    BY <2>2 DEF All
<1>3. c # "ec" => ~ (ProbeCalls[c] <= ProbeCalls["ec"])
  BY <1>2 DEF ProbeCalls
<1>4. QED
  BY <1>1, <1>2, <1>3

\* What a call of the probe keeps, and what it alone sets up.
LEMMA ProbeGoesOn ==
  ASSUME IInv, phase = "probing", NEW c \in Due(ProbeCalls), c # "ec", NEW n \in Nat,
         Registered(ProbeCall(Armed(n), c), c).ok,
         ProbeWorks(n, c, Registered(ProbeCall(Armed(n), c), c)),
         UNCHANGED <<machine, pending, requests, sleeps, unloads>>
  PROVE  IInv'
<1> DEFINE s == Armed(n)
           t == Registered(ProbeCall(s, c), c)
           F == ProbeFields(c)
           L == ProbeLast(c)
<1>1. /\ c \in DOMAIN ProbeCalls /\ c \in pc /\ "ec" \notin pc
      /\ \A d \in DOMAIN ProbeCalls : ProbeCalls[c] <= ProbeCalls[d] => d \in pc
      /\ pc \ {c} \subseteq DOMAIN ProbeCalls
      /\ \A x \in pc \ {c} : \A d \in DOMAIN ProbeCalls :
           ProbeCalls[x] <= ProbeCalls[d] => d \in pc \ {c}
  BY ProbeOrder
<1>2. /\ Ends(n, t) /\ pc' = pc \ {c} /\ queue' = queue /\ lost' = lost
      /\ phase' = IF pc' = {} THEN "on" ELSE "probing"
      /\ features' = IF c = "device" THEN FeaturesAfter(t) ELSE features
  BY DEF ProbeWorks
<1>3. /\ Sys(s) /\ s.ec = sys.ec /\ s.cache = sys.cache /\ s.window = sys.window
      /\ s.cache_only = sys.cache_only /\ s.last = sys.last
  BY ArmedLemma
<1>4. Probed(s, t, c)
  <2>1. RgbTyped(s)
    BY <1>3 DEF IInv, SysInv, RgbTyped
  <2> HIDE DEF s
  <2>2. QED
    BY <1>1, <1>3, <2>1, ProbedLemma
<1>5. Sys(t) /\ t.ok = TRUE
  BY <1>4 DEF Probed, Survives, Sys
<1> HIDE DEF t
<1>6. Touches(s, t, F, L) /\ SetUp(s, t, c) /\ Survives(s, t, F \ {"has_gpu"})
  BY <1>4, <1>5 DEF Probed
<1>7. /\ Stepped(sys, sys', F, L, TRUE)
      /\ sys'.ec = t.ec /\ sys'.cache = t.cache /\ sys'.last = t.last
      /\ Same(t, sys') /\ Same(s, sys) /\ faults' \in Nat
  <2>1. Ends(n, t) /\ Touches(Armed(n), t, F, L)
    BY <1>2, <1>6
  <2> HIDE DEF F, L, s
  <2>2. QED
    BY <1>5, <2>1, EndsLemma DEF s
<1> HIDE DEF s
\* The phases and the calls
<1>8. /\ Bound /\ Bound' /\ Awake /\ Awake' /\ Asleep = FALSE /\ Asleep' = FALSE
      /\ phase' \in {"on", "probing"} /\ Sound' = Sound
  BY <1>2 DEF Bound, Awake, Asleep, Sound
<1>9. /\ Past("ec") /\ "manual" \notin lost /\ Alive(sys) /\ sys.cache_only = FALSE
      /\ Sound => Coherent(sys)
  BY <1>1, <1>8 DEF IInv, AliveInv, SyncInv, SysInv, Past
<1>10. \A d \in DOMAIN ProbeCalls : Past(d)' => d = c \/ Past(d)
  <2>1. pc \subseteq DOMAIN ProbeCalls
    BY <1>1
  <2>2. QED
    BY <1>2, <2>1 DEF Past
<1>11. {"ec", "battery", "led", "kbd_led", "ctgp", "usb_c", "device", "input"} \subseteq DOMAIN ProbeCalls
  BY DEF ProbeCalls
<1>12. c = "device" => /\ {"battery", "led", "kbd_led", "platform_profile", "ctgp"} \subseteq pc
                       /\ phase' = "probing" /\ "ctgp" \in pc'
  <2>1. c = "device" => {"battery", "led", "kbd_led", "platform_profile", "ctgp"} \subseteq pc
    BY <1>1 DEF ProbeCalls
  <2>2. QED
    BY <1>2, <2>1
\* The features
<1>13. FeatureInv'
  BY <1>2, <1>8 DEF IInv, FeatureInv, FeaturesAfter
<1>14. \A f : f # "NVIDIA_CTGP_CONTROL" => (f \in features' <=> f \in features)
  BY <1>8, <1>13 DEF IInv, FeatureInv
<1>15. /\ Modes' = Modes /\ Priority' = Priority /\ Coloured' = Coloured
       /\ Supports("LIGHTBAR")' = Supports("LIGHTBAR")
       /\ c # "device" => Boosting' = Boosting
       /\ Coloured => "KEYBOARD_BACKLIGHT" \in features /\ machine.single = FALSE
  BY <1>2, <1>8, <1>14, FeatureLemma
     DEF Modes, Priority, Coloured, Supports, Boosting, IInv
<1>16. QueueInv'
  <2>1. CASE c = "device"
    <3>1. DOMAIN queue = {}
      <4>1. \A a \in Led : RegisteredBy[a] \in pc
        BY <1>12, <2>1 DEF RegisteredBy, Led
      <4>2. QED
        BY <4>1 DEF IInv, QueueInv, Offered
    <3>2. QED
      BY <1>2, <3>1 DEF QueueInv
  <2>2. CASE c # "device"
    BY <1>2, <2>2, QueueKept DEF IInv
  <2>3. QED
    BY <2>1, <2>2
<1>17. CountInv'
  BY <1>2, <1>7, <1>8 DEF IInv, CountInv, Phase
<1>18. CallInv'
  BY <1>1, <1>2 DEF CallInv, Left
\* The EC and the cache
<1>19. /\ {"manual", "project", "profile", "usb_c"} \cap F = {}
       /\ c # "kbd_led" => "rgb" \notin F
       /\ c # "device" => "has_gpu" \notin F
       /\ c # "led" => LightFields \cap F = {}
       /\ c # "ctgp" =>
            {"ctgp_general", "ctgp_on", "tpp_offset", "db_offset"} \cap F = {}
       /\ c # "battery" => "charge" \notin L
       /\ c # "usb_c" => "usb_c" \notin L
  BY DEF ProbeFields, ProbeLast, LightFields, BoostFields, ColourFields, KbdFields
<1> HIDE DEF F, L
<1>20. /\ DOMAIN sys.cache \subseteq DOMAIN sys'.cache
       /\ \A f \in DOMAIN sys'.cache : f \notin F
            => f \in DOMAIN sys.cache /\ sys'.cache[f] = sys.cache[f]
       /\ \A x \in LastPart \ L : sys'.last[x] = sys.last[x]
       /\ \A f \in EcField \ Effect : f \notin F => sys'.ec[f] = sys.ec[f]
  BY <1>7 DEF Stepped
<1>21. /\ sys'.ec["profile"] = sys.ec["profile"] /\ sys'.ec["usb_c"] = sys.ec["usb_c"]
       /\ sys'.ec["project"] = sys.ec["project"] /\ sys'.ec["manual"] = sys.ec["manual"]
       /\ sys'.ec["has_gpu"] = sys.ec["has_gpu"]
  <2>1. {"profile", "usb_c", "project", "manual", "has_gpu"} \subseteq EcField \ Effect
    BY DEF EcField, Field, RegisterOf, Effect
  <2>2. t.ec["has_gpu"] = s.ec["has_gpu"]
    BY <1>6, <2>1 DEF Survives
  <2>3. QED
    BY <1>3, <1>7, <1>19, <1>20, <2>1, <2>2
<1>22. SysInv'
  <2>1. RgbTyped(t)
    BY <1>3, <1>6 DEF Survives, RgbTyped, IInv, SysInv
  <2>2. /\ Sys(t) /\ t.window = sys.window /\ t.cache_only = FALSE
        /\ \A f \in {"profile", "usb_c", "project", "has_gpu"} : t.ec[f] = sys.ec[f]
    BY <1>3, <1>6, <1>7, <1>9, <1>21 DEF Survives
  <2>3. QED
    BY <1>2, <1>8, <2>1, <2>2, LoadStep
<1>23. CacheInv'
  <2>1. "manual" \in DOMAIN sys'.cache /\ sys'.cache["manual"] = 1
    BY <1>8, <1>9, <1>19, <1>20 DEF IInv, CacheInv
  <2>2. \A f \in {"project", "has_gpu"} : f \in DOMAIN sys'.cache => sys'.cache[f] = ResetEC[f]
    <3>1. \A f \in {"project", "has_gpu"} : f \in DOMAIN sys.cache => sys.cache[f] = ResetEC[f]
      BY <1>8 DEF IInv, CacheInv
    <3>2. "project" \in DOMAIN sys'.cache => sys'.cache["project"] = ResetEC["project"]
      BY <1>19, <1>20, <3>1
    <3>3. ASSUME "has_gpu" \in DOMAIN sys'.cache
          PROVE  sys'.cache["has_gpu"] = ResetEC["has_gpu"]
      <4>1. CASE c # "device"
        BY <1>19, <1>20, <3>1, <3>3, <4>1
      <4>2. CASE c = "device"
        <5>1. Alive(s)
          BY <1>7, <1>9 DEF Same
        <5>2. OnWire(s, "has_gpu") = ResetEC["has_gpu"]
          BY <1>3, <5>1 DEF OnWire, Alive, IInv, SysInv, EcTyped
        <5>3. \/ "has_gpu" \in DOMAIN s.cache /\ t.cache["has_gpu"] = s.cache["has_gpu"]
              \/ t.cache["has_gpu"] = OnWire(s, "has_gpu")
          BY <1>6, <1>7, <3>3, <4>2 DEF SetUp
        <5>4. QED
          BY <1>3, <1>7, <3>1, <5>2, <5>3
      <4>3. QED
        BY <4>1, <4>2
    <3>4. QED
      BY <3>2, <3>3
  <2>3. ASSUME Coloured, Past("kbd_led")'
        PROVE  InRange(sys')
    <3>1. CASE c = "kbd_led"
      BY <1>6, <1>7, <1>15, <2>3, <3>1 DEF SetUp, Same
    <3>2. CASE c # "kbd_led"
      <4>1. InRange(sys)
        BY <1>8, <1>10, <1>11, <2>3, <3>2 DEF IInv, CacheInv
      <4>2. QED
        BY <1>19, <1>20, <3>2, <4>1 DEF InRange
    <3>3. QED
      BY <3>1, <3>2
  <2>4. ASSUME Boosting', Past("ctgp")'
        PROVE  /\ {"ctgp_general", "ctgp_on", "tpp_offset", "db_offset"} \subseteq DOMAIN sys'.cache
               /\ sys'.cache["ctgp_general"] = 1
               /\ sys'.cache["tpp_offset"] = 255 /\ sys'.cache["db_offset"] = 25
    <3>1. c # "device" /\ Boosting
      BY <1>12, <1>15, <2>4 DEF Past
    <3>2. CASE c = "ctgp"
      BY <1>6, <1>7, <3>1, <3>2 DEF SetUp, Boosted, Boosting
    <3>3. CASE c # "ctgp"
      <4>1. /\ {"ctgp_general", "ctgp_on", "tpp_offset", "db_offset"} \subseteq DOMAIN sys.cache
            /\ sys.cache["ctgp_general"] = 1
            /\ sys.cache["tpp_offset"] = 255 /\ sys.cache["db_offset"] = 25
        BY <1>8, <1>10, <1>11, <2>4, <3>1, <3>3 DEF IInv, CacheInv
      <4>2. QED
        BY <1>19, <1>20, <3>3, <4>1
    <3>4. QED
      BY <3>2, <3>3
  <2>5. ASSUME Supports("LIGHTBAR"), Past("led")'
        PROVE  /\ LightFields \subseteq DOMAIN sys'.cache /\ AppBits(sys')
               /\ "uneven" \notin lost => Even(sys')
    <3>1. CASE c = "led"
      BY <1>6, <1>7, <2>5, <3>1 DEF SetUp, Supports, Claimed, AppBits, Even
    <3>2. CASE c # "led"
      <4>1. /\ LightFields \subseteq DOMAIN sys.cache /\ AppBits(sys)
            /\ "uneven" \notin lost => Even(sys)
        BY <1>8, <1>10, <1>11, <2>5, <3>2 DEF IInv, CacheInv
      <4>2. \A f \in LightFields : f \in DOMAIN sys'.cache /\ sys'.cache[f] = sys.cache[f]
        BY <1>19, <1>20, <3>2, <4>1
      <4>3. QED
        BY <4>1, <4>2, StoreFieldsLemma DEF AppBits, Even
    <3>3. QED
      BY <3>1, <3>2
  <2>6. QED
    BY <1>2, <1>15, <2>1, <2>2, <2>3, <2>4, <2>5 DEF CacheInv
<1>24. /\ Modes /\ Past("battery")'
            => (c # "battery" /\ Past("battery")) \/ ChargeSet(sys')
       /\ Priority /\ Past("usb_c")'
            => (c # "usb_c" /\ Past("usb_c")) \/ UsbCSet(sys')
  <2>1. Alive(s) /\ s.ec["profile"] \in 0..3 /\ s.ec["usb_c"] \in {0, 1}
    BY <1>3, <1>7, <1>9 DEF Same, IInv, SysInv, EcTyped
  <2>2. Modes => "BATTERY_CHARGE_LIMIT" \notin features
    BY <1>8, MachineLemma, FeatureLemma DEF Modes, IInv, CountInv
  <2>3. Modes /\ c = "battery" => ChargeSet(sys')
    BY <1>6, <1>7, <2>1, <2>2 DEF SetUp, Same, Modes
  <2>4. Priority /\ c = "usb_c" => UsbCSet(sys')
    BY <1>6, <1>7, <2>1 DEF SetUp, Same, Priority
  <2>5. QED
    BY <1>10, <1>11, <2>3, <2>4
<1>25. /\ c # "battery" => sys'.last["charge"] = sys.last["charge"]
       /\ c # "usb_c" => sys'.last["usb_c"] = sys.last["usb_c"]
  BY <1>19, <1>20 DEF LastPart
<1>26. LastInv'
  BY <1>8, <1>15, <1>24, <1>25 DEF IInv, LastInv, ChargeSet, UsbCSet
<1>27. Alive(sys')
  BY <1>7, <1>9 DEF Stepped, Alive
<1>28. AliveInv' /\ ManualInv'
  <2>1. sys.ec["manual"] = 1
    BY <1>8, <1>9 DEF IInv, ManualInv
  <2>2. "ec" \notin pc'
    BY <1>1, <1>2
  <2>3. QED
    BY <1>2, <1>8, <1>9, <1>21, <1>27, <2>1, <2>2 DEF AliveInv, ManualInv
<1>29. SyncInv'
  <2>1. Sound => Coherent(sys')
    BY <1>7, <1>9 DEF Stepped
  <2>2. "ec" \notin pc'
    BY <1>1, <1>2
  <2>3. QED
    BY <1>8, <2>1, <2>2 DEF SyncInv
<1>30. BoostInv'
  <2>1. ASSUME Boosting', Past("ctgp")', lost \subseteq Minor
        PROVE  sys'.cache["ctgp_on"] = 1
    <3>1. c # "device" /\ Boosting
      BY <1>12, <1>15, <2>1 DEF Past
    <3>2. CASE c = "ctgp"
      BY <1>6, <1>7, <3>1, <3>2 DEF SetUp, Boosted, Boosting
    <3>3. CASE c # "ctgp"
      <4>1. sys.cache["ctgp_on"] = 1 /\ "ctgp_on" \in DOMAIN sys.cache
        BY <1>8, <1>10, <1>11, <2>1, <3>1, <3>3 DEF IInv, BoostInv, CacheInv
      <4>2. QED
        BY <1>19, <1>20, <3>3, <4>1
    <3>4. QED
      BY <3>2, <3>3
  <2>2. QED
    BY <1>2, <1>8, <2>1 DEF BoostInv
<1>31. ShownInv'
  <2>1. ASSUME Coloured, "kbd_led" \in pc', "colour" \notin lost
        PROVE  Honest(sys')
    <3>1. c # "kbd_led" /\ Honest(sys)
      BY <1>2, <2>1 DEF IInv, ShownInv
    <3>2. Honest(s)
      BY <1>7, <3>1 DEF Same
    <3>3. Honest(t)
      BY <1>6, <1>19, <3>1, <3>2, HonestOn
    <3>4. QED
      BY <1>7, <3>3 DEF Same
  <2>2. ASSUME Coloured, Past("kbd_led")', lost \subseteq {"uneven", "adapter"}
        PROVE  sys'.ec["shown"] = sys'.ec["rgb"]
    <3>1. Coherent(sys)
      BY <1>8, <1>9, <2>2 DEF Sound, Minor
    <3>2. CASE c = "kbd_led"
      <4>1. Honest(sys)
        BY <1>1, <2>2, <3>2 DEF IInv, ShownInv
      <4>2. Alive(s) /\ s.cache_only = FALSE /\ Coherent(s) /\ Honest(s)
        BY <1>3, <1>7, <1>9, <3>1, <4>1 DEF Same
      <4>3. Glows(t)
        BY <1>6, <1>15, <2>2, <3>2, <4>2 DEF SetUp
      <4>4. QED
        BY <1>7, <4>3 DEF Glows
    <3>3. CASE c # "kbd_led"
      <4>1. Past("kbd_led") /\ sys.ec["shown"] = sys.ec["rgb"]
        BY <1>8, <1>10, <1>11, <2>2, <3>3 DEF IInv, ShownInv
      <4>2. QED
        BY <1>7, <1>8, <1>19, <2>2, <3>1, <3>3, <4>1, ColourKept
    <3>4. QED
      BY <3>2, <3>3
  <2>3. QED
    BY <1>2, <1>8, <1>15, <2>1, <2>2 DEF ShownInv
<1>32. AdapterInv'
  <2>1. ASSUME pending = FALSE, "adapter" \notin lost, Sound
        PROVE  /\ Modes /\ Past("battery")' => ChargeSet(sys')
               /\ Priority /\ Past("usb_c")' => UsbCSet(sys')
    <3>1. /\ Modes /\ Past("battery") => ChargeSet(sys)
          /\ Priority /\ Past("usb_c") => UsbCSet(sys)
      BY <2>1 DEF IInv, AdapterInv
    <3>2. QED
      BY <1>21, <1>24, <1>25, <3>1 DEF ChargeSet, UsbCSet
  <2>2. QED
    BY <1>2, <1>8, <1>15, <2>1 DEF AdapterInv
<1>33. QED
  BY <1>13, <1>16, <1>17, <1>18, <1>22, <1>23, <1>26, <1>28, <1>29, <1>30, <1>31, <1>32
     DEF IInv

\* A probe that gives up: what it has registered is undone.
LEMMA ProbeGivesUp ==
  ASSUME IInv, phase = "probing", NEW c \in Due(ProbeCalls), NEW n \in Nat,
         ProbeFails(n, Registered(ProbeCall(Armed(n), c), c),
                    "ec" \notin pc \/ ProbeCall(Armed(n), c).ok),
         UNCHANGED <<machine, pending, requests, sleeps, unloads>>
  PROVE  IInv'
<1> DEFINE s == Armed(n)
           tried == ProbeCall(s, c)
           done == Registered(tried, c)
           entered == "ec" \notin pc \/ tried.ok
           t == Release(done, features, "kbd_led" \notin pc, "led" \notin pc, entered)
<1>1. /\ c \in DOMAIN ProbeCalls /\ c \in pc /\ (c # "ec" => "ec" \notin pc)
  BY ProbeOrder
<1>2. /\ Ends(n, t) /\ pc' = {} /\ phase' = "unloaded" /\ features' = {} /\ queue' = NoWork
      /\ lost' = (lost \cap {"manual"}) \cup {"colour"} \cup
                    (IF done.fuse = 0 THEN {} ELSE {"manual"})
  BY DEF ProbeFails
<1>3. /\ Sys(s) /\ s.ec = sys.ec /\ s.cache = sys.cache /\ s.window = sys.window
      /\ s.cache_only = sys.cache_only /\ s.use_wmi = sys.use_wmi /\ s.last = sys.last
  BY ArmedLemma
<1>4. RgbTyped(s) /\ sys.cache_only = FALSE /\ Bound /\ Same(s, sys)
  <2>1. RgbTyped(sys) /\ sys.cache_only = Asleep /\ Asleep = FALSE /\ Bound
    BY DEF IInv, SysInv, Asleep, Bound
  <2>2. Same(s, sys)
    BY <1>3, SameLemma
  <2>3. QED
    BY <1>3, <2>1, <2>2 DEF RgbTyped
<1> HIDE DEF s
<1>5. {"profile", "usb_c", "project", "has_gpu", "manual"} \subseteq EcField \ Effect
  BY DEF EcField, Field, RegisterOf, Effect
<1>6. ASSUME c = "ec"
      PROVE  Opens(s, tried, done)
  <2>1. DOMAIN s.cache = {} /\ s.cache_only = FALSE
    BY <1>1, <1>3, <1>4, <1>6 DEF IInv, SyncInv
  <2>2. machine.fallback \in BOOLEAN /\ (machine.fallback = FALSE => s.window = TRUE)
    BY <1>3, MachineLemma DEF IInv, SysInv, CountInv
  <2>3. QED
    BY <1>3, <1>4, <1>6, <2>1, <2>2, OpenLemma
<1>7. ASSUME c # "ec"
      PROVE  Survives(s, done, ProbeFields(c) \ {"has_gpu"})
  BY <1>1, <1>3, <1>4, <1>7, ProbedLemma DEF Probed
<1>8. {"profile", "usb_c", "project", "has_gpu", "manual"} \cap (ProbeFields(c) \ {"has_gpu"}) = {}
  BY DEF ProbeFields, LightFields, BoostFields, ColourFields, KbdFields
<1> HIDE DEF tried, done
\* Where the call has left the EC
<1>9. /\ Sys(done) /\ RgbTyped(done) /\ done.window = sys.window /\ done.cache_only = FALSE
      /\ \A f \in {"profile", "usb_c", "project", "has_gpu"} : done.ec[f] = sys.ec[f]
  <2>1. CASE c = "ec"
    BY <1>3, <1>5, <1>6, <2>1 DEF Opens
  <2>2. CASE c # "ec"
    BY <1>3, <1>4, <1>5, <1>7, <1>8, <2>2 DEF Survives
  <2>3. QED
    BY <2>1, <2>2
<1>10. entered = TRUE /\ "manual" \notin lost
         => Alive(done) /\ "manual" \in DOMAIN done.cache /\ done.cache["manual"] = 1
  <2>1. CASE c = "ec"
    BY <1>1, <1>6, <2>1 DEF Opens
  <2>2. CASE c # "ec"
    <3>1. /\ "manual" \in DOMAIN s.cache /\ s.cache["manual"] = 1
          /\ "manual" \notin lost => Alive(s)
      BY <1>1, <1>3, <1>4, <2>2 DEF IInv, CacheInv, AliveInv, Awake, Past, Same
    <3>2. QED
      BY <1>7, <1>8, <2>2, <3>1 DEF Survives, Alive
  <2>3. QED
    BY <2>1, <2>2
<1>11. entered = FALSE /\ "manual" \notin lost => done.ec["manual"] = 0
  <2>1. ASSUME entered = FALSE, "manual" \notin lost
        PROVE  done.ec["manual"] = 0
    <3>1. c = "ec" /\ "ec" \in pc /\ ~tried.ok
      BY <1>1, <2>1
    <3>2. sys.ec["manual"] = 0
      BY <2>1, <3>1 DEF IInv, ManualInv
    <3>3. QED
      BY <1>3, <1>6, <3>1, <3>2 DEF Opens
  <2>2. QED
    BY <2>1
\* What the release leaves
<1>12. entered \in BOOLEAN
  OBVIOUS
<1> HIDE DEF entered
<1>13. Releases(done, t, entered)
  BY <1>9, <1>12, ReleaseLemma
<1> HIDE DEF t
<1>14. /\ Sys(t) /\ RgbTyped(t) /\ t.window = sys.window /\ t.cache_only = FALSE
       /\ \A f \in {"profile", "usb_c", "project", "has_gpu"} : t.ec[f] = sys.ec[f]
  <2>1. \A f \in {"profile", "usb_c", "project", "has_gpu"} : f \notin ReleaseFields
    BY DEF ReleaseFields, ColourFields, KbdFields, LightFields
  <2>2. QED
    BY <1>5, <1>9, <1>13, <2>1 DEF Releases, Survives
<1>15. /\ Asleep' = FALSE /\ Awake' = FALSE /\ Bound' = FALSE /\ Sound' = FALSE
       /\ Boosting' = FALSE
  BY <1>2 DEF Asleep, Awake, Bound, Sound, Boosting
<1>16. /\ SysInv' /\ sys'.ec = t.ec /\ faults' \in Nat
  BY <1>2, <1>14, <1>15, LoadStep
<1>17. lost' \subseteq Everything \cup Minor /\ "colour" \in lost'
  BY <1>2 DEF Everything, Minor
<1>18. CountInv'
  BY <1>2, <1>16, <1>17 DEF IInv, CountInv, Phase
<1>19. FeatureInv' /\ CallInv' /\ QueueInv' /\ CacheInv' /\ LastInv'
  BY <1>2, <1>15 DEF FeatureInv, CallInv, QueueInv, NoWork, CacheInv, LastInv
<1>20. AliveInv' /\ SyncInv' /\ BoostInv' /\ ShownInv' /\ AdapterInv'
  BY <1>2, <1>15, <1>17 DEF AliveInv, SyncInv, BoostInv, ShownInv, AdapterInv
<1>21. ManualInv'
  <2>1. ASSUME "manual" \notin lost'
        PROVE  sys'.ec["manual"] = 0
    <3>1. "manual" \notin lost /\ done.fuse = 0
      BY <1>2, <2>1
    <3>2. CASE entered = TRUE
      BY <1>9, <1>10, <1>13, <1>16, <3>1, <3>2 DEF Releases, Works
    <3>3. CASE entered = FALSE
      BY <1>11, <1>13, <1>16, <3>1, <3>3 DEF Releases
    <3>4. QED
      BY <1>12, <3>2, <3>3
  <2>2. QED
    BY <1>15, <2>1 DEF ManualInv
<1>22. QED
  BY <1>16, <1>18, <1>19, <1>20, <1>21 DEF IInv

LEMMA ProbeCallStep ==
  ASSUME IInv, ProbeStep
  PROVE  IInv'
<1>1. PICK c \in Due(ProbeCalls), n \in Fuses(12) :
        LET tried == ProbeCall(Armed(n), c)
            done == Registered(tried, c)
        IN IF done.ok THEN ProbeWorks(n, c, done)
           ELSE ProbeFails(n, done, "ec" \notin pc \/ tried.ok)
  BY Zenon DEF ProbeStep
<1>2. phase = "probing" /\ UNCHANGED <<machine, pending, requests, sleeps, unloads>>
  BY DEF ProbeStep
<1>3. n \in Nat
  BY FuseLemma
<1> DEFINE tried == ProbeCall(Armed(n), c)
           done == Registered(tried, c)
<1>4. CASE done.ok
  <2>1. ProbeWorks(n, c, done)
    BY <1>1, <1>4, Zenon
  <2>2. QED
    BY <1>2, <1>3, <1>4, <2>1, ProbeOpens, ProbeGoesOn
<1>5. CASE ~done.ok
  <2>1. ProbeFails(n, done, "ec" \notin pc \/ tried.ok)
    BY <1>1, <1>5, Zenon
  <2>2. QED
    BY <1>2, <1>3, <2>1, ProbeGivesUp
<1>6. QED
  BY <1>4, <1>5

LEMMA UnloadStep ==
  ASSUME IInv, NEW shutdown \in BOOLEAN, Unload(shutdown)
  PROVE  IInv'
<1> DEFINE Done(n) == Release(Armed(n), features, ~shutdown, ~shutdown, TRUE)
<1>1. PICK n \in Fuses(12) :
        /\ Ends(n, Done(n))
        /\ lost' = CASE n > 0 -> {"manual", "colour"}
                     [] n = 0 /\ lost # Mended -> {"colour"} \cup (lost \cap {"manual"})
                     [] OTHER -> {}
  BY DEF Unload
<1> DEFINE s == Armed(n)
           t == Done(n)
<1>2. /\ phase = "on" /\ phase' = "unloaded" /\ features' = {} /\ queue' = NoWork
      /\ unloads' = unloads + 1
      /\ UNCHANGED <<machine, pc, pending, requests, sleeps>>
  BY DEF Unload
<1>3. n \in Nat
  BY FuseLemma
<1>4. /\ Sys(s) /\ s.fuse = n /\ s.ec = sys.ec /\ s.cache = sys.cache
      /\ s.window = sys.window /\ s.cache_only = sys.cache_only
      /\ s.use_wmi = sys.use_wmi /\ s.last = sys.last
  BY <1>3, ArmedLemma
<1>5. RgbTyped(s) /\ Same(s, sys)
  BY <1>4, SameLemma DEF IInv, SysInv, RgbTyped
<1>6. Releases(s, t, TRUE)
  <2> HIDE DEF s
  <2>1. QED
    BY <1>4, <1>5, ReleaseLemma DEF s
<1> HIDE DEF s, t, Done
<1>7. Ends(n, t)
  BY <1>1 DEF t
<1>8. /\ Asleep = FALSE /\ Asleep' = FALSE /\ Awake /\ Awake' = FALSE /\ Bound
      /\ Bound' = FALSE /\ Sound' = FALSE /\ Boosting' = FALSE
      /\ Coloured' = Coloured
  BY <1>2 DEF Asleep, Awake, Bound, Sound, Boosting, Coloured
<1>9. sys.cache_only = FALSE
  BY <1>8 DEF IInv, SysInv
<1>10. /\ Sys(t) /\ RgbTyped(t) /\ t.window = sys.window /\ t.cache_only = FALSE
       /\ \A f \in {"profile", "usb_c", "project", "has_gpu"} : t.ec[f] = sys.ec[f]
  <2>1. \A f \in {"profile", "usb_c", "project", "has_gpu"} : f \notin ReleaseFields
    BY DEF ReleaseFields, ColourFields, KbdFields, LightFields
  <2>2. QED
    BY <1>4, <1>5, <1>6, <1>9, <2>1, PlainFields DEF Releases, Survives
<1>11. /\ SysInv' /\ Same(t, sys') /\ sys'.ec = t.ec /\ sys'.cache = t.cache
       /\ faults' \in Nat /\ (faults' = 0 => n = 0 /\ faults = 0)
  BY <1>2, <1>3, <1>7, <1>8, <1>10, LoadStep
<1>12. /\ n > 0 => lost' = {"manual", "colour"}
       /\ n = 0 /\ lost # Mended => lost' = {"colour"} \cup (lost \cap {"manual"})
       /\ n = 0 /\ lost = Mended => lost' = {}
  BY <1>1, <1>3
<1>13. CountInv'
  BY <1>2, <1>3, <1>11, <1>12 DEF IInv, CountInv, Phase, Minor, Everything
<1>14. CallInv' /\ FeatureInv' /\ QueueInv' /\ CacheInv' /\ LastInv'
  BY <1>2, <1>8 DEF IInv, CallInv, FeatureInv, QueueInv, NoWork, CacheInv, LastInv
<1>15. AliveInv' /\ SyncInv' /\ AdapterInv' /\ BoostInv'
  BY <1>2, <1>8 DEF AliveInv, SyncInv, AdapterInv, BoostInv
<1>16. ManualInv'
  <2>1. ASSUME "manual" \notin lost'
        PROVE  sys'.ec["manual"] = 0
    <3>1. n = 0 /\ "manual" \notin lost
      BY <1>3, <1>12, <2>1 DEF Mended
    <3>2. Alive(s)
      BY <1>2, <1>5, <1>8, <3>1 DEF IInv, AliveInv, Same, Past
    <3>3. "manual" \in DOMAIN s.cache /\ s.cache["manual"] = 1
      BY <1>2, <1>4, <1>8 DEF IInv, CacheInv, Past
    <3>4. t.ec["manual"] = 0
      BY <1>4, <1>6, <1>9, <3>1, <3>2, <3>3 DEF Releases, Works
    <3>5. QED
      BY <1>11, <3>4
  <2>2. QED
    BY <1>2, <1>8, <2>1 DEF ManualInv
<1>17. ShownInv'
  <2>1. ASSUME Coloured, "colour" \notin lost'
        PROVE  Honest(sys')
    <3>1. n = 0 /\ lost \subseteq {"uneven", "adapter"}
      BY <1>3, <1>12, <2>1 DEF Mended
    <3>2. Sound
      BY <1>8, <3>1 DEF Sound, Minor
    <3>3. Alive(sys) /\ Coherent(sys) /\ InRange(sys) /\ sys.ec["shown"] = sys.ec["rgb"]
      BY <1>2, <1>8, <2>1, <3>1, <3>2, SoundLemma DEF IInv, CacheInv, ShownInv, Past
    <3>4. Glows(sys)
      BY <3>3 DEF Glows, InRange, Coherent
    <3>5. Works(s) /\ Coherent(s) /\ Glows(s)
      BY <1>4, <1>5, <1>9, <3>1, <3>3, <3>4 DEF Same, Works
    <3>6. Glows(t)
      BY <1>6, <2>1, <3>5 DEF Coloured, Releases
    <3>7. QED
      BY <1>11, <3>6 DEF Same, Glows, Honest
  <2>2. QED
    BY <1>2, <1>8, <2>1 DEF ShownInv
<1>18. QED
  BY <1>11, <1>13, <1>14, <1>15, <1>16, <1>17 DEF IInv
-----------------------------------------------------------------------------
(* The theorems                                                            *)

LEMMA StutterStep ==
  ASSUME IInv, UNCHANGED vars
  PROVE  IInv'
<1>1. UNCHANGED <<machine, features, phase, pc, sys, queue, pending, lost,
                  requests, faults, sleeps, unloads>>
  BY DEF vars
<1>2. CountInv' /\ QueueInv'
  BY <1>1 DEF IInv, CountInv, QueueInv, Offered, Supports
<1>3. /\ SysInv' /\ FeatureInv' /\ CallInv' /\ CacheInv' /\ LastInv'
      /\ AliveInv' /\ SyncInv' /\ ManualInv' /\ BoostInv' /\ ShownInv' /\ AdapterInv'
  BY <1>1, RestStays DEF IInv
<1>4. QED
  BY <1>2, <1>3 DEF IInv

LEMMA NextStep ==
  ASSUME IInv, [Next]_vars
  PROVE  IInv'
<1>1. CASE Probe
  BY <1>1, ProbeBegins
<1>2. CASE \E a \in Setting : \E v \in Values[a] : Store(a, v)
  BY <1>2, StoreStep
<1>3. CASE Show
  BY <1>3, ShowStep
<1>4. CASE \E a \in HasKey : HotKey(a)
  BY <1>4, HotKeyStep
<1>5. CASE Plug
  BY <1>5, PlugStep
<1>6. CASE Notify
  BY <1>6, NotifyBound, NotifyUnbound
<1>7. CASE Suspend
  BY <1>7, SuspendBegins
<1>8. CASE SuspendStep
  BY <1>8, SuspendCallStep
<1>9. CASE SuspendDone
  BY <1>9, SuspendEnds
<1>10. CASE Sleep
  BY <1>10, SleepStep
<1>11. CASE Resume
  BY <1>11, ResumeBegins
<1>12. CASE ResumeStep
  BY <1>12, ResumeCallStep
<1>13. CASE \E shutdown \in BOOLEAN : Unload(shutdown)
  BY <1>13, UnloadStep
<1>14. CASE UNCHANGED vars
  BY <1>14, StutterStep
<1>15. CASE ProbeStep
  BY <1>15, ProbeCallStep
<1>16. CASE \E a \in Led : LedWork(a)
  BY <1>16, LedWorkStep
<1>17. QED
  BY <1>1, <1>2, <1>3, <1>4, <1>5, <1>6, <1>7, <1>8, <1>9, <1>10, <1>11, <1>12,
     <1>13, <1>14, <1>15, <1>16 DEF Next

\* The inductive invariant of the driver holds in every state it can be in.
THEOREM DriverInvariance == Spec => []IInv
<1>1. uniwill_init => IInv
  BY InitLemma
<1>2. IInv /\ [Next]_vars => IInv'
  BY NextStep
<1>3. QED
  BY <1>1, <1>2, PTL DEF Spec

\* Every variable of the driver holds a value of its kind: regmap caches
\* fields of the EC only, and serves from the cache only while the machine
\* is suspended.
THEOREM DriverTypeCorrect == Spec => []DriverTypeOK
BY InvTypeOK, DriverInvariance, PTL

\* What regmap caches is what the EC holds, unless an access has failed, also
\* after a suspend in which the EC forgot everything: regcache_mark_dirty and
\* regcache_sync bring them together again before any setting is restored.
THEOREM CacheIsCoherent == Spec => []CacheCoherent
BY InvCoherent, DriverInvariance, PTL

\* The lightbar looks the same on AC and on battery: the two sets of registers
\* are claimed and made alike by the probe, and each store writes both.
THEOREM LightbarIsSame == Spec => []LightbarSame
BY InvLightbar, DriverInvariance, PTL

\* The EC is in manual mode while the driver is bound and only then, also
\* after a probe that gave up half way and was undone by devm.
THEOREM ManualIsBound == Spec => []ManualWhileBound
BY InvManual, DriverInvariance, PTL

\* The charge type and the USB-C priority that the EC forgets with the power
\* adapter are in force again once the event is handled, also where the event
\* came between two functions of a probe, a suspend or a resume: but not after
\* an event that came between the copies the probe takes of them and the
\* registration of the notifier, which nobody hears, or whose handler has
\* failed, which nobody repeats, until another event or a resume.
THEOREM AdapterIsApplied == Spec => []AdapterApplied
BY InvAdapter, DriverInvariance, PTL

\* The sensors never show what a dead memory window returns: the probe and the
\* resume find the transport that answers before anything is read.
THEOREM ReadingsAreReal == Spec => []NoPhantomReadings
BY InvReadings, DriverInvariance, PTL

\* The dynamic boost of the GPU is on while the machine is in use and off
\* while it is suspended, whichever suspend was given up.
THEOREM BoostIsFollowed == Spec => []BoostFollowsPower
BY InvBoost, DriverInvariance, PTL

\* The keys show the colour that the registers hold, after stores, loads and
\* resumes in any order.
THEOREM ColourIsInForce == Spec => []ColourShown
BY InvColour, DriverInvariance, PTL
=============================================================================
