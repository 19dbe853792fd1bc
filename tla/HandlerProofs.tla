--------------------------- MODULE HandlerProofs ---------------------------
(***************************************************************************)
(* What each handler of the driver changes and what it achieves, whatever  *)
(* access fails.                                                           *)
(***************************************************************************)
EXTENDS Driver, RegmapProofs

\* The registers and what is in them.
LEMMA RegisterLemma ==
  /\ Register = {"OEM_9", "PROJECT_ID", "AP_OEM", "CTGP_CTRL", "CTGP_OFFSET",
       "TPP_OFFSET", "DB_OFFSET", "LIGHTBAR_AC", "LIGHTBAR_AC_RGB",
       "LIGHTBAR_BAT", "LIGHTBAR_BAT_RGB", "BIOS_OEM", "FAN_CTRL", "TRIGGER",
       "SWITCH_STATUS", "RGB", "SUPPORT_2", "BIOS_OEM_2", "SYSTEM_ID",
       "KBD_STATUS", "OEM_4", "CHARGE_CTRL", "USB_C", "SENSORS"}
  /\ Fields["OEM_9"] = {"ac_auto_boot"} /\ Fields["PROJECT_ID"] = {"project"}
  /\ Fields["AP_OEM"] = {"manual"}
  /\ Fields["CTGP_CTRL"] = {"ctgp_general", "ctgp_on"}
  /\ Fields["CTGP_OFFSET"] = {"ctgp_offset"}
  /\ Fields["TPP_OFFSET"] = {"tpp_offset"} /\ Fields["DB_OFFSET"] = {"db_offset"}
  /\ Fields["LIGHTBAR_AC"] = {"ac_app", "ac_off", "ac_still", "ac_rainbow"}
  /\ Fields["LIGHTBAR_AC_RGB"] = {"ac_rgb"}
  /\ Fields["LIGHTBAR_BAT"] = {"bat_app", "bat_off", "bat_still", "bat_rainbow"}
  /\ Fields["LIGHTBAR_BAT_RGB"] = {"bat_rgb"}
  /\ Fields["BIOS_OEM"] = {"fn_lock"} /\ Fields["FAN_CTRL"] = {"turbo"}
  /\ Fields["TRIGGER"] = {"usb_charging", "super_flip", "boost_flip", "apply_rgb"}
  /\ Fields["SWITCH_STATUS"] = {"super_lock", "boost"}
  /\ Fields["RGB"] = {"rgb"} /\ Fields["SUPPORT_2"] = {"china_mode"}
  /\ Fields["BIOS_OEM_2"] = {"china_on"} /\ Fields["SYSTEM_ID"] = {"has_gpu"}
  /\ Fields["KBD_STATUS"] = {"kbd_level", "kbd_off", "kbd_apply"}
  /\ Fields["OEM_4"] = {"touchpad_off", "profile"}
  /\ Fields["CHARGE_CTRL"] = {"charge_ctrl"} /\ Fields["USB_C"] = {"usb_c"}
<1>1. Register = {"OEM_9", "PROJECT_ID", "AP_OEM", "CTGP_CTRL", "CTGP_OFFSET",
       "TPP_OFFSET", "DB_OFFSET", "LIGHTBAR_AC", "LIGHTBAR_AC_RGB",
       "LIGHTBAR_BAT", "LIGHTBAR_BAT_RGB", "BIOS_OEM", "FAN_CTRL", "TRIGGER",
       "SWITCH_STATUS", "RGB", "SUPPORT_2", "BIOS_OEM_2", "SYSTEM_ID",
       "KBD_STATUS", "OEM_4", "CHARGE_CTRL", "USB_C", "SENSORS"}
  BY DEF Register, Field, RegisterOf
<1>2. \A r \in Register : Fields[r] = {f \in Field : RegisterOf[f] = r}
  BY DEF Fields
<1>3. Fields["OEM_9"] = {"ac_auto_boot"} /\ Fields["PROJECT_ID"] = {"project"}
  BY <1>1, <1>2 DEF Field, RegisterOf
<1>4. Fields["AP_OEM"] = {"manual"}
      /\ Fields["CTGP_CTRL"] = {"ctgp_general", "ctgp_on"}
  BY <1>1, <1>2 DEF Field, RegisterOf
<1>5. Fields["CTGP_OFFSET"] = {"ctgp_offset"}
      /\ Fields["TPP_OFFSET"] = {"tpp_offset"} /\ Fields["DB_OFFSET"] = {"db_offset"}
  BY <1>1, <1>2 DEF Field, RegisterOf
<1>6. Fields["LIGHTBAR_AC"] = {"ac_app", "ac_off", "ac_still", "ac_rainbow"}
      /\ Fields["LIGHTBAR_AC_RGB"] = {"ac_rgb"}
  BY <1>1, <1>2 DEF Field, RegisterOf
<1>7. Fields["LIGHTBAR_BAT"] = {"bat_app", "bat_off", "bat_still", "bat_rainbow"}
      /\ Fields["LIGHTBAR_BAT_RGB"] = {"bat_rgb"}
  BY <1>1, <1>2 DEF Field, RegisterOf
<1>8. Fields["BIOS_OEM"] = {"fn_lock"} /\ Fields["FAN_CTRL"] = {"turbo"}
  BY <1>1, <1>2 DEF Field, RegisterOf
<1>9. Fields["TRIGGER"] = {"usb_charging", "super_flip", "boost_flip", "apply_rgb"}
      /\ Fields["SWITCH_STATUS"] = {"super_lock", "boost"}
  BY <1>1, <1>2 DEF Field, RegisterOf
<1>10. Fields["RGB"] = {"rgb"} /\ Fields["SUPPORT_2"] = {"china_mode"}
  BY <1>1, <1>2 DEF Field, RegisterOf
<1>11. Fields["BIOS_OEM_2"] = {"china_on"} /\ Fields["SYSTEM_ID"] = {"has_gpu"}
  BY <1>1, <1>2 DEF Field, RegisterOf
<1>12. Fields["KBD_STATUS"] = {"kbd_level", "kbd_off", "kbd_apply"}
       /\ Fields["OEM_4"] = {"touchpad_off", "profile"}
  BY <1>1, <1>2 DEF Field, RegisterOf
<1>13. Fields["CHARGE_CTRL"] = {"charge_ctrl"} /\ Fields["USB_C"] = {"usb_c"}
  BY <1>1, <1>2 DEF Field, RegisterOf
<1>14. QED
  BY <1>1, <1>3, <1>4, <1>5, <1>6, <1>7, <1>8, <1>9, <1>10, <1>11, <1>12, <1>13

-----------------------------------------------------------------------------
(* Toggles: one volatile register                                          *)

\* An access of a volatile register touches the bits that are written.
LEMMA VolatileUpdate ==
  ASSUME NEW s, Sys(s), NEW r \in Volatile, r \in Register,
         NEW b, DOMAIN b \subseteq Fields[r]
  PROVE  Touches(s, UpdateBits(s, r, b), DOMAIN b, {})
BY UpdateBitsPuts DEF Puts

LEMMA VolatileWriteBits ==
  ASSUME NEW s, Sys(s), NEW r \in Volatile, r \in Register,
         NEW b, DOMAIN b \subseteq Fields[r]
  PROVE  Touches(s, WriteBits(s, r, b), DOMAIN b, {})
BY WriteBitsPuts DEF Puts

LEMMA VolatileRead ==
  ASSUME NEW s, Sys(s), NEW r \in Volatile, r \in Register
  PROVE  Touches(s, Read(s, r), {}, {}) /\ Sys(Read(s, r))
BY ReadTouches DEF Touches

\* One call after the other.
LEMMA TouchesThen ==
  ASSUME NEW s, NEW t, NEW u, NEW F, NEW G, NEW H, NEW L, NEW M, NEW N,
         Touches(s, t, F, L), Touches(t, u, G, M), F \cup G \subseteq H,
         L \cup M \subseteq N
  PROVE  Touches(s, u, H, N)
<1>1. Touches(s, t, H, N) /\ Touches(t, u, H, N)
  BY TouchesMore
<1>2. QED
  BY <1>1, TouchesChain

LEMMA TouchesSys ==
  ASSUME NEW s, NEW t, NEW F, NEW L, Touches(s, t, F, L)
  PROVE  Sys(t)
BY DEF Touches

LEMMA FnLockTouches ==
  ASSUME NEW s, Sys(s), NEW v
  PROVE  Touches(s, write_fn_lock(s, v), {"fn_lock"}, {})
BY VolatileUpdate, RegisterLemma, DOMAIN [fn_lock |-> v] = {"fn_lock"}
   DEF write_fn_lock, Volatile

LEMMA SuperKeyTouches ==
  ASSUME NEW s, Sys(s), NEW v
  PROVE  Touches(s, write_super_key_enable(s, v), {"super_flip"}, {})
<1> DEFINE got == Read(s, "SWITCH_STATUS")
           t == WriteBits(got, "TRIGGER", [super_flip |-> 1])
<1>1. Touches(s, got, {}, {}) /\ Sys(got)
  BY VolatileRead, RegisterLemma DEF Volatile
<1>2. write_super_key_enable(s, v) = t \/ write_super_key_enable(s, v) = got
  BY DEF write_super_key_enable
<1> HIDE DEF got
<1>3. Touches(got, t, {"super_flip"}, {})
  BY <1>1, VolatileWriteBits, RegisterLemma, DOMAIN [super_flip |-> 1] = {"super_flip"}
     DEF Volatile
<1> HIDE DEF t
<1>4. QED
  BY <1>1, <1>2, <1>3, TouchesThen, TouchesMore

LEMMA TouchpadTouches ==
  ASSUME NEW s, Sys(s), NEW v
  PROVE  Touches(s, write_touchpad_toggle_enable(s, v), {"touchpad_off"}, {})
BY VolatileUpdate, RegisterLemma, DOMAIN [touchpad_off |-> 1 - v] = {"touchpad_off"}
   DEF write_touchpad_toggle_enable, Volatile

LEMMA PowershareTouches ==
  ASSUME NEW s, Sys(s), NEW v
  PROVE  Touches(s, write_usb_powershare_high(s, v), {"usb_charging"}, {})
BY VolatileUpdate, RegisterLemma, DOMAIN [usb_charging |-> v] = {"usb_charging"}
   DEF write_usb_powershare_high, Volatile

LEMMA FanBoostTouches ==
  ASSUME NEW s, Sys(s), NEW v
  PROVE  Touches(s, write_fan_boost(s, v), {"boost_flip"}, {})
<1> DEFINE got == Read(s, "SWITCH_STATUS")
           t == WriteBits(got, "TRIGGER", [boost_flip |-> 1])
<1>1. Touches(s, got, {}, {}) /\ Sys(got)
  BY VolatileRead, RegisterLemma DEF Volatile
<1>2. write_fan_boost(s, v) = t \/ write_fan_boost(s, v) = got
  BY DEF write_fan_boost
<1> HIDE DEF got
<1>3. Touches(got, t, {"boost_flip"}, {})
  BY <1>1, VolatileWriteBits, RegisterLemma, DOMAIN [boost_flip |-> 1] = {"boost_flip"}
     DEF Volatile
<1> HIDE DEF t
<1>4. QED
  BY <1>1, <1>2, <1>3, TouchesThen, TouchesMore

LEMMA PlatformProfileTouches ==
  ASSUME NEW s, Sys(s), NEW v
  PROVE  Touches(s, platform_profile_set(s, v), {"turbo"}, {})
<1> DEFINE b == [turbo |-> IF v = "performance" THEN 1 ELSE 0]
<1>1. DOMAIN b = {"turbo"}
  OBVIOUS
<1>2. platform_profile_set(s, v) = UpdateBits(s, "FAN_CTRL", b)
  BY DEF platform_profile_set
<1> HIDE DEF b
<1>3. QED
  BY <1>1, <1>2, VolatileUpdate, RegisterLemma DEF Volatile

LEMMA ChargeLimitTouches ==
  ASSUME NEW s, Sys(s), NEW v
  PROVE  Touches(s, set_charge_limit(s, v), {"charge_ctrl"}, {})
<1> DEFINE b == [charge_ctrl |-> Larger(v, 1)]
<1>1. DOMAIN b = {"charge_ctrl"}
  OBVIOUS
<1>2. set_charge_limit(s, v) = UpdateBits(s, "CHARGE_CTRL", b)
  BY DEF set_charge_limit
<1> HIDE DEF b
<1>3. QED
  BY <1>1, <1>2, VolatileUpdate, RegisterLemma DEF Volatile

KbdFields == {"kbd_level", "kbd_apply", "kbd_off"}

LEMMA KbdLevelTouches ==
  ASSUME NEW s, Sys(s), NEW level
  PROVE  Touches(s, kbd_led_write_brightness(s, level), KbdFields, {})
<1> DEFINE b == [kbd_level |-> level, kbd_apply |-> 1, kbd_off |-> 0]
<1>1. DOMAIN b = KbdFields
  BY DEF KbdFields
<1>2. kbd_led_write_brightness(s, level) = WriteBits(s, "KBD_STATUS", b)
  BY DEF kbd_led_write_brightness
<1> HIDE DEF b
<1>3. QED
  BY <1>1, <1>2, VolatileWriteBits, RegisterLemma DEF Volatile, KbdFields

-----------------------------------------------------------------------------
(* The charge type and the USB-C priority                                  *)

\* Both are bits of a volatile register with a copy in the driver.
\* A write that works sets the bit, one that fails leaves it.
Restores(s, t, f, value) ==
  /\ Touches(s, t, {f}, {})
  /\ t.ok = TRUE /\ Alive(s) /\ s.cache_only = FALSE => t.ec[f] = value
  /\ t.ec[f] = s.ec[f] \/ t.ec[f] = value
  /\ t.ok = FALSE => t.ec[f] = s.ec[f]

LEMMA BitRestored ==
  ASSUME NEW s, Sys(s), NEW r \in Volatile, r \in Register, NEW f \in Fields[r],
         f \notin Kept, NEW b, DOMAIN b = {f}
  PROVE  Restores(s, UpdateBits(s, r, b), f, b[f])
<1> DEFINE t == UpdateBits(s, r, b)
<1>1. Puts(s, t, r, b)
  BY UpdateBitsPuts
<1> HIDE DEF t
<1>2. f \in DOMAIN b \ Kept
  OBVIOUS
<1>3. Touches(s, t, {f}, {})
  BY <1>1 DEF Puts
<1>4. QED
  BY <1>1, <1>2, <1>3 DEF Puts, Restores, t

LEMMA ChargeTypeRestored ==
  ASSUME NEW s, Sys(s), NEW v
  PROVE  Restores(s, write_charge_type(s, v), "profile", ChargingProfile[v])
<1> DEFINE b == [profile |-> ChargingProfile[v]]
<1>1. DOMAIN b = {"profile"} /\ b["profile"] = ChargingProfile[v]
  OBVIOUS
<1>2. write_charge_type(s, v) = UpdateBits(s, "OEM_4", b)
  BY DEF write_charge_type
<1> HIDE DEF b
<1>3. "profile" \in Fields["OEM_4"] /\ "profile" \notin Kept
  BY RegisterLemma DEF Kept, Command
<1>4. QED
  BY <1>1, <1>2, <1>3, BitRestored, RegisterLemma DEF Volatile

LEMMA UsbCRestored ==
  ASSUME NEW s, Sys(s), NEW v
  PROVE  Restores(s, UpdateBits(s, "USB_C", [usb_c |-> usb_c_power_priority_value[v]]),
                  "usb_c", usb_c_power_priority_value[v])
<1> DEFINE b == [usb_c |-> usb_c_power_priority_value[v]]
<1>1. DOMAIN b = {"usb_c"} /\ b["usb_c"] = usb_c_power_priority_value[v]
  OBVIOUS
<1> HIDE DEF b
<1>2. "usb_c" \in Fields["USB_C"] /\ "usb_c" \notin Kept
  BY RegisterLemma DEF Kept, Command
<1>3. Restores(s, UpdateBits(s, "USB_C", b), "usb_c", usb_c_power_priority_value[v])
  BY <1>1, <1>2, BitRestored, RegisterLemma DEF Volatile
<1>4. QED
  BY <1>3 DEF b

\* A store remembers the value where it works, and only there.
Remembers(s, t, f, value, x, v) ==
  /\ Touches(s, t, {f}, {x})
  /\ t.ok = TRUE /\ Alive(s) /\ s.cache_only = FALSE => t.ec[f] = value
  /\ t.ec[f] = s.ec[f] \/ t.ec[f] = value
  /\ t.last[x] = v \/ (t.last[x] = s.last[x])
  /\ s.ok = TRUE /\ t.ok = TRUE => t.last[x] = v
  /\ t.ok = FALSE => t.ec[f] = s.ec[f] /\ t.last[x] = s.last[x]

LEMMA RememberLemma ==
  ASSUME NEW s, NEW t, NEW f, NEW value, NEW x \in LastPart, NEW v,
         Restores(s, t, f, value)
  PROVE  Remembers(s, IF t.ok THEN [t EXCEPT !.last[x] = v] ELSE t, f, value, x, v)
<1> DEFINE u == [t EXCEPT !.last[x] = v]
<1>1. CASE t.ok = TRUE
  <2>1. Sys(t)
    BY DEF Restores, Touches
  <2>2. Touches(t, u, {}, {x}) /\ u.last[x] = v /\ u.ok = t.ok /\ u.ec = t.ec
    <3> HIDE DEF u
    <3>1. \A y \in LastPart : \A w :
            LET z == [t EXCEPT !.last[y] = w]
            IN /\ Touches(t, z, {}, {y}) /\ z.last[y] = w
               /\ z.ok = t.ok /\ z.ec = t.ec /\ z.cache = t.cache
      BY <1>1, <2>1, TouchesLast
    <3>2. QED
      BY <3>1 DEF u
  <2> HIDE DEF u
  <2>3. Touches(s, u, {f}, {x})
    BY <2>2, TouchesThen DEF Restores
  <2>4. Remembers(s, u, f, value, x, v)
    BY <1>1, <2>2, <2>3 DEF Remembers, Restores
  <2>5. QED
    BY <1>1, <2>4 DEF u
<1>2. CASE t.ok = FALSE
  <2>1. Touches(s, t, {f}, {x})
    BY TouchesMore DEF Restores
  <2>2. t.last[x] = s.last[x]
    BY DEF Restores, Touches
  <2>3. QED
    BY <1>2, <2>1, <2>2 DEF Remembers, Restores
<1>3. QED
  BY <1>1, <1>2 DEF Restores, Touches, Sys

LEMMA ChargeTypeRemembered ==
  ASSUME NEW s, Sys(s), NEW v
  PROVE  Remembers(s, set_charge_type(s, v), "profile", ChargingProfile[v], "charge", v)
<1> DEFINE t == write_charge_type(s, v)
           u == IF t.ok THEN [t EXCEPT !.last["charge"] = v] ELSE t
<1>1. set_charge_type(s, v) = u
  BY DEF set_charge_type
<1>2. Restores(s, t, "profile", ChargingProfile[v])
  BY ChargeTypeRestored
<1> HIDE DEF t
<1>3. QED
  BY <1>1, <1>2, RememberLemma DEF LastPart

LEMMA UsbCRemembered ==
  ASSUME NEW s, Sys(s), NEW v
  PROVE  Remembers(s, usb_c_power_priority_store(s, v), "usb_c",
                   usb_c_power_priority_value[v], "usb_c", v)
<1> DEFINE t == UpdateBits(s, "USB_C", [usb_c |-> usb_c_power_priority_value[v]])
           u == IF t.ok THEN [t EXCEPT !.last["usb_c"] = v] ELSE t
<1>1. usb_c_power_priority_store(s, v) = u
  BY DEF usb_c_power_priority_store
<1>2. Restores(s, t, "usb_c", usb_c_power_priority_value[v])
  BY UsbCRestored
<1> HIDE DEF t
<1>3. QED
  BY <1>1, <1>2, RememberLemma DEF LastPart
-----------------------------------------------------------------------------
(* Suspend and resume                                                      *)

LEMMA SavedTouches ==
  ASSUME NEW s, Sys(s), NEW r \in Volatile, r \in Register, NEW x \in LastPart,
         NEW value
  PROVE  Touches(s, Saved(s, r, x, value), {}, {x})
<1> DEFINE got == Read(s, r)
           t == [got EXCEPT !.last[x] = value]
<1>1. Touches(s, got, {}, {}) /\ Sys(got)
  BY VolatileRead
<1>2. Saved(s, r, x, value) = IF got.ok THEN t ELSE got
  BY DEF Saved
<1> HIDE DEF got
<1>3. CASE got.ok = TRUE
  <2>1. \A y \in LastPart : \A w : Touches(got, [got EXCEPT !.last[y] = w], {}, {y})
    BY <1>1, <1>3, TouchesLast
  <2>2. Touches(got, t, {}, {x})
    BY <2>1
  <2> HIDE DEF t
  <2>3. QED
    BY <1>1, <1>2, <1>3, <2>2, TouchesThen
<1>4. CASE got.ok = FALSE
  BY <1>1, <1>2, <1>4, TouchesMore
<1>5. QED
  BY <1>1, <1>3, <1>4 DEF Sys

LEMMA SuspendKbdTouches ==
  ASSUME NEW s, Sys(s)
  PROVE  Touches(s, suspend_kbd_led(s), KbdFields, {"kbd"})
<1> DEFINE b == [kbd_level |-> 0, kbd_apply |-> 1, kbd_off |-> 1]
           value == <<OnWire(s, "kbd_level"), OnWire(s, "kbd_off")>>
           got == Saved(s, "KBD_STATUS", "kbd", value)
           t == Write(got, "KBD_STATUS", b)
<1>1. DOMAIN b = KbdFields
  BY DEF KbdFields
<1>2. suspend_kbd_led(s) = t
  BY DEF suspend_kbd_led
<1> HIDE DEF b, value
<1>3. Touches(s, got, {}, {"kbd"})
  BY SavedTouches, RegisterLemma DEF Volatile, LastPart
<1> HIDE DEF got
<1>4. Touches(got, t, KbdFields, {})
  <2>1. Sys(got) /\ DOMAIN b = Fields["KBD_STATUS"] /\ "KBD_STATUS" \in Register
    BY <1>1, <1>3, RegisterLemma DEF KbdFields, Touches
  <2>2. Puts(got, t, "KBD_STATUS", b)
    BY <2>1, WholePuts
  <2>3. QED
    BY <1>1, <2>2 DEF Puts, Volatile
<1> HIDE DEF t
<1>5. QED
  BY <1>2, <1>3, <1>4, TouchesThen

\* The boost is one bit of a cached register.
Boosts(s, t, value) ==
  /\ Touches(s, t, {"ctgp_general", "ctgp_on"}, {})
  /\ "ctgp_general" \in DOMAIN s.cache
       => t.cache["ctgp_general"] = s.cache["ctgp_general"]
  /\ t.ok = TRUE => "ctgp_on" \in DOMAIN t.cache /\ t.cache["ctgp_on"] = value

LEMMA BoostBit ==
  ASSUME NEW s, Sys(s), NEW value
  PROVE  Boosts(s, UpdateBits(s, "CTGP_CTRL", [ctgp_on |-> value]), value)
<1> DEFINE b == [ctgp_on |-> value]
           t == UpdateBits(s, "CTGP_CTRL", b)
<1>1. DOMAIN b = {"ctgp_on"} /\ b["ctgp_on"] = value
  OBVIOUS
<1> HIDE DEF b
<1>2. Puts(s, t, "CTGP_CTRL", b)
  BY <1>1, UpdateBitsPuts, RegisterLemma
<1> HIDE DEF t
<1>3. Boosts(s, t, value)
  BY <1>1, <1>2, RegisterLemma DEF Puts, Volatile, Boosts
<1>4. QED
  BY <1>3 DEF t, b

\* The level and then the colour of the keyboard.
LEMMA ResumeKbdTouches ==
  ASSUME NEW s, Sys(s)
  PROVE  LET t == resume_kbd_led(s)
         IN /\ Touches(s, t, KbdFields \cup {"apply_rgb"}, {})
            /\ machine.single = FALSE /\ t.ok = TRUE /\ Alive(s) /\ s.cache_only = FALSE
                 => t.ec["shown"] = Applied(s.ec)
<1> DEFINE b == [kbd_level |-> s.last.kbd[1], kbd_off |-> s.last.kbd[2], kbd_apply |-> 1]
           a == [apply_rgb |-> 1]
           lit == Write(s, "KBD_STATUS", b)
           t == WriteBits(lit, "TRIGGER", a)
           F == KbdFields \cup {"apply_rgb"}
<1>1. DOMAIN b = KbdFields /\ DOMAIN a = {"apply_rgb"} /\ a["apply_rgb"] = 1
  BY DEF KbdFields
<1>2. resume_kbd_led(s) = IF machine.single THEN lit ELSE t
  BY DEF resume_kbd_led
<1> HIDE DEF a, b
<1>3. Touches(s, lit, KbdFields, {})
  <2>1. DOMAIN b = Fields["KBD_STATUS"] /\ "KBD_STATUS" \in Register
    BY <1>1, RegisterLemma DEF KbdFields
  <2>2. Puts(s, lit, "KBD_STATUS", b)
    BY <2>1, WholePuts
  <2>3. QED
    BY <1>1, <2>2 DEF Puts, Volatile
<1> HIDE DEF lit
<1>4. /\ Touches(lit, t, {"apply_rgb"}, {})
      /\ Alive(lit) /\ lit.cache_only = FALSE /\ t.ok = TRUE
           => t.ec["shown"] = Applied(lit.ec)
  <2>1. Sys(lit)
    BY <1>3 DEF Touches
  <2>2. /\ Puts(lit, t, "TRIGGER", a)
        /\ Alive(lit) /\ lit.cache_only = FALSE /\ t.ok = TRUE
             => t.ec["shown"] = Applied(lit.ec)
    <3>1. "TRIGGER" \in Register /\ DOMAIN a \subseteq Fields["TRIGGER"]
      BY <1>1, RegisterLemma
    <3> HIDE DEF F
    <3>2. QED
      BY <1>1, <2>1, <3>1, WriteBitsPuts
  <2>3. QED
    BY <1>1, <2>2 DEF Puts, Volatile
<1> HIDE DEF t
<1>5. Touches(s, lit, F, {}) /\ Touches(s, t, F, {})
  BY <1>3, <1>4, TouchesThen, TouchesMore
<1>6. Alive(lit) = Alive(s) /\ lit.cache_only = s.cache_only
  BY <1>3 DEF Touches, Alters, Part, Alive
<1>7. lit.ec["rgb"] = s.ec["rgb"]
  BY <1>3 DEF Touches, KbdFields, Effect, EcField, Field, RegisterOf
<1>8. QED
  BY <1>2, <1>4, <1>5, <1>6, <1>7 DEF Applied
-----------------------------------------------------------------------------
(* The lightbar                                                            *)

LightFields ==
  {"ac_app", "ac_off", "ac_still", "ac_rainbow", "ac_rgb",
   "bat_app", "bat_off", "bat_still", "bat_rainbow", "bat_rgb"}

\* From s to t the lightbar has changed, in the fields B of the cache.
Lights(s, t, B) ==
  /\ Touches(s, t, LightFields, {})
  /\ \A f \in DOMAIN s.cache : f \notin B => t.cache[f] = s.cache[f]

LEMMA LightsChain ==
  ASSUME NEW s, NEW t, NEW u, NEW B, NEW C, NEW D,
         Lights(s, t, B), Lights(t, u, C), B \cup C \subseteq D
  PROVE  Lights(s, u, D)
<1>1. Touches(s, u, LightFields, {})
  BY TouchesChain DEF Lights
<1>2. DOMAIN s.cache \subseteq DOMAIN t.cache
  BY DEF Lights, Touches
<1>3. QED
  BY <1>1, <1>2 DEF Lights

\* The bits b are in the cache, or an access has failed.
Caches(t, b) ==
  t.ok = TRUE => \A f \in DOMAIN b : f \in DOMAIN t.cache /\ t.cache[f] = b[f]

LightRegister == {"LIGHTBAR_AC", "LIGHTBAR_AC_RGB", "LIGHTBAR_BAT", "LIGHTBAR_BAT_RGB"}

LEMMA LightPuts ==
  ASSUME NEW s, NEW t, NEW r \in LightRegister, NEW b, Puts(s, t, r, b)
  PROVE  Lights(s, t, DOMAIN b) /\ Caches(t, b)
<1>1. r \notin Volatile /\ Fields[r] \subseteq LightFields
  BY RegisterLemma DEF Volatile, LightRegister, LightFields
<1>2. Touches(s, t, LightFields, {})
  BY <1>1, TouchesMore DEF Puts
<1>3. QED
  BY <1>1, <1>2 DEF Puts, Lights, Caches

LEMMA LightRead ==
  ASSUME NEW s, Sys(s), NEW r \in LightRegister
  PROVE  LET t == Read(s, r)
         IN Lights(s, t, {}) /\ (t.ok = TRUE => Fields[r] \subseteq DOMAIN t.cache)
<1> DEFINE t == Read(s, r)
<1>1. r \in Register /\ r \notin Volatile /\ Fields[r] \subseteq LightFields
  BY RegisterLemma DEF Volatile, LightRegister, LightFields
<1>2. Reads(s, t, r) /\ Touches(s, t, Fields[r], {})
  BY <1>1, ReadLemma, ReadTouches
<1> HIDE DEF t
<1>3. Touches(s, t, LightFields, {})
  BY <1>1, <1>2, TouchesMore
<1>4. QED
  BY <1>1, <1>2, <1>3 DEF Reads, Lights, t

\* An error stays.
LEMMA OkBefore ==
  ASSUME NEW s, NEW t, NEW F, NEW L, Touches(s, t, F, L), Sys(s), t.ok = TRUE
  PROVE  s.ok = TRUE
BY DEF Touches, Progress, Sys

LEMMA RainbowLights ==
  ASSUME NEW s, Sys(s), NEW v
  PROVE  LET t == rainbow_animation_store(s, v)
         IN /\ Lights(s, t, {"ac_rainbow", "bat_rainbow"})
            /\ t.ok = TRUE => t.cache["ac_rainbow"] = v /\ t.cache["bat_rainbow"] = v
<1> DEFINE a == [ac_rainbow |-> v]
           b == [bat_rainbow |-> v]
           m == UpdateBits(s, "LIGHTBAR_AC", a)
           t == UpdateBits(m, "LIGHTBAR_BAT", b)
<1>1. DOMAIN a = {"ac_rainbow"} /\ a["ac_rainbow"] = v
      /\ DOMAIN b = {"bat_rainbow"} /\ b["bat_rainbow"] = v
  OBVIOUS
<1>2. rainbow_animation_store(s, v) = t
  BY DEF rainbow_animation_store
<1> HIDE DEF a, b
<1>3. Puts(s, m, "LIGHTBAR_AC", a)
  BY <1>1, UpdateBitsPuts, RegisterLemma
<1> HIDE DEF m
<1>4. Sys(m)
  BY <1>3 DEF Puts, Touches
<1>5. Puts(m, t, "LIGHTBAR_BAT", b)
  BY <1>1, <1>4, UpdateBitsPuts, RegisterLemma
<1> HIDE DEF t
<1>6. Lights(s, m, {"ac_rainbow"})
      /\ (m.ok = TRUE => "ac_rainbow" \in DOMAIN m.cache /\ m.cache["ac_rainbow"] = v)
  <2>1. "LIGHTBAR_AC" \in LightRegister
    BY DEF LightRegister
  <2>2. Lights(s, m, DOMAIN a) /\ Caches(m, a)
    BY <1>3, <2>1, LightPuts
  <2>3. QED
    BY <1>1, <2>2 DEF Caches
<1>7. Lights(m, t, {"bat_rainbow"}) /\ (t.ok = TRUE => t.cache["bat_rainbow"] = v)
  <2>1. "LIGHTBAR_BAT" \in LightRegister
    BY DEF LightRegister
  <2>2. Lights(m, t, DOMAIN b) /\ Caches(t, b)
    BY <1>5, <2>1, LightPuts
  <2>3. QED
    BY <1>1, <2>2 DEF Caches
<1>8. Lights(s, t, {"ac_rainbow", "bat_rainbow"})
  BY <1>6, <1>7, LightsChain
<1>9. t.ok = TRUE => m.ok = TRUE
  BY <1>4, <1>7, OkBefore DEF Lights
<1>10. QED
  BY <1>2, <1>6, <1>7, <1>8, <1>9 DEF Lights

LEMMA BreathingLights ==
  ASSUME NEW s, Sys(s), NEW v
  PROVE  Lights(s, breathing_in_suspend_store(s, v), {"ac_still"})
<1> DEFINE b == [ac_still |-> 1 - v]
<1>1. DOMAIN b = {"ac_still"}
  OBVIOUS
<1>2. breathing_in_suspend_store(s, v) = UpdateBits(s, "LIGHTBAR_AC", b)
  BY DEF breathing_in_suspend_store
<1> HIDE DEF b
<1>3. Puts(s, UpdateBits(s, "LIGHTBAR_AC", b), "LIGHTBAR_AC", b)
  BY <1>1, UpdateBitsPuts, RegisterLemma
<1>4. QED
  BY <1>1, <1>2, <1>3, LightPuts DEF LightRegister

\* The four registers of the lightbar take one level, one after the other.
LEMMA LightbarLights ==
  ASSUME NEW s, Sys(s), NEW v
  PROVE  LET t == led_brightness_set(s, v)
         IN /\ Lights(s, t, {"ac_rgb", "bat_rgb", "ac_off", "bat_off"})
            /\ t.ok = TRUE => /\ t.cache["ac_rgb"] = t.cache["bat_rgb"]
                              /\ t.cache["ac_off"] = t.cache["bat_off"]
<1> DEFINE level == Smaller(v, machine.lightbar_max)
           off == IF v = 0 THEN 1 ELSE 0
           b1 == [ac_rgb |-> level]
           b2 == [bat_rgb |-> level]
           b3 == [ac_off |-> off]
           b4 == [bat_off |-> off]
           t1 == Write(s, "LIGHTBAR_AC_RGB", b1)
           t2 == Write(t1, "LIGHTBAR_BAT_RGB", b2)
           t3 == UpdateBits(t2, "LIGHTBAR_AC", b3)
           t4 == UpdateBits(t3, "LIGHTBAR_BAT", b4)
<1>1. /\ DOMAIN b1 = {"ac_rgb"} /\ b1["ac_rgb"] = level
      /\ DOMAIN b2 = {"bat_rgb"} /\ b2["bat_rgb"] = level
      /\ DOMAIN b3 = {"ac_off"} /\ b3["ac_off"] = off
      /\ DOMAIN b4 = {"bat_off"} /\ b4["bat_off"] = off
  OBVIOUS
<1>2. led_brightness_set(s, v) = t4
  BY DEF led_brightness_set
<1> HIDE DEF level, off, b1, b2, b3, b4
<1>3. Lights(s, t1, {"ac_rgb"}) /\ Sys(t1)
      /\ (t1.ok = TRUE => "ac_rgb" \in DOMAIN t1.cache /\ t1.cache["ac_rgb"] = level)
  <2>1. Puts(s, t1, "LIGHTBAR_AC_RGB", b1)
    BY <1>1, WholePuts, RegisterLemma
  <2>2. Lights(s, t1, DOMAIN b1) /\ Caches(t1, b1)
    BY <2>1, LightPuts DEF LightRegister
  <2>3. QED
    BY <1>1, <2>1, <2>2 DEF Caches, Puts, Touches
<1> HIDE DEF t1
<1>4. Lights(t1, t2, {"bat_rgb"}) /\ Sys(t2)
      /\ (t2.ok = TRUE => "bat_rgb" \in DOMAIN t2.cache /\ t2.cache["bat_rgb"] = level)
  <2>1. Puts(t1, t2, "LIGHTBAR_BAT_RGB", b2)
    BY <1>1, <1>3, WholePuts, RegisterLemma
  <2>2. Lights(t1, t2, DOMAIN b2) /\ Caches(t2, b2)
    BY <2>1, LightPuts DEF LightRegister
  <2>3. QED
    BY <1>1, <2>1, <2>2 DEF Caches, Puts, Touches
<1> HIDE DEF t2
<1>5. Lights(t2, t3, {"ac_off"}) /\ Sys(t3)
      /\ (t3.ok = TRUE => "ac_off" \in DOMAIN t3.cache /\ t3.cache["ac_off"] = off)
  <2>1. Puts(t2, t3, "LIGHTBAR_AC", b3)
    BY <1>1, <1>4, UpdateBitsPuts, RegisterLemma
  <2>2. Lights(t2, t3, DOMAIN b3) /\ Caches(t3, b3)
    BY <2>1, LightPuts DEF LightRegister
  <2>3. QED
    BY <1>1, <2>1, <2>2 DEF Caches, Puts, Touches
<1> HIDE DEF t3
<1>6. Lights(t3, t4, {"bat_off"}) /\ Sys(t4)
      /\ (t4.ok = TRUE => "bat_off" \in DOMAIN t4.cache /\ t4.cache["bat_off"] = off)
  <2>1. Puts(t3, t4, "LIGHTBAR_BAT", b4)
    BY <1>1, <1>5, UpdateBitsPuts, RegisterLemma
  <2>2. Lights(t3, t4, DOMAIN b4) /\ Caches(t4, b4)
    BY <2>1, LightPuts DEF LightRegister
  <2>3. QED
    BY <1>1, <2>1, <2>2 DEF Caches, Puts, Touches
<1> HIDE DEF t4
<1>7. Lights(t2, t4, {"ac_off", "bat_off"}) /\ Lights(s, t2, {"ac_rgb", "bat_rgb"})
  BY <1>3, <1>4, <1>5, <1>6, LightsChain
<1>8. Lights(s, t4, {"ac_rgb", "bat_rgb", "ac_off", "bat_off"})
  BY <1>7, LightsChain
<1>9. t4.ok = TRUE => t3.ok = TRUE /\ t2.ok = TRUE /\ t1.ok = TRUE
  BY <1>3, <1>4, <1>5, <1>6, OkBefore DEF Lights
<1>10. t4.ok = TRUE => t4.cache["ac_rgb"] = level /\ t4.cache["bat_rgb"] = level
  BY <1>3, <1>4, <1>5, <1>6, <1>7, <1>9 DEF Lights, Touches
<1>11. t4.ok = TRUE => t4.cache["ac_off"] = off /\ t4.cache["bat_off"] = off
  BY <1>5, <1>6, <1>9 DEF Lights
<1>12. QED
  BY <1>2, <1>8, <1>10, <1>11
-----------------------------------------------------------------------------
(* The colour of the keyboard                                              *)

LEMMA ClampLemma ==
  \A v \in Int : Clamp(v, 1, 50) \in 1..50 /\ (v \in 1..50 => Clamp(v, 1, 50) = v)
BY DEF Clamp, Smaller, Larger

ColourFields == KbdFields \cup {"apply_rgb", "rgb"}

\* The colour is a number, in the EC and in the cache.
RgbTyped(s) ==
  /\ s.ec["rgb"] \in Int
  /\ "rgb" \in DOMAIN s.cache => s.cache["rgb"] \in Int

\* A colour is in range, and shown where nothing failed.
Colours(s, t) ==
  /\ Touches(s, t, ColourFields, {})
  /\ \A f \in DOMAIN s.cache :
       t.cache[f] = s.cache[f] \/ (f = "rgb" /\ t.cache[f] \in 1..50)
  /\ t.ec["rgb"] = s.ec["rgb"] \/ t.ec["rgb"] \in 1..50
  /\ /\ machine.single = FALSE /\ t.ok = TRUE
     /\ Alive(s) /\ Coherent(s) /\ s.cache_only = FALSE
     => /\ "rgb" \in DOMAIN t.cache /\ t.cache["rgb"] \in 1..50
        /\ t.ec["rgb"] = t.cache["rgb"] /\ t.ec["shown"] = t.ec["rgb"]
  /\ RgbTyped(s) => RgbTyped(t)

LEMMA KbdColours ==
  ASSUME NEW s, Sys(s), NEW v, v[2] \in Int
  PROVE  Colours(s, kbd_led_brightness_set(s, v))
<1> DEFINE c == Clamp(v[2], 1, 50)
           b == [rgb |-> c]
           a == [apply_rgb |-> 1]
           t1 == Write(s, "RGB", b)
           t2 == WriteBits(t1, "TRIGGER", a)
           t3 == kbd_led_write_brightness(t2, v[1])
           t0 == kbd_led_write_brightness(s, v[1])
<1>1. kbd_led_brightness_set(s, v) = IF machine.single THEN t0 ELSE t3
  BY DEF kbd_led_brightness_set, kbd_led_mc_brightness_set
<1>2. Touches(s, t0, KbdFields, {})
  BY KbdLevelTouches
<1>3. c \in 1..50
  BY ClampLemma
<1>4. DOMAIN b = {"rgb"} /\ b["rgb"] = c /\ DOMAIN a = {"apply_rgb"} /\ a["apply_rgb"] = 1
  OBVIOUS
<1>5. "rgb" \notin KbdFields /\ "apply_rgb" \notin KbdFields
      /\ "rgb" \in EcField \ Effect
      /\ \A f \in KbdFields \cup {"apply_rgb"} : f \in Field => RegisterOf[f] \in Volatile
  BY DEF KbdFields, EcField, Effect, Field, RegisterOf, Volatile
<1> HIDE DEF a, b, c
<1>6. CASE machine.single
  <2> HIDE DEF t0
  <2>1. Touches(s, t0, ColourFields, {})
    BY <1>2, TouchesMore DEF ColourFields
  <2>2. \A f \in DOMAIN s.cache : t0.cache[f] = s.cache[f]
    <3>1. \A f \in DOMAIN s.cache : f \notin KbdFields
      BY <1>5 DEF Sys, Cache
    <3>2. QED
      BY <1>2, <3>1 DEF Touches
  <2>3. t0.ec["rgb"] = s.ec["rgb"]
    BY <1>2, <1>5 DEF Touches
  <2>4. RgbTyped(s) => RgbTyped(t0)
    BY <1>2, <1>5, <2>2, <2>3 DEF Touches, RgbTyped
  <2>5. QED
    BY <1>1, <1>6, <2>1, <2>2, <2>3, <2>4 DEF Colours
<1>7. CASE ~machine.single
  <2>1. Puts(s, t1, "RGB", b)
    BY <1>4, WholePuts, RegisterLemma
  <2> HIDE DEF t1
  <2>2. Sys(t1) /\ Touches(s, t1, {"rgb"}, {})
    BY <2>1, RegisterLemma DEF Puts, Touches, Volatile
  <2>3. /\ Puts(t1, t2, "TRIGGER", a)
        /\ Alive(t1) /\ t1.cache_only = FALSE /\ t2.ok = TRUE
             => t2.ec["shown"] = Applied(t1.ec)
    <3>1. "TRIGGER" \in Register /\ DOMAIN a \subseteq Fields["TRIGGER"]
      BY <1>4, RegisterLemma
    <3>2. QED
      BY <1>4, <2>2, <3>1, WriteBitsPuts
  <2> HIDE DEF t2
  <2>4. Sys(t2) /\ Touches(t1, t2, {"apply_rgb"}, {})
    BY <1>4, <2>3 DEF Puts, Touches, Volatile
  <2>5. Touches(t2, t3, KbdFields, {})
    BY <2>4, KbdLevelTouches
  <2> HIDE DEF t3
  <2>6. Touches(t1, t3, KbdFields \cup {"apply_rgb"}, {})
    BY <2>4, <2>5, TouchesThen
  <2>7. Touches(s, t3, ColourFields, {})
    BY <2>2, <2>6, TouchesThen DEF ColourFields
  <2>8. /\ DOMAIN t3.cache = DOMAIN t1.cache
        /\ \A f \in DOMAIN t1.cache : t3.cache[f] = t1.cache[f]
    <3>1. \A f \in DOMAIN t3.cache : f \notin KbdFields \cup {"apply_rgb"}
      BY <1>5, <2>6 DEF Touches, Sys, Cache
    <3>2. QED
      BY <2>6, <3>1 DEF Touches
  <2>9. t3.ec["rgb"] = t1.ec["rgb"]
    BY <1>5, <2>6 DEF Touches
  <2>10. \A f \in DOMAIN s.cache :
           t3.cache[f] = s.cache[f] \/ (f = "rgb" /\ t3.cache[f] \in 1..50)
    BY <1>3, <1>4, <2>1, <2>2, <2>8 DEF Puts, Touches
  <2>11. t3.ec["rgb"] = s.ec["rgb"] \/ t3.ec["rgb"] \in 1..50
    BY <1>3, <1>4, <2>1, <2>9 DEF Puts
  <2>12. ASSUME t3.ok = TRUE, Alive(s), Coherent(s), s.cache_only = FALSE
         PROVE  /\ "rgb" \in DOMAIN t3.cache /\ t3.cache["rgb"] \in 1..50
                /\ t3.ec["rgb"] = t3.cache["rgb"] /\ t3.ec["shown"] = t3.ec["rgb"]
    <3>1. t2.ok = TRUE /\ t1.ok = TRUE
      BY <2>2, <2>4, <2>5, <2>12, OkBefore
    <3>2. Alive(t1) /\ t1.cache_only = FALSE
      BY <2>2, <2>12 DEF Touches, Alters, Part, Alive
    <3>3. "rgb" \in DOMAIN t1.cache /\ t1.cache["rgb"] = c /\ t1.ec["rgb"] = c
      BY <1>4, <2>1, <2>2, <2>12, <3>1 DEF Puts, Touches, Coherent, Volatile
    <3>4. t2.ec["shown"] = c
      BY <1>3, <2>3, <3>1, <3>2, <3>3 DEF Applied
    <3>5. t2.ec["rgb"] = c
      BY <1>5, <2>4, <3>3 DEF Touches
    <3>6. t3.ec["shown"] = c
      BY <1>3, <1>5, <2>5, <3>4, <3>5 DEF Touches
    <3>7. QED
      BY <1>3, <2>8, <2>9, <3>3, <3>6
  <2>13. RgbTyped(s) => RgbTyped(t3)
    <3>1. "rgb" \in DOMAIN t1.cache /\ "rgb" \notin DOMAIN s.cache
            => t1.cache["rgb"] = c \/ t1.cache["rgb"] = OnWire(s, "rgb")
      BY <1>4, <2>1 DEF Puts
    <3>2. s.ec["rgb"] \in Int => OnWire(s, "rgb") \in Int
      BY DEF OnWire, Ones, Field, RegisterOf
    <3>3. 1..50 \subseteq Int
      OBVIOUS
    <3>4. QED
      BY <1>3, <2>8, <2>10, <2>11, <3>1, <3>2, <3>3 DEF RgbTyped
  <2>14. QED
    BY <1>1, <1>7, <2>7, <2>10, <2>11, <2>12, <2>13 DEF Colours
<1>8. QED
  BY <1>6, <1>7
-----------------------------------------------------------------------------
(* The stores of one cached register                                       *)

LEMMA CtgpOffsetTouches ==
  ASSUME NEW s, Sys(s), NEW v
  PROVE  Touches(s, ctgp_offset_store(s, v), {"ctgp_offset"}, {})
<1> DEFINE b == [ctgp_offset |-> v]
<1>1. DOMAIN b = {"ctgp_offset"}
  OBVIOUS
<1>2. ctgp_offset_store(s, v) = Write(s, "CTGP_OFFSET", b)
  BY DEF ctgp_offset_store
<1> HIDE DEF b
<1>3. Puts(s, Write(s, "CTGP_OFFSET", b), "CTGP_OFFSET", b)
  BY <1>1, WholePuts, RegisterLemma
<1>4. QED
  BY <1>2, <1>3, RegisterLemma DEF Puts, Volatile

LEMMA AutoBootTouches ==
  ASSUME NEW s, Sys(s), NEW v
  PROVE  Touches(s, ac_auto_boot_store(s, v), {"ac_auto_boot"}, {})
<1> DEFINE b == [ac_auto_boot |-> v]
<1>1. DOMAIN b = {"ac_auto_boot"}
  OBVIOUS
<1>2. ac_auto_boot_store(s, v) = UpdateBits(s, "OEM_9", b)
  BY DEF ac_auto_boot_store
<1> HIDE DEF b
<1>3. Puts(s, UpdateBits(s, "OEM_9", b), "OEM_9", b)
  BY <1>1, UpdateBitsPuts, RegisterLemma
<1>4. QED
  BY <1>2, <1>3, RegisterLemma DEF Puts, Volatile

LEMMA AutoBootRead ==
  ASSUME NEW s, Sys(s)
  PROVE  Touches(s, Read(s, "OEM_9"), {"ac_auto_boot"}, {})
<1>1. "OEM_9" \in Register /\ "OEM_9" \notin Volatile
      /\ Fields["OEM_9"] = {"ac_auto_boot"}
  BY RegisterLemma DEF Volatile
<1>2. Touches(s, Read(s, "OEM_9"),
              IF "OEM_9" \in Volatile THEN {} ELSE Fields["OEM_9"], {})
  BY <1>1, ReadTouches
<1>3. QED
  BY <1>1, <1>2

-----------------------------------------------------------------------------
(* A step of the driver: a handler that one access may fail                *)

\* From s to t a handler has run that may change the fields F and the copies
\* L; ok says whether all its accesses worked.
Stepped(s, t, F, L, ok) ==
  /\ Sys(t) /\ t.ok = TRUE /\ t.fuse = 0
  /\ t.window = s.window /\ t.use_wmi = s.use_wmi
  /\ t.cache_only = s.cache_only
  /\ s.cache_only = FALSE => t.dirty = s.dirty
  /\ s.dirty = TRUE => t.dirty = TRUE
  /\ \A x \in LastPart \ L : t.last[x] = s.last[x]
  /\ DOMAIN s.cache \subseteq DOMAIN t.cache
  /\ \A f \in DOMAIN t.cache :
       f \notin F => f \in DOMAIN s.cache /\ t.cache[f] = s.cache[f]
  /\ \A f \in EcField \ Effect : f \notin F => t.ec[f] = s.ec[f]
  /\ ~Alive(s) => t.ec = s.ec
  /\ "rgb" \notin F /\ s.ec["rgb"] # 0 /\ s.ec["shown"] = s.ec["rgb"]
       => t.ec["shown"] = s.ec["shown"]
  /\ Coherent(s) /\ Alive(s) /\ s.cache_only = FALSE /\ ok = TRUE => Coherent(t)

\* The state before a handler that the access n fails, and the one after it.
Begins(s, n) == [s EXCEPT !.fuse = n]

Ended(s) == [s EXCEPT !.ok = TRUE, !.fuse = 0]

LEMMA BeginLemma ==
  ASSUME NEW s, Sys(s), s.ok = TRUE, NEW n \in Nat
  PROVE  LET t == Begins(s, n)
         IN /\ Sys(t) /\ t.ok = TRUE /\ t.fuse = n
            /\ Alters(s, t, {"fuse"})
<1> DEFINE t == [s EXCEPT !.fuse = n]
<1>1. Alters(s, t, {"fuse"}) /\ t.fuse = n
  BY DEF Sys, Shaped, Alters, Part
<1> HIDE DEF t
<1>2. Sys(t) /\ t.ok = TRUE
  BY <1>1 DEF Sys, Alters, Part
<1>3. QED
  BY <1>1, <1>2 DEF Begins, t

LEMMA EndLemma ==
  ASSUME NEW s, Sys(s)
  PROVE  LET t == Ended(s)
         IN Sys(t) /\ t.ok = TRUE /\ t.fuse = 0 /\ Alters(s, t, {"ok", "fuse"})
<1> DEFINE t == [s EXCEPT !.ok = TRUE, !.fuse = 0]
<1>1. Alters(s, t, {"ok", "fuse"}) /\ t.fuse = 0 /\ t.ok = TRUE /\ t.ok \in BOOLEAN
  BY DEF Sys, Shaped, Alters, Part
<1> HIDE DEF t
<1>2. Sys(t)
  BY <1>1 DEF Sys, Alters, Part
<1>3. QED
  BY <1>1, <1>2 DEF Ended, t

\* What a handler does is what its step does.
LEMMA StepLemma ==
  ASSUME NEW s, Sys(s), s.ok = TRUE, NEW n \in Nat, NEW done, NEW F, NEW L,
         Touches(Begins(s, n), done, F, L)
  PROVE  /\ Stepped(s, Ended(done), F, L, done.ok)
         /\ n = 0 /\ s.cache_only = FALSE => done.ok = TRUE
         /\ Ended(done).ec = done.ec /\ Ended(done).cache = done.cache
         /\ Ended(done).last = done.last
<1> DEFINE b == Begins(s, n)
           t == Ended(done)
<1>1. Sys(b) /\ b.ok = TRUE /\ b.fuse = n /\ Alters(s, b, {"fuse"})
  BY BeginLemma
<1>2. Sys(done) /\ Touches(b, done, F, L)
  BY DEF Touches
<1>3. Sys(t) /\ t.ok = TRUE /\ t.fuse = 0 /\ Alters(done, t, {"ok", "fuse"})
  BY <1>2, EndLemma
<1> HIDE DEF b, t
<1>4. /\ b.ec = s.ec /\ b.cache = s.cache /\ b.last = s.last /\ b.dirty = s.dirty
      /\ b.window = s.window /\ b.use_wmi = s.use_wmi /\ b.cache_only = s.cache_only
  BY <1>1 DEF Alters, Part
<1>5. /\ t.ec = done.ec /\ t.cache = done.cache /\ t.last = done.last
      /\ t.dirty = done.dirty /\ t.window = done.window
      /\ t.use_wmi = done.use_wmi /\ t.cache_only = done.cache_only
  BY <1>3 DEF Alters, Part
<1>6. done.window = b.window /\ done.use_wmi = b.use_wmi
      /\ done.cache_only = b.cache_only
  BY <1>2 DEF Touches, Alters, Part
<1>7. n = 0 /\ s.cache_only = FALSE => done.ok = TRUE
  BY <1>1, <1>2, <1>4 DEF Touches, Progress, Sys
<1>8. Coherent(s) = Coherent(b) /\ Coherent(t) = Coherent(done) /\ Alive(s) = Alive(b)
  BY <1>4, <1>5 DEF Coherent, Alive
<1>9. Stepped(s, t, F, L, done.ok)
  BY <1>2, <1>3, <1>4, <1>5, <1>6, <1>8 DEF Touches, Stepped
<1>10. QED
  BY <1>5, <1>7, <1>9 DEF t

LEMMA SteppedVolatile ==
  ASSUME NEW s, NEW t, NEW F, NEW L, NEW ok, Sys(s), Stepped(s, t, F, L, ok),
         Coherent(s), \A f \in F : f \in Field => RegisterOf[f] \in Volatile
  PROVE  Coherent(t)
<1> SUFFICES ASSUME NEW f \in DOMAIN t.cache
             PROVE  t.cache[f] = t.ec[f]
  BY DEF Coherent
<1>1. f \in Field /\ RegisterOf[f] \notin Volatile
  BY DEF Stepped, Sys, Cache
<1>2. f \in EcField \ Effect /\ f \notin F
  BY <1>1, CommandLemma DEF EcField, Effect
<1>3. QED
  BY <1>2 DEF Stepped, Coherent
-----------------------------------------------------------------------------
(* What stays true when an error is passed over                            *)

\* From s to t at most the fields F have changed, whatever has failed.
Survives(s, t, F) ==
  /\ Sys(t) /\ t.window = s.window /\ t.use_wmi = s.use_wmi
  /\ t.cache_only = s.cache_only
  /\ s.fuse = 0 => t.fuse = 0
  /\ DOMAIN s.cache \subseteq DOMAIN t.cache
  /\ \A f \in DOMAIN s.cache : f \notin F => t.cache[f] = s.cache[f]
  /\ \A f \in EcField \ Effect : f \notin F => t.ec[f] = s.ec[f]
  /\ RgbTyped(s) => RgbTyped(t)

LEMMA TouchesSurvives ==
  ASSUME NEW s, NEW t, NEW F, NEW L, Touches(s, t, F, L), "rgb" \notin F
  PROVE  Survives(s, t, F) /\ (RgbTyped(s) => RgbTyped(t))
<1>1. "rgb" \in EcField \ Effect
  BY DEF EcField, Field, RegisterOf, Effect
<1>2. t.window = s.window /\ t.use_wmi = s.use_wmi /\ t.cache_only = s.cache_only
  BY DEF Touches, Alters, Part
<1>3. RgbTyped(s) => RgbTyped(t)
  BY <1>1 DEF Touches, RgbTyped
<1>4. QED
  BY <1>2, <1>3 DEF Touches, Survives, Progress

LEMMA ColoursSurvives ==
  ASSUME NEW s, NEW t, Sys(s), Colours(s, t)
  PROVE  Survives(s, t, ColourFields)
<1>1. t.window = s.window /\ t.use_wmi = s.use_wmi /\ t.cache_only = s.cache_only
  BY DEF Colours, Touches, Alters, Part
<1>2. QED
  BY <1>1 DEF Colours, Touches, Survives, Progress

LEMMA SurvivesThen ==
  ASSUME NEW s, NEW t, NEW u, NEW F, NEW G, NEW H, Survives(s, t, F),
         Survives(t, u, G), F \cup G \subseteq H
  PROVE  Survives(s, u, H)
BY DEF Survives

LEMMA SurvivesMore ==
  ASSUME NEW s, NEW t, NEW F, NEW H, Survives(s, t, F), F \subseteq H
  PROVE  Survives(s, t, H)
BY DEF Survives

LEMMA ReadSurvives ==
  ASSUME NEW s, Sys(s), RgbTyped(s), NEW r \in Register
  PROVE  Survives(s, Read(s, r), {})
<1> DEFINE t == Read(s, r)
<1>1. Reads(s, t, r)
  BY ReadLemma
<1> HIDE DEF t
<1>2. t.window = s.window /\ t.use_wmi = s.use_wmi /\ t.cache_only = s.cache_only
      /\ t.ec = s.ec
  BY <1>1 DEF Reads, Alters, Part
<1>3. OnWire(s, "rgb") \in Int
  BY DEF OnWire, RgbTyped, Ones, Field, RegisterOf
<1>4. RgbTyped(t)
  BY <1>1, <1>2, <1>3 DEF Reads, RgbTyped
<1>5. QED
  BY <1>1, <1>2, <1>4 DEF Reads, Survives, Progress, t

\* An error is forgotten.
Again(s) == [s EXCEPT !.ok = TRUE]

LEMMA AgainLemma ==
  ASSUME NEW s, Sys(s)
  PROVE  LET t == Again(s)
         IN Survives(s, t, {}) /\ Alters(s, t, {"ok"}) /\ t.ok = TRUE
<1> DEFINE t == [s EXCEPT !.ok = TRUE]
<1>1. Alters(s, t, {"ok"}) /\ t.ok = TRUE /\ t.ok \in BOOLEAN
  BY DEF Sys, Shaped, Alters, Part
<1> HIDE DEF t
<1>2. t.ec = s.ec /\ t.cache = s.cache /\ t.fuse = s.fuse /\ t.window = s.window
      /\ t.use_wmi = s.use_wmi /\ t.cache_only = s.cache_only
  BY <1>1 DEF Alters, Part
<1>3. Sys(t)
  BY <1>1 DEF Sys, Alters, Part
<1>4. QED
  BY <1>1, <1>2, <1>3 DEF Survives, RgbTyped, Again, t

LEMMA GiveUpLemma ==
  ASSUME NEW s, Sys(s)
  PROVE  LET t == [s EXCEPT !.ok = FALSE]
         IN Survives(s, t, {}) /\ Alters(s, t, {"ok"}) /\ t.ok = FALSE
<1> DEFINE t == [s EXCEPT !.ok = FALSE]
<1>1. Alters(s, t, {"ok"}) /\ t.ok = FALSE /\ t.ok \in BOOLEAN
  BY DEF Sys, Shaped, Alters, Part
<1> HIDE DEF t
<1>2. t.ec = s.ec /\ t.cache = s.cache /\ t.fuse = s.fuse /\ t.window = s.window
      /\ t.use_wmi = s.use_wmi /\ t.cache_only = s.cache_only
  BY <1>1 DEF Alters, Part
<1>3. Sys(t)
  BY <1>1 DEF Sys, Alters, Part
<1>4. QED
  BY <1>1, <1>2, <1>3 DEF Survives, RgbTyped, t

-----------------------------------------------------------------------------
(* Probing                                                                 *)

\* The EC is taken over.
TakenOver(s, t) ==
  /\ Touches(s, t, {"project", "manual"}, {}) /\ Survives(s, t, {"manual"})
  /\ t.ok = TRUE => "manual" \in DOMAIN t.cache /\ t.cache["manual"] = 1
  /\ t.ok = FALSE => t.ec["manual"] = s.ec["manual"]

LEMMA EcInit ==
  ASSUME NEW s, Sys(s), RgbTyped(s)
  PROVE  TakenOver(s, uniwill_ec_init(s))
<1> DEFINE b == [manual |-> 1]
           got == Read(s, "PROJECT_ID")
           t == UpdateBits(got, "AP_OEM", b)
<1>1. uniwill_ec_init(s) = t
  BY DEF uniwill_ec_init
<1>2. DOMAIN b = {"manual"} /\ b["manual"] = 1
  OBVIOUS
<1> HIDE DEF b
<1>3. "PROJECT_ID" \in Register /\ "PROJECT_ID" \notin Volatile
      /\ Fields["PROJECT_ID"] = {"project"}
      /\ "AP_OEM" \in Register /\ "AP_OEM" \notin Volatile
      /\ Fields["AP_OEM"] = {"manual"}
  BY RegisterLemma DEF Volatile
<1>4. Reads(s, got, "PROJECT_ID") /\ Survives(s, got, {})
      /\ Touches(s, got, IF "PROJECT_ID" \in Volatile THEN {} ELSE Fields["PROJECT_ID"], {})
  BY <1>3, ReadLemma, ReadSurvives, ReadTouches
<1> HIDE DEF got
<1>5. Sys(got) /\ got.ec = s.ec
  BY <1>4 DEF Reads, Alters, Part
<1>6. Puts(got, t, "AP_OEM", b)
  BY <1>2, <1>3, <1>5, UpdateBitsPuts
<1> HIDE DEF t
<1>7. Touches(got, t, {"manual"}, {})
  BY <1>3, <1>6 DEF Puts
<1>8. Touches(s, t, {"project", "manual"}, {})
  BY <1>3, <1>4, <1>7, TouchesThen
<1>9. Survives(s, t, {"manual"})
  BY <1>4, <1>7, TouchesSurvives, SurvivesThen
<1>10. QED
  BY <1>1, <1>2, <1>3, <1>5, <1>6, <1>8, <1>9 DEF Puts, TakenOver

LEMMA GpuProbe ==
  ASSUME NEW s, Sys(s), RgbTyped(s)
  PROVE  LET t == phxarx1_phxaqf1_probe(s)
         IN /\ Touches(s, t, {"has_gpu"}, {}) /\ Survives(s, t, {})
            /\ "has_gpu" \in DOMAIN t.cache
                 => \/ "has_gpu" \in DOMAIN s.cache /\ t.cache["has_gpu"] = s.cache["has_gpu"]
                    \/ t.cache["has_gpu"] = OnWire(s, "has_gpu")
<1>1. "SYSTEM_ID" \in Register /\ "SYSTEM_ID" \notin Volatile
      /\ Fields["SYSTEM_ID"] = {"has_gpu"}
  BY RegisterLemma DEF Volatile
<1>2. Survives(s, Read(s, "SYSTEM_ID"), {})
      /\ Touches(s, Read(s, "SYSTEM_ID"),
                 IF "SYSTEM_ID" \in Volatile THEN {} ELSE Fields["SYSTEM_ID"], {})
      /\ Reads(s, Read(s, "SYSTEM_ID"), "SYSTEM_ID")
  BY <1>1, ReadLemma, ReadSurvives, ReadTouches
<1>3. Touches(s, s, {"has_gpu"}, {}) /\ Survives(s, s, {})
  BY TouchesItself DEF Survives
<1>4. QED
  BY <1>1, <1>2, <1>3 DEF phxarx1_phxaqf1_probe, Reads

\* The charge type is the one that the EC has, or the probe is given up.
BatteryReady(s, t, fs) ==
  /\ Survives(s, t, {"charge_ctrl"})
  /\ s.ok = FALSE => t = s
  /\ t.ok = TRUE => Touches(s, t, {"charge_ctrl"}, {"charge"})
  /\ /\ t.ok = TRUE /\ Alive(s)
     /\ s.ec["profile"] \in 0..3
     /\ "BATTERY_CHARGE_MODES" \in fs /\ "BATTERY_CHARGE_LIMIT" \notin fs
     => /\ t.last.charge \in DOMAIN ChargingProfile
        /\ ChargingProfile[t.last.charge] = t.ec["profile"]

LEMMA ReadChargeType ==
  \A p \in 0..2 : LET v == read_charge_type([profile |-> p])
                  IN v \in DOMAIN ChargingProfile /\ ChargingProfile[v] = p
<1> SUFFICES ASSUME NEW p \in 0..2
             PROVE  LET v == read_charge_type([profile |-> p])
                    IN v \in DOMAIN ChargingProfile /\ ChargingProfile[v] = p
  OBVIOUS
<1>1. \E v \in DOMAIN ChargingProfile : ChargingProfile[v] = p
  <2>1. ChargingProfile["Standard"] = 0 /\ ChargingProfile["LongLife"] = 1
        /\ ChargingProfile["Trickle"] = 2
        /\ {"Standard", "LongLife", "Trickle"} \subseteq DOMAIN ChargingProfile
    BY DEF ChargingProfile
  <2>2. QED
    BY <2>1
<1>2. [profile |-> p]["profile"] = p
  OBVIOUS
<1>3. QED
  BY <1>1, <1>2 DEF read_charge_type

LEMMA BatteryInit ==
  ASSUME NEW s, Sys(s), RgbTyped(s), NEW fs
  PROVE  BatteryReady(s, uniwill_battery_init(s, fs), fs)
<1> DEFINE t == uniwill_battery_init(s, fs)
<1>1. CASE "BATTERY_CHARGE_LIMIT" \in fs
  <2> DEFINE got == Read(s, "CHARGE_CTRL")
             sane == sanitize_battery_threshold(Seen(got, "charge_ctrl"))
             b == [charge_ctrl |-> sane]
             u == Write(got, "CHARGE_CTRL", b)
  <2>1. t = got \/ t = u
    BY <1>1 DEF uniwill_battery_init
  <2>2. DOMAIN b = {"charge_ctrl"}
    OBVIOUS
  <2> HIDE DEF b, sane, t
  <2>3. Touches(s, got, {}, {}) /\ Sys(got)
    BY VolatileRead, RegisterLemma DEF Volatile
  <2> HIDE DEF got
  <2>4. Puts(got, u, "CHARGE_CTRL", b)
    BY <2>2, <2>3, WholePuts, RegisterLemma
  <2> HIDE DEF u
  <2>5. Touches(got, u, {"charge_ctrl"}, {})
    BY <2>2, <2>4 DEF Puts, Volatile
  <2>6. Touches(s, t, {"charge_ctrl"}, {})
    BY <2>1, <2>3, <2>5, TouchesThen, TouchesMore
  <2>7. Touches(s, t, {"charge_ctrl"}, {"charge"})
    BY <2>6, TouchesMore
  <2>8. Survives(s, t, {"charge_ctrl"})
    BY <2>6, TouchesSurvives
  <2>9. QED
    BY <1>1, <2>7, <2>8 DEF BatteryReady, Touches, Progress, t
<1>2. CASE "BATTERY_CHARGE_LIMIT" \notin fs /\ "BATTERY_CHARGE_MODES" \in fs
  <2> DEFINE got == Read(s, "OEM_4")
             p == Seen(got, "profile")
             none == [got EXCEPT !.ok = FALSE]
             v == read_charge_type([profile |-> p])
             u == [got EXCEPT !.last["charge"] = v]
  <2>1. Touches(s, got, {}, {}) /\ Sys(got)
    BY VolatileRead, RegisterLemma DEF Volatile
  <2>2. Reads(s, got, "OEM_4")
    BY ReadLemma, RegisterLemma
  <2>3. /\ got.ok = FALSE => t = got
        /\ got.ok = TRUE /\ p = 3 => t = none
        /\ got.ok = TRUE /\ p # 3 => t = u
    <3> HIDE DEF got, p
    <3> QED
      BY <1>2 DEF uniwill_battery_init, got, p
  <2>4. p = OnWire(s, "profile")
    <3>1. "profile" \notin DOMAIN got.cache
      BY <2>1 DEF Sys, Cache, RegisterOf, Volatile, Field
    <3>2. OnWire(got, "profile") = OnWire(s, "profile")
      BY <2>2 DEF Reads, Alters, Part, OnWire, Alive
    <3>3. QED
      BY <3>1, <3>2 DEF Seen
  <2> HIDE DEF p, v
  <2>5. Survives(s, got, {"charge_ctrl"}) /\ Touches(s, got, {"charge_ctrl"}, {"charge"})
        /\ Survives(s, got, {})
    BY <2>1, TouchesSurvives, SurvivesMore, TouchesMore
  <2> HIDE DEF got, t
  <2>6. CASE got.ok = FALSE
    BY <2>3, <2>5, <2>6 DEF BatteryReady, Touches, Progress, t
  <2>7. CASE got.ok = TRUE /\ p = 3
    <3>1. Survives(got, none, {}) /\ none.ok = FALSE
      BY <2>1, GiveUpLemma
    <3> HIDE DEF none
    <3>2. Survives(s, none, {"charge_ctrl"})
      BY <2>5, <3>1, SurvivesThen
    <3>3. s.ok = TRUE
      BY <2>1, <2>7, OkBefore
    <3>4. QED
      BY <2>3, <2>7, <3>1, <3>2, <3>3 DEF BatteryReady, t
  <2>8. CASE got.ok = TRUE /\ p # 3
    <3>1. \A y \in LastPart : \A w :
            LET z == [got EXCEPT !.last[y] = w]
            IN /\ Touches(got, z, {}, {y}) /\ z.last[y] = w
               /\ z.ok = got.ok /\ z.ec = got.ec /\ z.cache = got.cache
      BY <2>1, <2>8, TouchesLast
    <3>2. Touches(got, u, {}, {"charge"}) /\ u.last["charge"] = v
          /\ u.ok = got.ok /\ u.ec = got.ec
      BY <3>1 DEF LastPart
    <3> HIDE DEF u
    <3>3. Touches(s, u, {"charge_ctrl"}, {"charge"})
      BY <2>1, <3>2, TouchesThen
    <3>4. Survives(s, u, {"charge_ctrl"})
      BY <3>3, TouchesSurvives
    <3>5. s.ok = TRUE
      BY <2>1, <2>8, OkBefore
    <3>6. got.ec = s.ec
      BY <2>2 DEF Reads, Alters, Part
    <3>7. Alive(s) /\ s.ec["profile"] \in 0..3
            => v \in DOMAIN ChargingProfile /\ ChargingProfile[v] = s.ec["profile"]
      BY <2>4, <2>8, ReadChargeType DEF OnWire, v
    <3>8. QED
      BY <2>3, <2>8, <3>2, <3>3, <3>4, <3>5, <3>6, <3>7 DEF BatteryReady, t
  <2>9. QED
    BY <2>1, <2>6, <2>7, <2>8 DEF Sys
<1>3. CASE "BATTERY_CHARGE_LIMIT" \notin fs /\ "BATTERY_CHARGE_MODES" \notin fs
  <2>1. t = s
    BY <1>3 DEF uniwill_battery_init
  <2>2. Touches(s, s, {"charge_ctrl"}, {"charge"}) /\ Survives(s, s, {"charge_ctrl"})
    BY TouchesItself DEF Survives
  <2>3. QED
    BY <1>3, <2>1, <2>2 DEF BatteryReady
<1>4. QED
  BY <1>1, <1>2, <1>3
-----------------------------------------------------------------------------
(* Power adapter events                                                    *)

Modes == "BATTERY_CHARGE_MODES" \in features

Priority == "USB_C_POWER_PRIORITY" \in features

\* What the driver remembers is in force again, or an access has failed.
Notifies(s, t) ==
  /\ Touches(s, t, {"profile", "usb_c"}, {})
  /\ t.ok = TRUE /\ Alive(s) /\ s.cache_only = FALSE
       => /\ Modes => t.ec["profile"] = ChargingProfile[s.last["charge"]]
          /\ Priority => t.ec["usb_c"] = usb_c_power_priority_value[s.last["usb_c"]]
  /\ \/ t.ec["profile"] = s.ec["profile"]
     \/ Modes /\ t.ec["profile"] = ChargingProfile[s.last["charge"]]
  /\ \/ t.ec["usb_c"] = s.ec["usb_c"]
     \/ Priority /\ t.ec["usb_c"] = usb_c_power_priority_value[s.last["usb_c"]]

LEMMA PlainFields ==
  {"profile", "usb_c", "manual", "rgb", "ctgp_on", "ctgp_general", "tpp_offset",
   "db_offset", "project", "has_gpu"} \cup LightFields \subseteq EcField \ Effect
BY DEF EcField, Field, RegisterOf, Effect, LightFields

LEMMA NotifierLemma ==
  ASSUME NEW s, Sys(s)
  PROVE  Notifies(s, uniwill_notifier_call(s))
<1> DEFINE x == ChargingProfile[s.last["charge"]]
           y == usb_c_power_priority_value[s.last["usb_c"]]
           m == IF Modes THEN restore_charge_type(s) ELSE s
           t == IF Priority /\ m.ok THEN usb_c_power_priority_restore(m) ELSE m
<1>1. uniwill_notifier_call(s) = t
  BY DEF uniwill_notifier_call, Supports, Modes, Priority
<1>2. {"profile", "usb_c"} \subseteq EcField \ Effect
  BY PlainFields
<1>3. /\ Touches(s, m, {"profile"}, {})
      /\ m.ok = TRUE /\ Alive(s) /\ s.cache_only = FALSE /\ Modes => m.ec["profile"] = x
      /\ m.ec["profile"] = s.ec["profile"] \/ (Modes /\ m.ec["profile"] = x)
  <2>1. Restores(s, restore_charge_type(s), "profile", x)
    BY ChargeTypeRestored DEF restore_charge_type
  <2>2. QED
    BY <2>1, TouchesItself DEF Restores
<1> HIDE DEF m
<1>4. /\ Sys(m) /\ m.last["usb_c"] = s.last["usb_c"] /\ Alive(m) = Alive(s)
      /\ m.cache_only = s.cache_only /\ m.ec["usb_c"] = s.ec["usb_c"]
      /\ m.ok \in BOOLEAN
  BY <1>2, <1>3 DEF Touches, Alters, Part, LastPart, Alive, Sys
<1>5. /\ Touches(m, t, {"usb_c"}, {})
      /\ t.ok = TRUE /\ Alive(m) /\ m.cache_only = FALSE /\ Priority => t.ec["usb_c"] = y
      /\ t.ec["usb_c"] = m.ec["usb_c"] \/ (Priority /\ t.ec["usb_c"] = y)
  <2>1. Restores(m, usb_c_power_priority_restore(m), "usb_c", y)
    BY <1>4, UsbCRestored DEF usb_c_power_priority_restore
  <2>2. QED
    BY <1>4, <2>1, TouchesItself DEF Restores
<1> HIDE DEF t
<1>6. Touches(s, t, {"profile", "usb_c"}, {})
  BY <1>3, <1>5, TouchesThen
<1>7. t.ec["profile"] = m.ec["profile"]
  BY <1>2, <1>5 DEF Touches
<1>8. t.ok = TRUE => m.ok = TRUE
  BY <1>4, <1>5, OkBefore
<1> HIDE DEF x, y
<1>9. Notifies(s, t)
  BY <1>3, <1>4, <1>5, <1>6, <1>7, <1>8 DEF Notifies, x, y
<1>10. QED
  BY <1>1, <1>9

-----------------------------------------------------------------------------
(* The parts of the probe                                                  *)

BoostFields == {"ctgp_offset", "tpp_offset", "db_offset", "ctgp_general", "ctgp_on"}

\* The boost of the GPU is on, as far as the cache knows.
Boosted(t) ==
  /\ {"ctgp_general", "ctgp_on", "tpp_offset", "db_offset"} \subseteq DOMAIN t.cache
  /\ t.cache["ctgp_general"] = 1 /\ t.cache["ctgp_on"] = 1
  /\ t.cache["tpp_offset"] = 255 /\ t.cache["db_offset"] = 25

\* The boost of the GPU is set up.
LEMMA CtgpInit ==
  ASSUME NEW s, Sys(s), NEW fs
  PROVE  LET t == uniwill_nvidia_ctgp_init(s, fs)
         IN /\ Touches(s, t, BoostFields, {})
            /\ t.ok = TRUE /\ "NVIDIA_CTGP_CONTROL" \in fs => Boosted(t)
<1> DEFINE F == BoostFields
<1>1. CASE "NVIDIA_CTGP_CONTROL" \notin fs
  BY <1>1, TouchesItself DEF uniwill_nvidia_ctgp_init
<1>2. CASE "NVIDIA_CTGP_CONTROL" \in fs
  <2> DEFINE b1 == [ctgp_offset |-> 0]
             b2 == [tpp_offset |-> 255]
             b3 == [db_offset |-> 25]
             b4 == [ctgp_general |-> 1, ctgp_on |-> 1]
             t1 == Write(s, "CTGP_OFFSET", b1)
             t2 == Write(t1, "TPP_OFFSET", b2)
             t3 == Write(t2, "DB_OFFSET", b3)
             t4 == UpdateBits(t3, "CTGP_CTRL", b4)
  <2>1. uniwill_nvidia_ctgp_init(s, fs) = t4
    BY <1>2 DEF uniwill_nvidia_ctgp_init
  <2>2. /\ DOMAIN b1 = {"ctgp_offset"} /\ b1["ctgp_offset"] = 0
        /\ DOMAIN b2 = {"tpp_offset"} /\ b2["tpp_offset"] = 255
        /\ DOMAIN b3 = {"db_offset"} /\ b3["db_offset"] = 25
        /\ DOMAIN b4 = {"ctgp_general", "ctgp_on"}
        /\ b4["ctgp_general"] = 1 /\ b4["ctgp_on"] = 1
    OBVIOUS
  <2>3. {"CTGP_OFFSET", "TPP_OFFSET", "DB_OFFSET", "CTGP_CTRL"} \subseteq Register \ Volatile
    BY RegisterLemma DEF Volatile
  <2> HIDE DEF b1, b2, b3, b4
  <2>4. Puts(s, t1, "CTGP_OFFSET", b1)
    BY <2>2, <2>3, WholePuts, RegisterLemma
  <2> HIDE DEF t1
  <2>5. Sys(t1) /\ Touches(s, t1, {"ctgp_offset"}, {})
    BY <2>3, <2>4, RegisterLemma DEF Puts, Touches
  <2>6. Puts(t1, t2, "TPP_OFFSET", b2)
    BY <2>2, <2>3, <2>5, WholePuts, RegisterLemma
  <2> HIDE DEF t2
  <2>7. Sys(t2) /\ Touches(t1, t2, {"tpp_offset"}, {})
    BY <2>3, <2>6, RegisterLemma DEF Puts, Touches
  <2>8. Puts(t2, t3, "DB_OFFSET", b3)
    BY <2>2, <2>3, <2>7, WholePuts, RegisterLemma
  <2> HIDE DEF t3
  <2>9. Sys(t3) /\ Touches(t2, t3, {"db_offset"}, {})
    BY <2>3, <2>8, RegisterLemma DEF Puts, Touches
  <2>10. Puts(t3, t4, "CTGP_CTRL", b4)
    BY <2>2, <2>3, <2>9, UpdateBitsPuts, RegisterLemma
  <2> HIDE DEF t4
  <2>11. Sys(t4) /\ Touches(t3, t4, {"ctgp_general", "ctgp_on"}, {})
    BY <2>3, <2>10, RegisterLemma DEF Puts, Touches
  <2>12. Touches(s, t4, F, {})
    <3>1. Touches(s, t2, {"ctgp_offset", "tpp_offset"}, {})
      BY <2>5, <2>7, TouchesThen
    <3>2. Touches(s, t3, {"ctgp_offset", "tpp_offset", "db_offset"}, {})
      BY <2>9, <3>1, TouchesThen
    <3>3. QED
      BY <2>11, <3>2, TouchesThen DEF BoostFields
  <2>13. ASSUME t4.ok = TRUE
         PROVE  Boosted(t4)
    <3>1. t3.ok = TRUE /\ t2.ok = TRUE /\ t1.ok = TRUE
      BY <2>5, <2>7, <2>9, <2>11, <2>13, OkBefore
    <3>2. "tpp_offset" \in DOMAIN t2.cache /\ t2.cache["tpp_offset"] = 255
      BY <2>2, <2>3, <2>6, <3>1 DEF Puts
    <3>3. "tpp_offset" \in DOMAIN t4.cache /\ t4.cache["tpp_offset"] = 255
      BY <2>9, <2>11, <3>2 DEF Touches
    <3>4. "db_offset" \in DOMAIN t3.cache /\ t3.cache["db_offset"] = 25
      BY <2>2, <2>3, <2>8, <3>1 DEF Puts
    <3>5. "db_offset" \in DOMAIN t4.cache /\ t4.cache["db_offset"] = 25
      BY <2>11, <3>4 DEF Touches
    <3>6. {"ctgp_general", "ctgp_on"} \subseteq DOMAIN t4.cache
          /\ t4.cache["ctgp_general"] = 1 /\ t4.cache["ctgp_on"] = 1
      BY <2>2, <2>3, <2>10, <2>13 DEF Puts
    <3>7. QED
      BY <3>3, <3>5, <3>6 DEF Boosted
  <2>14. QED
    BY <1>2, <2>1, <2>12, <2>13
<1>3. QED
  BY <1>1, <1>2

\* The USB-C priority is the one that the EC has.
LEMMA UsbCInit ==
  ASSUME NEW s, Sys(s), NEW fs
  PROVE  LET t == usb_c_power_priority_init(s, fs)
         IN /\ Touches(s, t, {}, {"usb_c"})
            /\ t.ok = TRUE /\ Alive(s) /\ "USB_C_POWER_PRIORITY" \in fs
               /\ s.ec["usb_c"] \in {0, 1}
               => /\ t.last["usb_c"] \in DOMAIN usb_c_power_priority_value
                  /\ usb_c_power_priority_value[t.last["usb_c"]] = t.ec["usb_c"]
<1> DEFINE t == usb_c_power_priority_init(s, fs)
           got == Read(s, "USB_C")
           p == Seen(got, "usb_c")
           v == usb_c_power_priority_show([usb_c |-> p])
           u == [got EXCEPT !.last["usb_c"] = v]
<1>1. CASE "USB_C_POWER_PRIORITY" \notin fs
  BY <1>1, TouchesItself DEF usb_c_power_priority_init
<1>2. CASE "USB_C_POWER_PRIORITY" \in fs
  <2>1. Touches(s, got, {}, {}) /\ Sys(got)
    BY VolatileRead, RegisterLemma DEF Volatile
  <2>2. Reads(s, got, "USB_C")
    BY ReadLemma, RegisterLemma
  <2>3. t = IF ~got.ok THEN got ELSE u
    BY <1>2 DEF usb_c_power_priority_init
  <2>4. p = OnWire(s, "usb_c")
    <3>1. "usb_c" \notin DOMAIN got.cache
      BY <2>1 DEF Sys, Cache, RegisterOf, Volatile, Field
    <3>2. OnWire(got, "usb_c") = OnWire(s, "usb_c")
      BY <2>2 DEF Reads, Alters, Part, OnWire, Alive
    <3>3. QED
      BY <3>1, <3>2 DEF Seen
  <2>5. v = IF p = 1 THEN "performance" ELSE "charging"
    BY DEF usb_c_power_priority_show
  <2>6. p \in {0, 1} => v \in DOMAIN usb_c_power_priority_value
                        /\ usb_c_power_priority_value[v] = p
    BY <2>5 DEF usb_c_power_priority_value
  <2> HIDE DEF p, v
  <2>7. got.ec = s.ec
    BY <2>2 DEF Reads, Alters, Part
  <2> HIDE DEF got, t
  <2>8. CASE got.ok = FALSE
    BY <2>1, <2>3, <2>8, TouchesMore DEF t
  <2>9. CASE got.ok = TRUE
    <3>1. \A y \in LastPart : \A w :
            LET z == [got EXCEPT !.last[y] = w]
            IN /\ Touches(got, z, {}, {y}) /\ z.last[y] = w
               /\ z.ok = got.ok /\ z.ec = got.ec /\ z.cache = got.cache
      BY <2>1, <2>9, TouchesLast
    <3>2. Touches(got, u, {}, {"usb_c"}) /\ u.last["usb_c"] = v
          /\ u.ok = got.ok /\ u.ec = got.ec
      BY <3>1 DEF LastPart
    <3> HIDE DEF u
    <3>3. Touches(s, u, {}, {"usb_c"})
      BY <2>1, <3>2, TouchesThen
    <3>4. QED
      BY <2>3, <2>4, <2>6, <2>7, <2>9, <3>2, <3>3 DEF OnWire, t
  <2>10. QED
    BY <2>1, <2>8, <2>9 DEF Sys
<1>3. QED
  BY <1>1, <1>2

\* The lightbar is claimed, and looks the same on AC and on battery.
Claims(s, t) ==
  /\ Touches(s, t, LightFields, {})
  /\ t.ok = TRUE => /\ LightFields \subseteq DOMAIN t.cache
                    /\ t.cache["ac_app"] = 1 /\ t.cache["bat_app"] = 1
                    /\ t.cache["ac_rgb"] = t.cache["bat_rgb"]
                    /\ t.cache["ac_off"] = t.cache["bat_off"]
                    /\ t.cache["ac_rainbow"] = t.cache["bat_rainbow"]

LEMMA LightsSys ==
  ASSUME NEW s, NEW t, NEW B, Lights(s, t, B)
  PROVE  Sys(t)
BY DEF Lights, Touches

LEMMA LedInit ==
  ASSUME NEW s, Sys(s), NEW fs, "LIGHTBAR" \in fs
  PROVE  Claims(s, uniwill_led_init(s, fs))
<1> DEFINE a == [ac_app |-> 1]
           got == Read(s, "LIGHTBAR_AC")
           new == Merged(got, "LIGHTBAR_AC", a)
           claimed == Write(got, "LIGHTBAR_AC", new)
           off == Seen(got, "ac_off")
           rainbow == Seen(got, "ac_rainbow")
           b == [bat_app |-> 1, bat_still |-> 1, bat_off |-> off, bat_rainbow |-> rainbow]
           same == UpdateBits(claimed, "LIGHTBAR_BAT", b)
           colour == Read(same, "LIGHTBAR_AC_RGB")
           level == Smaller(Seen(colour, "ac_rgb"), machine.lightbar_max)
           c == [ac_rgb |-> level]
           d == [bat_rgb |-> level]
           u == Write(colour, "LIGHTBAR_AC_RGB", c)
           t == Write(u, "LIGHTBAR_BAT_RGB", d)
<1>1. uniwill_led_init(s, fs) = t
  BY DEF uniwill_led_init
<1>2. /\ DOMAIN a = {"ac_app"} /\ a["ac_app"] = 1
      /\ DOMAIN b = {"bat_app", "bat_still", "bat_off", "bat_rainbow"}
      /\ b["bat_app"] = 1 /\ b["bat_off"] = off /\ b["bat_rainbow"] = rainbow
      /\ DOMAIN c = {"ac_rgb"} /\ c["ac_rgb"] = level
      /\ DOMAIN d = {"bat_rgb"} /\ d["bat_rgb"] = level
  OBVIOUS
<1>3. LightRegister \subseteq Register \ Volatile
  BY RegisterLemma DEF LightRegister, Volatile
<1> HIDE DEF a, b, c, d, level
<1>4. Lights(s, got, {}) /\ (got.ok = TRUE => Fields["LIGHTBAR_AC"] \subseteq DOMAIN got.cache)
      /\ Sys(got)
  BY LightRead, LightsSys DEF LightRegister
<1>5. Lights(got, claimed, {"ac_app"}) /\ Caches(claimed, a) /\ Sys(claimed)
  <2>0. "LIGHTBAR_AC" \in Register /\ DOMAIN a \subseteq Fields["LIGHTBAR_AC"]
    BY <1>2, RegisterLemma
  <2>1. Puts(got, claimed, "LIGHTBAR_AC", a)
    BY <2>0, MergedPuts
  <2> HIDE DEF got, claimed
  <2>3. QED
    BY <1>2, <2>1, LightPuts, LightsSys DEF LightRegister
<1> HIDE DEF got, claimed
<1>6. claimed.ok = TRUE => got.ok = TRUE
  BY <1>4, <1>5, OkBefore DEF Lights
<1>7. claimed.ok = TRUE =>
        /\ {"ac_app", "ac_off", "ac_still", "ac_rainbow"} \subseteq DOMAIN claimed.cache
        /\ claimed.cache["ac_app"] = 1
        /\ claimed.cache["ac_off"] = off /\ claimed.cache["ac_rainbow"] = rainbow
  <2>1. got.ok = TRUE => {"ac_app", "ac_off", "ac_still", "ac_rainbow"} \subseteq DOMAIN got.cache
    BY <1>4, RegisterLemma
  <2>2. DOMAIN got.cache \subseteq DOMAIN claimed.cache
    BY <1>5 DEF Lights, Touches
  <2>3. QED
    BY <1>2, <1>5, <1>6, <2>1, <2>2 DEF Lights, Caches, Seen
<1> HIDE DEF off, rainbow
<1>8. Lights(claimed, same, DOMAIN b) /\ Caches(same, b) /\ Sys(same)
  <2>1. Puts(claimed, same, "LIGHTBAR_BAT", b)
    BY <1>2, <1>3, <1>5, UpdateBitsPuts, RegisterLemma DEF LightRegister
  <2>2. QED
    BY <2>1, LightPuts, LightsSys DEF LightRegister
<1> HIDE DEF same
<1>9. Lights(same, colour, {}) /\ Sys(colour)
  BY <1>8, LightRead, LightsSys DEF LightRegister
<1> HIDE DEF colour
<1>10. Lights(colour, u, {"ac_rgb"}) /\ Caches(u, c) /\ Sys(u)
  <2>1. Puts(colour, u, "LIGHTBAR_AC_RGB", c)
    BY <1>2, <1>3, <1>9, WholePuts, RegisterLemma
  <2>2. QED
    BY <1>2, <2>1, LightPuts, LightsSys DEF LightRegister
<1> HIDE DEF u
<1>11. Lights(u, t, {"bat_rgb"}) /\ Caches(t, d) /\ Sys(t)
  <2>1. Puts(u, t, "LIGHTBAR_BAT_RGB", d)
    BY <1>2, <1>3, <1>10, WholePuts, RegisterLemma
  <2>2. QED
    BY <1>2, <2>1, LightPuts, LightsSys DEF LightRegister
<1> HIDE DEF t
<1>12. Touches(s, t, LightFields, {})
  BY <1>4, <1>5, <1>8, <1>9, <1>10, <1>11, TouchesChain DEF Lights
<1>13. ASSUME t.ok = TRUE
       PROVE  /\ LightFields \subseteq DOMAIN t.cache
              /\ t.cache["ac_app"] = 1 /\ t.cache["bat_app"] = 1
              /\ t.cache["ac_rgb"] = t.cache["bat_rgb"]
              /\ t.cache["ac_off"] = t.cache["bat_off"]
              /\ t.cache["ac_rainbow"] = t.cache["bat_rainbow"]
  <2>1. u.ok = TRUE /\ colour.ok = TRUE /\ same.ok = TRUE /\ claimed.ok = TRUE
    BY <1>5, <1>8, <1>9, <1>10, <1>11, <1>13, OkBefore DEF Lights
  <2>2. /\ \A f \in DOMAIN claimed.cache : f \in DOMAIN same.cache
        /\ \A f \in DOMAIN same.cache : f \in DOMAIN colour.cache
        /\ \A f \in DOMAIN colour.cache : f \in DOMAIN u.cache
        /\ \A f \in DOMAIN u.cache : f \in DOMAIN t.cache
    BY <1>8, <1>9, <1>10, <1>11 DEF Lights, Touches
  <2>3. /\ {"ac_app", "ac_off", "ac_still", "ac_rainbow"} \subseteq DOMAIN t.cache
        /\ t.cache["ac_app"] = 1 /\ t.cache["ac_off"] = off
        /\ t.cache["ac_rainbow"] = rainbow
    BY <1>2, <1>7, <1>8, <1>9, <1>10, <1>11, <2>1, <2>2 DEF Lights
  <2>4. /\ {"bat_app", "bat_off", "bat_still", "bat_rainbow"} \subseteq DOMAIN t.cache
        /\ t.cache["bat_app"] = 1 /\ t.cache["bat_off"] = off
        /\ t.cache["bat_rainbow"] = rainbow
    BY <1>2, <1>8, <1>9, <1>10, <1>11, <2>1, <2>2 DEF Lights, Caches
  <2>5. "ac_rgb" \in DOMAIN t.cache /\ t.cache["ac_rgb"] = level
    BY <1>2, <1>10, <1>11, <2>1, <2>2 DEF Lights, Caches
  <2>6. "bat_rgb" \in DOMAIN t.cache /\ t.cache["bat_rgb"] = level
    BY <1>2, <1>11, <1>13 DEF Caches
  <2>7. QED
    BY <2>3, <2>4, <2>5, <2>6 DEF LightFields
<1>14. Claims(s, t)
  BY <1>12, <1>13 DEF Claims
<1>15. QED
  BY <1>1, <1>14 DEF t

\* The colour is in range, as far as the cache knows.
InRange(t) == "rgb" \in DOMAIN t.cache /\ t.cache["rgb"] \in 1..50

\* A colour in range is the one that the keys show.
Honest(s) == s.ec["rgb"] \in 1..50 => s.ec["shown"] = s.ec["rgb"]

\* The cache knows a colour in range, and it is shown.
Glows(s) == InRange(s) /\ s.ec["rgb"] = s.cache["rgb"] /\ s.ec["shown"] = s.ec["rgb"]

\* The colour of the keys is brought into range and shown.
Tints(s, t, F) ==
  /\ Touches(s, t, F, {}) /\ Survives(s, t, F)
  /\ t.ok = TRUE => InRange(t)
  /\ /\ t.ok = TRUE /\ Alive(s) /\ Coherent(s) /\ s.cache_only = FALSE
     /\ Honest(s)
     => Glows(t)

LEMMA RgbInit ==
  ASSUME NEW s, Sys(s), RgbTyped(s)
  PROVE  Tints(s, uniwill_rgb_kbd_led_init(s), {"rgb", "apply_rgb"})
<1> DEFINE got == Read(s, "RGB")
           seen == Seen(got, "rgb")
           value == Clamp(seen, 1, 50)
           b == [rgb |-> value]
           a == [apply_rgb |-> 1]
           u == Write(got, "RGB", b)
           t == WriteBits(u, "TRIGGER", a)
           F == {"rgb", "apply_rgb"}
<1>1. uniwill_rgb_kbd_led_init(s) = IF seen = value THEN got ELSE t
  BY DEF uniwill_rgb_kbd_led_init
<1>2. /\ DOMAIN b = {"rgb"} /\ b["rgb"] = value
      /\ DOMAIN a = {"apply_rgb"} /\ a["apply_rgb"] = 1
  OBVIOUS
<1>3. /\ "RGB" \in Register /\ "RGB" \notin Volatile /\ Fields["RGB"] = {"rgb"}
      /\ "TRIGGER" \in Register /\ "TRIGGER" \in Volatile /\ "apply_rgb" \in Fields["TRIGGER"]
  BY RegisterLemma DEF Volatile
<1>4. /\ Reads(s, got, "RGB") /\ Survives(s, got, {}) /\ Sys(got)
      /\ Touches(s, got, IF "RGB" \in Volatile THEN {} ELSE Fields["RGB"], {})
  BY <1>3, ReadLemma, ReadSurvives, ReadTouches DEF Reads
<1> HIDE DEF got
<1>5. RgbTyped(got) /\ got.ec = s.ec
  BY <1>4 DEF Survives, Reads, Alters, Part
<1>6. seen \in Int
  BY <1>5 DEF RgbTyped, Seen, OnWire, Ones, Field, RegisterOf
<1> HIDE DEF seen
<1>7. value \in 1..50 /\ value \in Int /\ (seen = value => seen \in 1..50)
      /\ (seen \in 1..50 => value = seen)
  BY <1>6, ClampLemma
<1> HIDE DEF value, b, a
<1>8. got.ok = TRUE /\ Alive(s) /\ Coherent(s) /\ s.cache_only = FALSE
        => /\ "rgb" \in DOMAIN got.cache /\ got.cache["rgb"] = seen
           /\ got.ec["rgb"] = seen /\ Coherent(got)
  <2>1. got.ok = TRUE => "rgb" \in DOMAIN got.cache
    BY <1>3, <1>4 DEF Reads
  <2>2. QED
    BY <1>4, <2>1 DEF Touches, Coherent, Seen, seen
<1>9. CASE seen = value
  <2>1. Touches(s, got, F, {}) /\ Survives(s, got, F)
    BY <1>3, <1>4, TouchesMore, SurvivesMore
  <2>2. got.ok = TRUE => InRange(got)
    BY <1>3, <1>4, <1>7, <1>9 DEF Reads, InRange, Seen, seen
  <2>3. QED
    BY <1>1, <1>5, <1>7, <1>8, <1>9, <2>1, <2>2 DEF Tints, InRange, Glows, Honest
<1>10. CASE seen # value
  <2>1. Puts(got, u, "RGB", b)
    BY <1>2, <1>3, <1>4, WholePuts
  <2> HIDE DEF u
  <2>2. Touches(got, u, {"rgb"}, {}) /\ Sys(u)
    BY <1>2, <1>3, <2>1 DEF Puts, Touches
  <2>3. /\ Puts(u, t, "TRIGGER", a)
        /\ Alive(u) /\ u.cache_only = FALSE /\ t.ok = TRUE
             => t.ec["shown"] = Applied(u.ec)
    <3>1. DOMAIN a \subseteq Fields["TRIGGER"]
      BY <1>2, <1>3
    <3>2. QED
      BY <1>2, <1>3, <2>2, <3>1, WriteBitsPuts
  <2> HIDE DEF t
  <2>4. Touches(u, t, {"apply_rgb"}, {}) /\ Sys(t)
    BY <1>2, <1>3, <2>3 DEF Puts, Touches
  <2>5. Touches(got, t, F, {})
    BY <2>2, <2>4, TouchesThen
  <2>6. Touches(s, t, F, {})
    BY <1>3, <1>4, <2>5, TouchesThen
  <2>7. /\ t.ec["rgb"] = u.ec["rgb"]
        /\ "rgb" \in DOMAIN t.cache
             => "rgb" \in DOMAIN u.cache /\ t.cache["rgb"] = u.cache["rgb"]
    BY <2>4, PlainFields DEF Touches
  <2>8. RgbTyped(u)
    <3>1. u.ec["rgb"] = got.ec["rgb"] \/ u.ec["rgb"] = value
      BY <1>2, <2>1 DEF Puts
    <3>2. ASSUME "rgb" \in DOMAIN u.cache
          PROVE  u.cache["rgb"] \in Int
      <4>1. "rgb" \in DOMAIN got.cache => u.cache["rgb"] = got.cache["rgb"] \/ u.cache["rgb"] = value
        BY <1>2, <2>1 DEF Puts
      <4>2. CASE u.ok = TRUE
        BY <1>2, <1>3, <1>7, <2>1, <4>2 DEF Puts
      <4>3. CASE "rgb" \in DOMAIN got.cache
        BY <1>5, <1>7, <4>1, <4>3 DEF RgbTyped
      <4>4. CASE u.ok = FALSE /\ "rgb" \notin DOMAIN got.cache
        \* the write got as far as the cache
        <5>1. CASE got.ok = FALSE
          BY <2>2, <3>2, <4>4, <5>1 DEF Touches, Progress
        <5>2. CASE got.ok = TRUE
          BY <1>3, <1>4, <4>4, <5>2 DEF Reads
        <5>3. QED
          BY <1>4, <5>1, <5>2 DEF Sys
      <4>5. QED
        BY <2>2, <4>2, <4>3, <4>4 DEF Sys
    <3>3. QED
      BY <1>5, <1>7, <3>1, <3>2 DEF RgbTyped
  <2>9. RgbTyped(t)
    BY <2>7, <2>8 DEF RgbTyped
  <2>10. Survives(s, t, F)
    BY <2>6, <2>9 DEF Survives, Touches, Alters, Part, Progress
  <2>11. ASSUME t.ok = TRUE, Alive(s), Coherent(s), s.cache_only = FALSE
         PROVE  Glows(t)
    <3>1. u.ok = TRUE /\ got.ok = TRUE
      BY <1>4, <2>2, <2>4, <2>11, OkBefore
    <3>2. Alive(got) /\ Coherent(got) /\ got.cache_only = FALSE
      BY <1>4, <1>8, <2>11, <3>1 DEF Reads, Alters, Part, Alive
    <3>3. Alive(u) /\ u.cache_only = FALSE
      BY <2>2, <3>2 DEF Touches, Alters, Part, Alive
    <3>4. "rgb" \in DOMAIN u.cache /\ u.cache["rgb"] = value /\ u.ec["rgb"] = value
      BY <1>2, <1>3, <2>1, <2>2, <3>1, <3>2 DEF Puts, Touches, Coherent
    <3>5. t.ec["shown"] = value
      BY <1>7, <2>3, <2>11, <3>3, <3>4 DEF Applied
    <3>6. "rgb" \in DOMAIN t.cache
      BY <2>4, <3>4 DEF Touches
    <3>7. QED
      BY <1>7, <2>7, <3>4, <3>5, <3>6 DEF InRange, Glows
  <2>12. ASSUME t.ok = TRUE
         PROVE  InRange(t)
    <3>1. u.ok = TRUE
      BY <2>2, <2>4, <2>12, OkBefore
    <3>2. "rgb" \in DOMAIN u.cache /\ u.cache["rgb"] = value
      BY <1>2, <1>3, <2>1, <3>1 DEF Puts
    <3>3. "rgb" \in DOMAIN t.cache
      BY <2>4, <3>2 DEF Touches
    <3>4. QED
      BY <1>7, <2>7, <3>2, <3>3 DEF InRange
  <2>13. Tints(s, t, F)
    BY <2>6, <2>10, <2>11, <2>12 DEF Tints
  <2>14. QED
    BY <1>1, <1>10, <2>13 DEF t
<1>11. QED
  BY <1>9, <1>10

LEMMA TintsAfter ==
  ASSUME NEW s, NEW m, NEW t, NEW F, NEW G, NEW H, "rgb" \notin F, F \cup G \subseteq H,
         Sys(s), RgbTyped(s), Touches(s, m, F, {}), Tints(m, t, G)
  PROVE  Tints(s, t, H)
<1>1. Survives(s, m, F) /\ Sys(m)
  BY TouchesSurvives DEF Touches
<1>2. Touches(s, t, H, {})
  BY TouchesThen DEF Tints
<1>3. Survives(s, t, H)
  BY <1>1, SurvivesThen DEF Tints
<1>4. Alive(m) = Alive(s) /\ m.cache_only = s.cache_only
  BY <1>1 DEF Survives, Alive
<1>5. t.ok = TRUE => m.ok = TRUE
  BY <1>1, OkBefore DEF Tints
<1>6. m.ec["rgb"] = s.ec["rgb"]
  BY PlainFields DEF Touches
<1>7. s.ec["rgb"] \in 1..50 => s.ec["rgb"] # 0
  OBVIOUS
<1>8. QED
  BY <1>2, <1>3, <1>4, <1>5, <1>6, <1>7 DEF Tints, Touches, Honest

\* The keyboard is lit, and shows a colour in range where it has colours.
LEMMA KbdInit ==
  ASSUME NEW s, Sys(s), RgbTyped(s), NEW fs, "KEYBOARD_BACKLIGHT" \in fs
  PROVE  LET t == uniwill_kbd_led_init(s, fs)
             F == ColourFields \cup {"china_on"}
         IN /\ Touches(s, t, F, {}) /\ Survives(s, t, F)
            /\ machine.single = FALSE => Tints(s, t, F)
<1> DEFINE a == [china_on |-> 1]
           b == [kbd_apply |-> 1, kbd_off |-> 0]
           china == Read(s, "SUPPORT_2")
           mode == IF Seen(china, "china_mode") = 1 THEN china
                   ELSE UpdateBits(china, "BIOS_OEM_2", a)
           lit == WriteBits(mode, "KBD_STATUS", b)
           t == uniwill_rgb_kbd_led_init(lit)
           F == ColourFields \cup {"china_on"}
           G == {"china_on"} \cup KbdFields
<1>1. uniwill_kbd_led_init(s, fs) = IF machine.single THEN lit ELSE t
  BY DEF uniwill_kbd_led_init, WriteBits
<1>2. DOMAIN a = {"china_on"} /\ DOMAIN b \subseteq KbdFields
  BY DEF KbdFields
<1>3. /\ "BIOS_OEM_2" \in Register /\ Fields["BIOS_OEM_2"] = {"china_on"}
      /\ "KBD_STATUS" \in Register /\ "KBD_STATUS" \in Volatile
      /\ Fields["KBD_STATUS"] = KbdFields
      /\ "SUPPORT_2" \in Register /\ "SUPPORT_2" \in Volatile
      /\ "BIOS_OEM_2" \notin Volatile
  BY RegisterLemma DEF Volatile, KbdFields
<1> HIDE DEF a, b
<1>4. Touches(s, china, {}, {}) /\ Sys(china)
  BY <1>3, VolatileRead
<1> HIDE DEF china
<1>5. Touches(china, mode, {"china_on"}, {})
  <2>1. Puts(china, UpdateBits(china, "BIOS_OEM_2", a), "BIOS_OEM_2", a)
    BY <1>2, <1>3, <1>4, UpdateBitsPuts
  <2>2. QED
    BY <1>3, <1>4, <2>1, TouchesItself DEF Puts
<1> HIDE DEF mode
<1>6. Touches(s, mode, {"china_on"}, {}) /\ Sys(mode)
  BY <1>4, <1>5, TouchesThen, TouchesSys
<1>7. Touches(mode, lit, KbdFields, {})
  <2>1. Touches(mode, lit, DOMAIN b, {})
    BY <1>2, <1>3, <1>6, VolatileWriteBits
  <2>2. QED
    BY <1>2, <2>1, TouchesMore
<1> HIDE DEF lit
<1>8. Touches(s, lit, G, {}) /\ Sys(lit)
  BY <1>6, <1>7, TouchesThen, TouchesSys
<1>9. "rgb" \notin G /\ G \subseteq F /\ G \cup {"rgb", "apply_rgb"} \subseteq F
  BY DEF ColourFields, KbdFields
<1>10. Survives(s, lit, G) /\ RgbTyped(lit)
  BY <1>8, <1>9, TouchesSurvives
<1> HIDE DEF F, G
<1>11. Touches(s, lit, F, {}) /\ Survives(s, lit, F)
  BY <1>8, <1>9, <1>10, TouchesMore, SurvivesMore
<1>12. Tints(lit, t, {"rgb", "apply_rgb"})
  BY <1>8, <1>10, RgbInit
<1> HIDE DEF t
<1>13. Tints(s, t, F)
  BY <1>8, <1>9, <1>12, TintsAfter
<1>14. QED
  BY <1>1, <1>11, <1>13 DEF Tints, F

-----------------------------------------------------------------------------
(* Removal                                                                 *)

\* The last write hands the EC back.
LEMMA HandBack ==
  ASSUME NEW s, Sys(s), s.ok = TRUE
  PROVE  LET t == uniwill_disable_manual_control(s)
         IN /\ Touches(s, t, {"manual"}, {})
            /\ /\ s.fuse = 0 /\ Alive(s) /\ s.cache_only = FALSE
               /\ "manual" \in DOMAIN s.cache /\ s.cache["manual"] = 1
               => t.ec["manual"] = 0
<1> DEFINE b == [manual |-> 0]
           t == UpdateBits(s, "AP_OEM", b)
<1>1. uniwill_disable_manual_control(s) = t
  BY DEF uniwill_disable_manual_control
<1>2. DOMAIN b = {"manual"} /\ b["manual"] = 0
  OBVIOUS
<1>3. "AP_OEM" \in Register /\ "AP_OEM" \notin Volatile /\ Fields["AP_OEM"] = {"manual"}
  BY RegisterLemma DEF Volatile
<1> HIDE DEF b
<1>4. Puts(s, t, "AP_OEM", b)
  BY <1>2, <1>3, UpdateBitsPuts
<1>5. Touches(s, t, {"manual"}, {})
  BY <1>3, <1>4 DEF Puts
<1>6. ASSUME s.fuse = 0, Alive(s), s.cache_only = FALSE,
             "manual" \in DOMAIN s.cache, s.cache["manual"] = 1
      PROVE  t.ec["manual"] = 0
  <2>1. t.ok = TRUE
    BY <1>5, <1>6 DEF Touches, Progress, Sys
  <2>2. "manual" \in DOMAIN b /\ s.cache["manual"] # b["manual"]
    BY <1>2, <1>6
  <2>3. DOMAIN b \subseteq Fields["AP_OEM"]
    BY <1>2, <1>3
  <2>4. \A f \in DOMAIN b : t.ec[f] = b[f]
    <3>1. Sent(t, b)
      BY <1>3, <1>6, <2>2, <2>3, UpdateBitsSent
    <3>2. QED
      BY <2>1, <3>1 DEF Sent
  <2>5. QED
    BY <1>2, <2>4
<1>7. QED
  BY <1>1, <1>5, <1>6

ReleaseFields == ColourFields \cup LightFields \cup {"manual"}

LEMMA GlowsOn ==
  ASSUME NEW s, NEW t, NEW F, NEW L, Glows(s), Touches(s, t, F, L), "rgb" \notin F
  PROVE  Glows(t)
<1>1. t.ec["rgb"] = s.ec["rgb"]
  BY PlainFields DEF Touches
<1>2. s.ec["rgb"] # 0
  BY DEF Glows, InRange
<1>3. "rgb" \in DOMAIN t.cache /\ t.cache["rgb"] = s.cache["rgb"]
  BY DEF Glows, InRange, Touches
<1>4. QED
  BY <1>1, <1>2, <1>3 DEF Glows, InRange, Touches

\* Working: no access fails and the EC is reached.
Works(s) == s.fuse = 0 /\ Alive(s) /\ s.cache_only = FALSE

Releases(s, t, manual) ==
  /\ Survives(s, t, ReleaseFields)
  /\ manual = FALSE => t.ec["manual"] = s.ec["manual"]
  /\ manual = TRUE /\ Works(s) /\ "manual" \in DOMAIN s.cache /\ s.cache["manual"] = 1
       => t.ec["manual"] = 0
  /\ machine.single = FALSE /\ Works(s) /\ Coherent(s) /\ Glows(s) => Glows(t)

LEMMA ReleaseLemma ==
  ASSUME NEW s, Sys(s), RgbTyped(s), NEW fs, NEW kbd, NEW lightbar,
         NEW manual \in BOOLEAN
  PROVE  Releases(s, Release(s, fs, kbd, lightbar, manual), manual)
<1> DEFINE v == <<0, Seen(s, "rgb")>>
           s0 == Again(s)
           dark == IF kbd /\ "KEYBOARD_BACKLIGHT" \in fs
                   THEN kbd_led_brightness_set(s0, v) ELSE s
           d0 == Again(dark)
           unlit == IF lightbar /\ "LIGHTBAR" \in fs
                    THEN led_brightness_set(d0, 0) ELSE dark
           u0 == Again(unlit)
           t == uniwill_disable_manual_control(u0)
<1>1. Release(s, fs, kbd, lightbar, manual) = IF manual THEN t ELSE unlit
  BY DEF Release, Again
<1>2. v[2] \in Int
  BY DEF RgbTyped, Seen, OnWire, Ones, Field, RegisterOf
<1> HIDE DEF v
<1>3. Survives(s, s0, {}) /\ Alters(s, s0, {"ok"}) /\ s0.ok = TRUE
  BY AgainLemma
<1> HIDE DEF s0
<1>4. /\ Sys(s0) /\ s0.ec = s.ec /\ s0.cache = s.cache /\ s0.fuse = s.fuse
      /\ Alive(s0) = Alive(s) /\ s0.cache_only = s.cache_only /\ RgbTyped(s0)
  BY <1>3 DEF Survives, Alters, Part, Alive
<1>5. Colours(s0, kbd_led_brightness_set(s0, v))
  BY <1>2, <1>4, KbdColours
<1>6. /\ Survives(s, dark, ColourFields)
      /\ machine.single = FALSE /\ Works(s) /\ Coherent(s) /\ Glows(s) => Glows(dark)
  <2> DEFINE d == kbd_led_brightness_set(s0, v)
  <2> HIDE DEF d
  <2>1. Colours(s0, d)
    BY <1>5 DEF d
  <2>2. Survives(s, d, ColourFields)
    BY <1>3, <1>4, <2>1, ColoursSurvives, SurvivesThen
  <2>3. Works(s) => d.ok = TRUE
    BY <1>3, <1>4, <2>1 DEF Works, Colours, Touches, Progress, Sys
  <2>4. Coherent(s) => Coherent(s0)
    BY <1>4 DEF Coherent
  <2>5. machine.single = FALSE /\ Works(s) /\ Coherent(s) => Glows(d)
    BY <1>4, <2>1, <2>3, <2>4 DEF Works, Colours, Glows, InRange
  <2>6. Survives(s, s, ColourFields)
    BY DEF Survives
  <2>7. QED
    BY <2>2, <2>5, <2>6 DEF d
<1> HIDE DEF dark
<1>7. Survives(dark, d0, {}) /\ Alters(dark, d0, {"ok"}) /\ d0.ok = TRUE
  BY <1>6, AgainLemma DEF Survives
<1> HIDE DEF d0
<1>8. Sys(dark) /\ Sys(d0) /\ d0.ec = dark.ec /\ d0.cache = dark.cache
  BY <1>6, <1>7 DEF Survives, Alters, Part
<1>9. Survives(dark, unlit, LightFields) /\ (Glows(dark) => Glows(unlit))
  <2> DEFINE l == led_brightness_set(d0, 0)
  <2>1. Lights(d0, l, {"ac_rgb", "bat_rgb", "ac_off", "bat_off"})
    BY <1>8, LightbarLights
  <2> HIDE DEF l
  <2>2. Touches(d0, l, LightFields, {}) /\ "rgb" \notin LightFields
    BY <2>1 DEF Lights, LightFields
  <2>3. Survives(d0, l, LightFields)
    BY <2>2, TouchesSurvives
  <2>4. Survives(dark, l, LightFields)
    BY <1>7, <2>3, SurvivesThen
  <2>5. Glows(dark) => Glows(d0)
    BY <1>8 DEF Glows, InRange
  <2>6. Glows(dark) => Glows(l)
    BY <2>2, <2>5, GlowsOn
  <2>7. Survives(dark, dark, LightFields)
    BY <1>8 DEF Survives
  <2>8. QED
    BY <2>4, <2>6, <2>7 DEF l
<1> HIDE DEF unlit
<1>10. Survives(s, unlit, ColourFields \cup LightFields)
  BY <1>6, <1>9, SurvivesThen
<1>11. Survives(unlit, u0, {}) /\ Alters(unlit, u0, {"ok"}) /\ u0.ok = TRUE
  BY <1>9, AgainLemma DEF Survives
<1> HIDE DEF u0
<1>12. Sys(u0) /\ u0.ec = unlit.ec /\ u0.cache = unlit.cache
  BY <1>11 DEF Survives, Alters, Part
<1>13. Survives(s, u0, ColourFields \cup LightFields)
  BY <1>10, <1>11, SurvivesThen
<1>14. /\ Touches(u0, t, {"manual"}, {})
       /\ /\ u0.fuse = 0 /\ Alive(u0) /\ u0.cache_only = FALSE
          /\ "manual" \in DOMAIN u0.cache /\ u0.cache["manual"] = 1
          => t.ec["manual"] = 0
  BY <1>11, <1>12, HandBack
<1> HIDE DEF t
<1>15. "manual" \notin ColourFields \cup LightFields
       /\ "manual" \in EcField \ Effect
  BY PlainFields DEF ColourFields, LightFields, KbdFields
<1>16. CASE manual = FALSE
  <2>1. Survives(s, unlit, ReleaseFields)
    BY <1>10, SurvivesMore DEF ReleaseFields
  <2>2. unlit.ec["manual"] = s.ec["manual"]
    BY <1>10, <1>15 DEF Survives
  <2>3. QED
    BY <1>1, <1>6, <1>9, <1>16, <2>1, <2>2 DEF Releases
<1>17. CASE manual = TRUE
  <2>1. Survives(u0, t, {"manual"})
    BY <1>14, TouchesSurvives
  <2>2. Survives(s, t, ReleaseFields)
    BY <1>13, <2>1, SurvivesThen DEF ReleaseFields
  <2>3. Works(s) /\ "manual" \in DOMAIN s.cache /\ s.cache["manual"] = 1
          => t.ec["manual"] = 0
    BY <1>13, <1>14, <1>15 DEF Survives, Works, Alive
  <2>4. Glows(unlit) => Glows(u0)
    BY <1>12 DEF Glows, InRange
  <2>5. Glows(unlit) => Glows(t)
    BY <1>14, <2>4, GlowsOn
  <2>6. QED
    BY <1>1, <1>6, <1>9, <1>17, <2>2, <2>3, <2>5 DEF Releases
<1>18. QED
  BY <1>16, <1>17
-----------------------------------------------------------------------------
(* The calls of the probe                                                  *)

LEMMA FreshLemma ==
  ASSUME NEW s, Sys(s)
  PROVE  LET t == Fresh(s)
         IN /\ Sys(t) /\ t.ec = s.ec /\ t.window = s.window /\ t.ok = s.ok
            /\ t.fuse = s.fuse /\ t.cache_only = FALSE /\ DOMAIN t.cache = {}
<1> DEFINE c == [f \in {} |-> 0]
           l == [fn_lock |-> 0, super_key |-> 0, touchpad |-> 0, charge |-> 0,
                 kbd |-> <<0, 0>>, powershare |-> 0, usb_c |-> "charging"]
           t == [s EXCEPT !.cache = c, !.cache_only = FALSE, !.dirty = FALSE,
                          !.use_wmi = FALSE, !.last = l]
<1>1. Fresh(s) = t
  BY DEF Fresh
<1>2. Cache(c) /\ DOMAIN c = {}
  BY DEF Cache
<1>3. l = [x \in LastPart |-> l[x]]
  BY DEF LastPart
<1> HIDE DEF c, l
<1>4. Shaped(t) /\ t.cache = c /\ t.cache_only = FALSE /\ t.dirty = FALSE
      /\ t.use_wmi = FALSE /\ t.last = l /\ t.ec = s.ec /\ t.window = s.window
      /\ t.ok = s.ok /\ t.fuse = s.fuse
  BY DEF Sys, Shaped, Part
<1> HIDE DEF t
<1>5. Sys(t)
  BY <1>2, <1>3, <1>4 DEF Sys
<1>6. QED
  BY <1>1, <1>2, <1>4, <1>5

\* The lightbar is claimed and even, as far as the cache knows.
Claimed(t) ==
  /\ LightFields \subseteq DOMAIN t.cache
  /\ t.cache["ac_app"] = 1 /\ t.cache["bat_app"] = 1
  /\ t.cache["ac_rgb"] = t.cache["bat_rgb"]
  /\ t.cache["ac_off"] = t.cache["bat_off"]
  /\ t.cache["ac_rainbow"] = t.cache["bat_rainbow"]

ChargeSet(t) ==
  /\ t.last["charge"] \in DOMAIN ChargingProfile
  /\ ChargingProfile[t.last["charge"]] = t.ec["profile"]

UsbCSet(t) ==
  /\ t.last["usb_c"] \in DOMAIN usb_c_power_priority_value
  /\ usb_c_power_priority_value[t.last["usb_c"]] = t.ec["usb_c"]

LEMMA HonestOn ==
  ASSUME NEW s, NEW t, NEW F, NEW L, Honest(s), Touches(s, t, F, L), "rgb" \notin F
  PROVE  Honest(t)
<1>1. t.ec["rgb"] = s.ec["rgb"]
  BY PlainFields DEF Touches
<1>2. s.ec["rgb"] \in 1..50 => s.ec["rgb"] # 0
  OBVIOUS
<1>3. QED
  BY <1>1, <1>2 DEF Honest, Touches

\* What the kernel is asked to register is one access more that may fail.
LEMMA RegisteredLemma ==
  ASSUME NEW s, Sys(s), NEW c
  PROVE  LET t == Registered(s, c)
         IN /\ Touches(s, t, {}, {}) /\ Alters(s, t, {"ok", "fuse"})
            /\ t.ok = TRUE => s.ok = TRUE
<1> DEFINE got == uniwill_ec_reg_read(s)
           t == Registered(s, c)
<1>1. t = s \/ (s.ok = TRUE /\ t = got)
  BY DEF Registered, Sys
<1>2. Alters(s, got, {"ok", "fuse"}) /\ Attempt(s, got)
  BY RegReadLemma
<1>3. Touches(s, s, {}, {}) /\ Alters(s, s, {"ok", "fuse"})
  BY TouchesItself DEF Touches, Alters
<1> HIDE DEF got
<1>4. ASSUME s.ok = TRUE
      PROVE  Touches(s, got, {}, {})
  <2>1. /\ got.ec = s.ec /\ got.cache = s.cache /\ got.last = s.last
        /\ got.dirty = s.dirty /\ got.cache_only = s.cache_only
    BY <1>2 DEF Alters, Part
  <2>2. Sys(got)
    BY <1>2 DEF Sys, Alters, Part, Attempt
  <2>3. Progress(s, got)
    BY <1>2, <1>4 DEF Attempt, Progress
  <2>4. Alters(s, got, {"ok", "fuse", "cache", "ec", "dirty", "last"})
    BY <1>2 DEF Alters
  <2>5. Coherent(s) => Coherent(got)
    BY <2>1 DEF Coherent
  <2>6. QED
    BY <2>1, <2>2, <2>3, <2>4, <2>5 DEF Touches
<1>5. QED
  BY <1>1, <1>2, <1>3, <1>4 DEF t

\* The first call: the EC is found and taken over.  tried is what it has done
\* before it asks the kernel to hand the EC back in the end, t comes after.
Opens(s, tried, t) ==
  /\ Sys(t) /\ RgbTyped(t) /\ t.window = s.window /\ t.cache_only = FALSE
  /\ \A f \in EcField \ Effect : f # "manual" => t.ec[f] = s.ec[f]
  /\ tried.ok = FALSE => t.ec["manual"] = s.ec["manual"]
  /\ tried.ok = TRUE => /\ Alive(t)
                        /\ "manual" \in DOMAIN t.cache /\ t.cache["manual"] = 1
  /\ tried.ok \in BOOLEAN
  /\ t.ok = TRUE => /\ tried.ok = TRUE /\ Coherent(t) /\ (Honest(s) => Honest(t))

LEMMA OpenLemma ==
  ASSUME NEW s, Sys(s), RgbTyped(s), DOMAIN s.cache = {}, s.cache_only = FALSE,
         machine.fallback \in BOOLEAN, machine.fallback = FALSE => s.window = TRUE
  PROVE  Opens(s, ProbeCall(s, "ec"), Registered(ProbeCall(s, "ec"), "ec"))
<1> DEFINE tr == uniwill_ec_check_transport(s, machine.fallback)
           tried == uniwill_ec_init(tr)
           t == Registered(tried, "ec")
<1>1. ProbeCall(s, "ec") = tried
  BY DEF ProbeCall
<1>2. /\ Sys(tr) /\ Alters(s, tr, {"ok", "fuse", "use_wmi"})
      /\ tr.ok = TRUE => Alive(tr)
  BY TransportLemma
<1> HIDE DEF tr
<1>3. /\ tr.ec = s.ec /\ tr.window = s.window /\ tr.cache_only = FALSE
      /\ DOMAIN tr.cache = {}
  BY <1>2 DEF Alters, Part
<1>4. RgbTyped(tr) /\ Coherent(tr)
  BY <1>3 DEF RgbTyped, Coherent
<1>5. TakenOver(tr, tried)
  BY <1>2, <1>4, EcInit
<1> HIDE DEF tried
<1>6. Sys(tried) /\ tried.ok \in BOOLEAN
  BY <1>5 DEF TakenOver, Survives, Sys
<1>7. /\ Touches(tried, t, {}, {}) /\ Alters(tried, t, {"ok", "fuse"})
      /\ t.ok = TRUE => tried.ok = TRUE
  BY <1>6, RegisteredLemma
<1> HIDE DEF t
<1>8. /\ Sys(t) /\ t.ec = tried.ec /\ t.cache = tried.cache /\ t.window = tried.window
      /\ t.use_wmi = tried.use_wmi /\ t.cache_only = tried.cache_only
  BY <1>7 DEF Touches, Alters, Part
<1>9. /\ RgbTyped(tried) /\ tried.window = s.window /\ tried.cache_only = FALSE
      /\ \A f \in EcField \ Effect : f # "manual" => tried.ec[f] = s.ec[f]
  BY <1>3, <1>4, <1>5 DEF TakenOver, Survives
<1>10. tried.ok = FALSE => tried.ec["manual"] = s.ec["manual"]
  BY <1>3, <1>5 DEF TakenOver
<1>11. Honest(s) => Honest(tr)
  BY <1>3 DEF Honest
<1>12. ASSUME tried.ok = TRUE
       PROVE  Alive(tried) /\ Coherent(tried) /\ (Honest(s) => Honest(tried))
  <2>1. Touches(tr, tried, {"project", "manual"}, {})
    BY <1>5 DEF TakenOver
  <2>2. tr.ok = TRUE
    BY <1>2, <1>12, <2>1, OkBefore
  <2>3. Alive(tried)
    BY <1>2, <1>5, <2>2 DEF TakenOver, Survives, Alive
  <2>4. Coherent(tried)
    BY <1>2, <1>3, <1>4, <1>12, <2>1, <2>2 DEF Touches
  <2>5. Honest(s) => Honest(tried)
    BY <1>11, <2>1, HonestOn
  <2>6. QED
    BY <2>3, <2>4, <2>5
<1>13. /\ RgbTyped(t) = RgbTyped(tried) /\ Alive(t) = Alive(tried)
       /\ Coherent(t) = Coherent(tried) /\ Honest(t) = Honest(tried)
  BY <1>8 DEF RgbTyped, Alive, Coherent, Honest
<1>14. tried.ok = TRUE => "manual" \in DOMAIN t.cache /\ t.cache["manual"] = 1
  BY <1>5, <1>8 DEF TakenOver
<1>15. Opens(s, tried, t)
  BY <1>6, <1>7, <1>8, <1>9, <1>10, <1>12, <1>13, <1>14 DEF Opens
<1>16. QED
  BY <1>1, <1>15 DEF t

\* What each of the other calls changes.
ProbeFields(c) ==
  CASE c = "device" -> {"has_gpu"}
    [] c = "battery" -> {"charge_ctrl"}
    [] c = "led" -> LightFields
    [] c = "kbd_led" -> ColourFields \cup {"china_on"}
    [] c = "ctgp" -> BoostFields
    [] OTHER -> {}

ProbeLast(c) ==
  CASE c = "battery" -> {"charge"}
    [] c = "usb_c" -> {"usb_c"}
    [] OTHER -> {}

\* What each has brought about when it works: t was s before.
SetUp(s, t, c) ==
  /\ c = "device" /\ "has_gpu" \in DOMAIN t.cache
       => \/ "has_gpu" \in DOMAIN s.cache /\ t.cache["has_gpu"] = s.cache["has_gpu"]
          \/ t.cache["has_gpu"] = OnWire(s, "has_gpu")
  /\ /\ c = "battery" /\ "BATTERY_CHARGE_MODES" \in features
     /\ "BATTERY_CHARGE_LIMIT" \notin features
     /\ Alive(s) /\ s.ec["profile"] \in 0..3
     => ChargeSet(t)
  /\ c = "led" /\ "LIGHTBAR" \in features => Claimed(t)
  /\ c = "kbd_led" /\ "KEYBOARD_BACKLIGHT" \in features /\ machine.single = FALSE
       => /\ InRange(t)
          /\ Alive(s) /\ s.cache_only = FALSE /\ Coherent(s) /\ Honest(s) => Glows(t)
  /\ c = "ctgp" /\ "NVIDIA_CTGP_CONTROL" \in features => Boosted(t)
  /\ /\ c = "usb_c" /\ "USB_C_POWER_PRIORITY" \in features
     /\ Alive(s) /\ s.ec["usb_c"] \in {0, 1}
     => UsbCSet(t)

Probed(s, t, c) ==
  /\ Survives(s, t, ProbeFields(c) \ {"has_gpu"})
  /\ t.ok = TRUE => Touches(s, t, ProbeFields(c), ProbeLast(c)) /\ SetUp(s, t, c)

LEMMA ProbeCallLemma ==
  ASSUME NEW s, Sys(s), RgbTyped(s), NEW c \in DOMAIN ProbeCalls, c # "ec"
  PROVE  Probed(s, ProbeCall(s, c), c)
<1> DEFINE t == ProbeCall(s, c)
<1>1. c \in {"device", "battery", "led", "kbd_led", "hwmon", "platform_profile",
             "ctgp", "usb_c", "input"}
  BY DEF ProbeCalls
<1>2. "rgb" \notin LightFields /\ "rgb" \notin BoostFields
      /\ "has_gpu" \notin LightFields \cup ColourFields \cup BoostFields
  BY DEF LightFields, BoostFields, ColourFields, KbdFields
<1>3. \A F, L : Touches(s, s, F, L) /\ Survives(s, s, F)
  BY TouchesItself DEF Survives
<1>4. CASE c = "device"
  <2>1. t = phxarx1_phxaqf1_probe(s) /\ ProbeFields(c) = {"has_gpu"} /\ ProbeLast(c) = {}
    BY <1>4 DEF ProbeCall, ProbeFields, ProbeLast
  <2>2. /\ Touches(s, t, {"has_gpu"}, {}) /\ Survives(s, t, {})
        /\ "has_gpu" \in DOMAIN t.cache
             => \/ "has_gpu" \in DOMAIN s.cache /\ t.cache["has_gpu"] = s.cache["has_gpu"]
                \/ t.cache["has_gpu"] = OnWire(s, "has_gpu")
    BY <2>1, GpuProbe
  <2> HIDE DEF t
  <2>3. {"has_gpu"} \ {"has_gpu"} = {}
    OBVIOUS
  <2>4. SetUp(s, t, c)
    BY <1>4, <2>2 DEF SetUp
  <2>5. Probed(s, t, c)
    BY <2>1, <2>2, <2>3, <2>4 DEF Probed
  <2>6. QED
    BY <2>5 DEF t
<1>5. CASE c = "battery"
  <2>1. /\ t = uniwill_battery_init(s, features) /\ ProbeFields(c) = {"charge_ctrl"}
        /\ ProbeLast(c) = {"charge"}
    BY <1>5 DEF ProbeCall, ProbeFields, ProbeLast
  <2>2. BatteryReady(s, t, features)
    BY <2>1, BatteryInit
  <2> HIDE DEF t
  <2>3. {"charge_ctrl"} \ {"has_gpu"} = {"charge_ctrl"}
    OBVIOUS
  <2>4. t.ok = TRUE => SetUp(s, t, c)
    BY <1>5, <2>2 DEF SetUp, BatteryReady, ChargeSet
  <2>5. Probed(s, t, c)
    BY <2>1, <2>2, <2>3, <2>4 DEF Probed, BatteryReady
  <2>6. QED
    BY <2>5 DEF t
<1>6. CASE c = "led"
  <2>1. t = uniwill_led_init(s, features) /\ ProbeFields(c) = LightFields /\ ProbeLast(c) = {}
    BY <1>6 DEF ProbeCall, ProbeFields, ProbeLast
  <2>2. /\ Touches(s, t, LightFields, {})
        /\ "LIGHTBAR" \in features /\ t.ok = TRUE => Claimed(t)
    <3>1. CASE "LIGHTBAR" \in features
      <4>1. Claims(s, t)
        BY <2>1, <3>1, LedInit
      <4> HIDE DEF t
      <4>2. QED
        BY <4>1 DEF Claims, Claimed
    <3>2. CASE "LIGHTBAR" \notin features
      BY <1>3, <2>1, <3>2 DEF uniwill_led_init
    <3>3. QED
      BY <3>1, <3>2
  <2> HIDE DEF t
  <2>3. Survives(s, t, LightFields) /\ LightFields \ {"has_gpu"} = LightFields
    BY <1>2, <2>2, TouchesSurvives
  <2>4. t.ok = TRUE => SetUp(s, t, c)
    BY <1>6, <2>2 DEF SetUp
  <2>5. Probed(s, t, c)
    BY <2>1, <2>2, <2>3, <2>4 DEF Probed
  <2>6. QED
    BY <2>5 DEF t
<1>7. CASE c = "kbd_led"
  <2> DEFINE F == ColourFields \cup {"china_on"}
  <2>1. t = uniwill_kbd_led_init(s, features) /\ ProbeFields(c) = F /\ ProbeLast(c) = {}
    BY <1>7 DEF ProbeCall, ProbeFields, ProbeLast
  <2>2. F \ {"has_gpu"} = F
    BY <1>2
  <2>3. /\ Touches(s, t, F, {}) /\ Survives(s, t, F)
        /\ "KEYBOARD_BACKLIGHT" \in features /\ machine.single = FALSE => Tints(s, t, F)
    <3>1. CASE "KEYBOARD_BACKLIGHT" \in features
      BY <2>1, <3>1, KbdInit
    <3>2. CASE "KEYBOARD_BACKLIGHT" \notin features
      BY <1>3, <2>1, <3>2 DEF uniwill_kbd_led_init
    <3>3. QED
      BY <3>1, <3>2
  <2> HIDE DEF t, F
  <2>4. t.ok = TRUE => SetUp(s, t, c)
    BY <1>7, <2>3 DEF SetUp, Tints
  <2>5. Probed(s, t, c)
    BY <2>1, <2>2, <2>3, <2>4 DEF Probed
  <2>6. QED
    BY <2>5 DEF t
<1>8. CASE c = "ctgp"
  <2>1. /\ t = uniwill_nvidia_ctgp_init(s, features) /\ ProbeFields(c) = BoostFields
        /\ ProbeLast(c) = {}
    BY <1>8 DEF ProbeCall, ProbeFields, ProbeLast
  <2>2. /\ Touches(s, t, BoostFields, {})
        /\ t.ok = TRUE /\ "NVIDIA_CTGP_CONTROL" \in features => Boosted(t)
    BY <2>1, CtgpInit
  <2> HIDE DEF t
  <2>3. Survives(s, t, BoostFields) /\ BoostFields \ {"has_gpu"} = BoostFields
    BY <1>2, <2>2, TouchesSurvives
  <2>4. t.ok = TRUE => SetUp(s, t, c)
    BY <1>8, <2>2 DEF SetUp
  <2>5. Probed(s, t, c)
    BY <2>1, <2>2, <2>3, <2>4 DEF Probed
  <2>6. QED
    BY <2>5 DEF t
<1>9. CASE c = "usb_c"
  <2>1. /\ t = usb_c_power_priority_init(s, features) /\ ProbeFields(c) = {}
        /\ ProbeLast(c) = {"usb_c"}
    BY <1>9 DEF ProbeCall, ProbeFields, ProbeLast
  <2>2. /\ Touches(s, t, {}, {"usb_c"})
        /\ t.ok = TRUE /\ Alive(s) /\ "USB_C_POWER_PRIORITY" \in features
           /\ s.ec["usb_c"] \in {0, 1} => UsbCSet(t)
    BY <2>1, UsbCInit DEF UsbCSet
  <2> HIDE DEF t
  <2>3. Survives(s, t, {}) /\ {} \ {"has_gpu"} = {}
    BY <2>2, TouchesSurvives
  <2>4. t.ok = TRUE => SetUp(s, t, c)
    BY <1>9, <2>2 DEF SetUp
  <2>5. Probed(s, t, c)
    BY <2>1, <2>2, <2>3, <2>4 DEF Probed
  <2>6. QED
    BY <2>5 DEF t
<1>10. CASE c \in {"hwmon", "platform_profile", "input"}
  <2>1. t = s
    BY <1>10 DEF ProbeCall
  <2>2. SetUp(s, s, c)
    BY <1>10 DEF SetUp
  <2>3. QED
    BY <1>3, <2>1, <2>2 DEF Probed
<1>11. QED
  BY <1>1, <1>4, <1>5, <1>6, <1>7, <1>8, <1>9, <1>10

LEMMA ProbedLemma ==
  ASSUME NEW s, Sys(s), RgbTyped(s), NEW c \in DOMAIN ProbeCalls, c # "ec"
  PROVE  Probed(s, Registered(ProbeCall(s, c), c), c)
<1> DEFINE m == ProbeCall(s, c)
           t == Registered(m, c)
<1>1. Probed(s, m, c)
  BY ProbeCallLemma
<1> HIDE DEF m
<1>2. Sys(m)
  BY <1>1 DEF Probed, Survives
<1>3. /\ Touches(m, t, {}, {}) /\ Alters(m, t, {"ok", "fuse"})
      /\ t.ok = TRUE => m.ok = TRUE
  BY <1>2, RegisteredLemma
<1> HIDE DEF t
<1>4. Survives(s, t, ProbeFields(c) \ {"has_gpu"})
  <2>1. Survives(m, t, {})
    BY <1>3, TouchesSurvives
  <2>2. QED
    BY <1>1, <2>1, SurvivesThen DEF Probed
<1>5. ASSUME t.ok = TRUE
      PROVE  Touches(s, t, ProbeFields(c), ProbeLast(c)) /\ SetUp(s, t, c)
  <2>1. m.ok = TRUE
    BY <1>3, <1>5
  <2>2. Touches(s, m, ProbeFields(c), ProbeLast(c)) /\ SetUp(s, m, c)
    BY <1>1, <2>1 DEF Probed
  <2>3. Touches(s, t, ProbeFields(c), ProbeLast(c))
    BY <1>3, <2>2, TouchesThen
  <2>4. t.ec = m.ec /\ t.cache = m.cache /\ t.last = m.last
    BY <1>3 DEF Alters, Part
  <2>5. /\ ChargeSet(t) = ChargeSet(m) /\ UsbCSet(t) = UsbCSet(m) /\ Claimed(t) = Claimed(m)
        /\ InRange(t) = InRange(m) /\ Glows(t) = Glows(m) /\ Boosted(t) = Boosted(m)
    BY <2>4 DEF ChargeSet, UsbCSet, Claimed, InRange, Glows, Boosted
  <2>6. SetUp(s, t, c)
    BY <2>2, <2>4, <2>5 DEF SetUp
  <2>7. QED
    BY <2>3, <2>6
<1>6. QED
  BY <1>4, <1>5 DEF Probed, t, m

-----------------------------------------------------------------------------
(* The functions of suspend and resume                                     *)

OtherLast == {"fn_lock", "super_key", "touchpad", "kbd", "powershare"}

\* All but the last change at most what the EC keeps by itself.
Suspended(s, t, c) ==
  /\ Touches(s, t, KbdFields \cup {"ctgp_general", "ctgp_on"},
             IF c = "battery" THEN {"charge"} ELSE OtherLast)
  /\ c # "ctgp" => Touches(s, t, KbdFields,
                           IF c = "battery" THEN {"charge"} ELSE OtherLast)
  /\ c = "ctgp" => Boosts(s, t, 0)

LEMMA SuspendLemma ==
  ASSUME NEW s, Sys(s), NEW c \in DOMAIN SuspendCalls
  PROVE  Suspended(s, SuspendCall(s, c), c)
<1> DEFINE t == SuspendCall(s, c)
           L == IF c = "battery" THEN {"charge"} ELSE OtherLast
<1>1. c \in {"fn_lock", "super_key", "touchpad", "battery", "kbd_led",
             "powershare", "ctgp"}
  BY DEF SuspendCalls
<1>2. {"BIOS_OEM", "SWITCH_STATUS", "OEM_4", "CHARGE_CTRL", "TRIGGER"}
        \subseteq Volatile \cap Register
  BY RegisterLemma DEF Volatile
<1>3. OtherLast \cup {"charge"} \subseteq LastPart
  BY DEF OtherLast, LastPart
<1>4. SUFFICES ASSUME c # "ctgp"
               PROVE  Touches(s, t, KbdFields, L)
  <2>1. CASE c = "ctgp"
    <3>1. t = UpdateBits(s, "CTGP_CTRL", [ctgp_on |-> 0])
      BY <2>1 DEF SuspendCall, suspend_nvidia_ctgp
    <3>2. Boosts(s, t, 0)
      BY <3>1, BoostBit
    <3> HIDE DEF t
    <3>3. Touches(s, t, KbdFields \cup {"ctgp_general", "ctgp_on"}, L)
      BY <3>2, TouchesMore DEF Boosts
    <3>4. QED
      BY <2>1, <3>2, <3>3 DEF Suspended, t
  <2>2. CASE c # "ctgp"
    <3>1. Touches(s, t, KbdFields, L)
      BY <1>4, <2>2
    <3> HIDE DEF t
    <3>2. Touches(s, t, KbdFields \cup {"ctgp_general", "ctgp_on"}, L)
      BY <3>1, TouchesMore
    <3>3. QED
      BY <2>2, <3>1, <3>2 DEF Suspended, t
  <2>3. QED
    BY <2>1, <2>2
<1>5. CASE c = "fn_lock"
  <2>1. t = suspend_fn_lock(s)
    BY <1>5 DEF SuspendCall
  <2>2. Touches(s, suspend_fn_lock(s), {}, {"fn_lock"})
    BY <1>2, <1>3, SavedTouches DEF suspend_fn_lock, OtherLast
  <2>3. QED
    BY <1>5, <2>1, <2>2, TouchesMore DEF OtherLast
<1>6. CASE c = "super_key"
  <2>1. t = suspend_super_key(s)
    BY <1>6 DEF SuspendCall
  <2>2. Touches(s, suspend_super_key(s), {}, {"super_key"})
    BY <1>2, <1>3, SavedTouches DEF suspend_super_key, OtherLast
  <2>3. QED
    BY <1>6, <2>1, <2>2, TouchesMore DEF OtherLast
<1>7. CASE c = "touchpad"
  <2>1. t = suspend_touchpad_toggle(s)
    BY <1>7 DEF SuspendCall
  <2>2. Touches(s, suspend_touchpad_toggle(s), {}, {"touchpad"})
    BY <1>2, <1>3, SavedTouches DEF suspend_touchpad_toggle, OtherLast
  <2>3. QED
    BY <1>7, <2>1, <2>2, TouchesMore DEF OtherLast
<1>8. CASE c = "battery"
  <2>1. t = suspend_battery(s)
    BY <1>8 DEF SuspendCall
  <2>2. Touches(s, suspend_battery(s), {}, {"charge"})
    BY <1>2, <1>3, SavedTouches DEF suspend_battery
  <2>3. QED
    BY <1>8, <2>1, <2>2, TouchesMore
<1>9. CASE c = "kbd_led"
  <2>1. t = suspend_kbd_led(s)
    BY <1>9 DEF SuspendCall
  <2>2. QED
    BY <1>9, <2>1, SuspendKbdTouches, TouchesMore DEF OtherLast
<1>10. CASE c = "powershare"
  <2>1. t = suspend_usb_powershare(s)
    BY <1>10 DEF SuspendCall
  <2>2. Touches(s, suspend_usb_powershare(s), {}, {"powershare"})
    BY <1>2, <1>3, SavedTouches DEF suspend_usb_powershare, OtherLast
  <2>3. QED
    BY <1>10, <2>1, <2>2, TouchesMore DEF OtherLast
<1>11. QED
  BY <1>1, <1>4, <1>5, <1>6, <1>7, <1>8, <1>9, <1>10

RestoredFields ==
  {"fn_lock", "super_flip", "touchpad_off", "profile", "charge_ctrl",
   "usb_charging", "usb_c", "apply_rgb"} \cup KbdFields

\* What is written back is what the driver remembers.
Resumed(s, t, c) ==
  /\ Touches(s, t, RestoredFields \cup {"ctgp_general", "ctgp_on"}, {})
  /\ c # "ctgp" => Touches(s, t, RestoredFields, {})
  /\ c = "ctgp" => Boosts(s, t, 1)
  /\ \/ t.ec["profile"] = s.ec["profile"]
     \/ Modes /\ t.ec["profile"] = ChargingProfile[s.last["charge"]]
  /\ \/ t.ec["usb_c"] = s.ec["usb_c"]
     \/ c = "usb_c" /\ t.ec["usb_c"] = usb_c_power_priority_value[s.last["usb_c"]]
  /\ t.ok = TRUE /\ Alive(s) /\ s.cache_only = FALSE
       => /\ c = "battery" /\ Modes
               => t.ec["profile"] = ChargingProfile[s.last["charge"]]
          /\ c = "usb_c" => t.ec["usb_c"] = usb_c_power_priority_value[s.last["usb_c"]]
          /\ c = "kbd_led" /\ machine.single = FALSE => t.ec["shown"] = Applied(s.ec)

\* The calls that restore something of no further interest.
LEMMA ResumePlain ==
  ASSUME NEW s, NEW t, NEW c, NEW F, c \notin {"ctgp", "battery", "usb_c"},
         F \subseteq RestoredFields \ {"profile", "usb_c"}, Touches(s, t, F, {}),
         c = "kbd_led" /\ machine.single = FALSE /\ t.ok = TRUE /\ Alive(s)
           /\ s.cache_only = FALSE => t.ec["shown"] = Applied(s.ec)
  PROVE  Resumed(s, t, c)
<1>1. Touches(s, t, RestoredFields, {})
      /\ Touches(s, t, RestoredFields \cup {"ctgp_general", "ctgp_on"}, {})
  BY TouchesMore
<1>2. t.ec["profile"] = s.ec["profile"] /\ t.ec["usb_c"] = s.ec["usb_c"]
  BY PlainFields DEF Touches
<1>3. QED
  BY <1>1, <1>2 DEF Resumed

LEMMA ResumeLemma ==
  ASSUME NEW s, Sys(s), NEW c \in DOMAIN ResumeCalls \ {"transport", "sync"}
  PROVE  Resumed(s, ResumeCall(s, c), c)
<1> DEFINE t == ResumeCall(s, c)
           p == ChargingProfile[s.last["charge"]]
           u == usb_c_power_priority_value[s.last["usb_c"]]
<1>1. c \in {"fn_lock", "super_key", "touchpad", "battery", "kbd_led",
             "powershare", "ctgp", "usb_c"}
  BY DEF ResumeCalls
<1>2. /\ {"fn_lock", "super_flip", "touchpad_off", "charge_ctrl", "usb_charging",
          "apply_rgb"} \cup KbdFields \subseteq RestoredFields \ {"profile", "usb_c"}
      /\ {"profile", "usb_c", "charge_ctrl"} \subseteq RestoredFields
  BY DEF RestoredFields, KbdFields
<1>3. CASE c = "fn_lock"
  <2>1. t = write_fn_lock(s, s.last.fn_lock)
    BY <1>3 DEF ResumeCall, resume_fn_lock
  <2>2. Touches(s, t, {"fn_lock"}, {})
    BY <2>1, FnLockTouches
  <2> HIDE DEF t
  <2>3. Resumed(s, t, c)
    BY <1>2, <1>3, <2>2, ResumePlain
  <2>4. QED
    BY <2>3 DEF t
<1>4. CASE c = "super_key"
  <2>1. t = write_super_key_enable(s, s.last.super_key)
    BY <1>4 DEF ResumeCall, resume_super_key
  <2>2. Touches(s, t, {"super_flip"}, {})
    BY <2>1, SuperKeyTouches
  <2> HIDE DEF t
  <2>3. Resumed(s, t, c)
    BY <1>2, <1>4, <2>2, ResumePlain
  <2>4. QED
    BY <2>3 DEF t
<1>5. CASE c = "touchpad"
  <2>1. t = write_touchpad_toggle_enable(s, s.last.touchpad)
    BY <1>5 DEF ResumeCall, resume_touchpad_toggle
  <2>2. Touches(s, t, {"touchpad_off"}, {})
    BY <2>1, TouchpadTouches
  <2> HIDE DEF t
  <2>3. Resumed(s, t, c)
    BY <1>2, <1>5, <2>2, ResumePlain
  <2>4. QED
    BY <2>3 DEF t
<1>6. CASE c = "kbd_led"
  <2>1. t = resume_kbd_led(s)
    BY <1>6 DEF ResumeCall
  <2>2. /\ Touches(s, t, KbdFields \cup {"apply_rgb"}, {})
        /\ machine.single = FALSE /\ t.ok = TRUE /\ Alive(s) /\ s.cache_only = FALSE
             => t.ec["shown"] = Applied(s.ec)
    BY <2>1, ResumeKbdTouches
  <2> HIDE DEF t
  <2>3. Resumed(s, t, c)
    BY <1>2, <1>6, <2>2, ResumePlain
  <2>4. QED
    BY <2>3 DEF t
<1>7. CASE c = "powershare"
  <2>1. t = write_usb_powershare_high(s, s.last.powershare)
    BY <1>7 DEF ResumeCall, resume_usb_powershare
  <2>2. Touches(s, t, {"usb_charging"}, {})
    BY <2>1, PowershareTouches
  <2> HIDE DEF t
  <2>3. Resumed(s, t, c)
    BY <1>2, <1>7, <2>2, ResumePlain
  <2>4. QED
    BY <2>3 DEF t
<1>8. CASE c = "ctgp"
  <2>1. t = UpdateBits(s, "CTGP_CTRL", [ctgp_on |-> 1])
    BY <1>8 DEF ResumeCall, resume_nvidia_ctgp
  <2>2. Boosts(s, t, 1)
    BY <2>1, BoostBit
  <2> HIDE DEF t
  <2>3. Touches(s, t, {"ctgp_general", "ctgp_on"}, {})
    BY <2>2 DEF Boosts
  <2>4. Touches(s, t, RestoredFields \cup {"ctgp_general", "ctgp_on"}, {})
    BY <2>3, TouchesMore
  <2>5. t.ec["profile"] = s.ec["profile"] /\ t.ec["usb_c"] = s.ec["usb_c"]
    BY <2>3, PlainFields DEF Touches
  <2>6. QED
    BY <1>8, <2>2, <2>4, <2>5 DEF Resumed, t
<1>9. CASE c = "battery"
  <2>1. t = resume_battery(s)
    BY <1>9 DEF ResumeCall
  <2>2. CASE Modes
    <3>1. t = write_charge_type(s, s.last["charge"])
      BY <2>1, <2>2 DEF resume_battery, Modes, Supports, restore_charge_type
    <3>2. Restores(s, t, "profile", p)
      BY <3>1, ChargeTypeRestored
    <3> HIDE DEF t, p
    <3>3. Touches(s, t, {"profile"}, {})
      BY <3>2 DEF Restores
    <3>4. Touches(s, t, RestoredFields, {})
          /\ Touches(s, t, RestoredFields \cup {"ctgp_general", "ctgp_on"}, {})
      BY <1>2, <3>3, TouchesMore
    <3>5. t.ec["usb_c"] = s.ec["usb_c"]
      BY <3>3, PlainFields DEF Touches
    <3>6. QED
      BY <1>9, <2>2, <3>2, <3>4, <3>5 DEF Resumed, Restores, t, p
  <2>3. CASE ~Modes
    <3>1. t = UpdateBits(s, "CHARGE_CTRL", [charge_ctrl |-> s.last.charge])
      BY <2>1, <2>3 DEF resume_battery, Modes, Supports
    <3>2. DOMAIN [charge_ctrl |-> s.last.charge] = {"charge_ctrl"}
          /\ "CHARGE_CTRL" \in Register \cap Volatile
      BY RegisterLemma DEF Volatile
    <3>3. Touches(s, t, {"charge_ctrl"}, {})
      BY <3>1, <3>2, VolatileUpdate, RegisterLemma
    <3> HIDE DEF t
    <3>4. Touches(s, t, RestoredFields, {})
          /\ Touches(s, t, RestoredFields \cup {"ctgp_general", "ctgp_on"}, {})
      BY <1>2, <3>3, TouchesMore
    <3>5. t.ec["usb_c"] = s.ec["usb_c"] /\ t.ec["profile"] = s.ec["profile"]
      BY <3>3, PlainFields DEF Touches
    <3>6. QED
      BY <1>9, <2>3, <3>4, <3>5 DEF Resumed, t
  <2>4. QED
    BY <2>2, <2>3
<1>10. CASE c = "usb_c"
  <2>1. t = UpdateBits(s, "USB_C", [usb_c |-> u])
    BY <1>10 DEF ResumeCall, usb_c_power_priority_restore
  <2>2. Restores(s, t, "usb_c", u)
    BY <2>1, UsbCRestored
  <2> HIDE DEF t, u
  <2>3. Touches(s, t, {"usb_c"}, {})
    BY <2>2 DEF Restores
  <2>4. Touches(s, t, RestoredFields, {})
        /\ Touches(s, t, RestoredFields \cup {"ctgp_general", "ctgp_on"}, {})
    BY <1>2, <2>3, TouchesMore
  <2>5. t.ec["profile"] = s.ec["profile"]
    BY <2>3, PlainFields DEF Touches
  <2>6. QED
    BY <1>10, <2>2, <2>4, <2>5 DEF Resumed, Restores, t, u
<1>11. QED
  BY <1>1, <1>3, <1>4, <1>5, <1>6, <1>7, <1>8, <1>9, <1>10
-----------------------------------------------------------------------------
(* The stores                                                              *)

Plain ==
  {"fn_lock", "super_flip", "touchpad_off", "ctgp_offset", "ac_auto_boot",
   "usb_charging", "boost_flip", "turbo", "charge_ctrl"}

StoreFields == Plain \cup LightFields \cup ColourFields \cup {"profile", "usb_c"}

\* The lightbar looks the same on AC and on battery, and is claimed, as far
\* as the cache knows.
Even(s) ==
  /\ s.cache["ac_rgb"] = s.cache["bat_rgb"] /\ s.cache["ac_off"] = s.cache["bat_off"]
  /\ s.cache["ac_rainbow"] = s.cache["bat_rainbow"]

AppBits(s) == s.cache["ac_app"] = 1 /\ s.cache["bat_app"] = 1

Writing(s) == Alive(s) /\ s.cache_only = FALSE

\* The store of the attribute a has led from s to t.
Stores(s, t, a) ==
  /\ Touches(s, t, StoreFields, {"charge", "usb_c"})
  /\ RgbTyped(s) => RgbTyped(t)
  /\ "rgb" \in DOMAIN s.cache => t.cache["rgb"] = s.cache["rgb"] \/ t.cache["rgb"] \in 1..50
  /\ a \in Atomic /\ Coherent(s) => Coherent(t)
  /\ /\ machine.single = FALSE /\ Glows(s)
     /\ a = "kbd_backlight" => t.ok = TRUE /\ Writing(s) /\ Coherent(s)
     => Glows(t)
  /\ a # "kbd_backlight" /\ Honest(s) => Honest(t)
  /\ LightFields \subseteq DOMAIN s.cache =>
       /\ AppBits(s) => AppBits(t)
       /\ Even(s) /\ (t.ok = TRUE \/ a \notin {"rainbow_animation", "lightbar"}) => Even(t)
  /\ t.last["charge"] = s.last["charge"] \/ t.last["charge"] \in DOMAIN ChargingProfile
  /\ t.last["usb_c"] = s.last["usb_c"] \/ t.last["usb_c"] \in DOMAIN usb_c_power_priority_value
  /\ t.ec["profile"] = s.ec["profile"] \/ t.ec["profile"] \in 0..3
  /\ t.ec["usb_c"] = s.ec["usb_c"] \/ t.ec["usb_c"] \in {0, 1}
  /\ s.ok = TRUE /\ Writing(s)
       => (ChargeSet(s) => ChargeSet(t)) /\ (UsbCSet(s) => UsbCSet(t))

LEMMA StoreFieldsLemma ==
  /\ {"rgb"} \cup LightFields \subseteq Field \ Plain
  /\ "rgb" \notin LightFields \cup {"profile", "usb_c"}
  /\ {"ac_app", "bat_app", "ac_rgb", "bat_rgb", "ac_off", "bat_off", "ac_rainbow",
      "bat_rainbow"} \subseteq LightFields
  /\ {"profile", "usb_c"} \cap (Plain \cup LightFields \cup ColourFields) = {}
  /\ LightFields \cap (Plain \cup ColourFields) = {}
BY DEF Plain, LightFields, ColourFields, KbdFields, Field, RegisterOf

\* A store of a setting by itself.
LEMMA PlainStores ==
  ASSUME NEW s, NEW t, NEW a, NEW F, Sys(s), Touches(s, t, F, {}), F \subseteq Plain,
         a \in Atomic => \A f \in F : RegisterOf[f] \in Volatile, a # "kbd_backlight"
  PROVE  Stores(s, t, a)
<1>1. Touches(s, t, StoreFields, {"charge", "usb_c"})
  BY TouchesMore DEF StoreFields
<1>2. "rgb" \notin F /\ LightFields \cap F = {} /\ "profile" \notin F /\ "usb_c" \notin F
  BY StoreFieldsLemma
<1>3. RgbTyped(s) => RgbTyped(t)
  BY <1>2, TouchesSurvives
<1>4. "rgb" \in DOMAIN s.cache => t.cache["rgb"] = s.cache["rgb"]
  BY <1>2 DEF Touches
<1>5. a \in Atomic /\ Coherent(s) => Coherent(t)
  BY VolatileCoherent
<1>6. (Glows(s) => Glows(t)) /\ (Honest(s) => Honest(t))
  BY <1>2, GlowsOn, HonestOn
<1>7. \A f \in LightFields : f \in DOMAIN s.cache => t.cache[f] = s.cache[f]
  BY <1>2 DEF Touches
<1>8. LightFields \subseteq DOMAIN s.cache
        => (AppBits(s) => AppBits(t)) /\ (Even(s) => Even(t))
  BY <1>7, StoreFieldsLemma DEF AppBits, Even
<1>9. /\ t.last["charge"] = s.last["charge"] /\ t.last["usb_c"] = s.last["usb_c"]
      /\ t.ec["profile"] = s.ec["profile"] /\ t.ec["usb_c"] = s.ec["usb_c"]
  BY <1>2, PlainFields DEF Touches, LastPart
<1>10. QED
  BY <1>1, <1>3, <1>4, <1>5, <1>6, <1>8, <1>9 DEF Stores, ChargeSet, UsbCSet

\* A store of the lightbar.
LEMMA LightStores ==
  ASSUME NEW s, NEW t, NEW a, NEW B, Sys(s), Lights(s, t, B),
         a \in {"rainbow_animation", "breathing_in_suspend", "lightbar"},
         B \cap {"ac_app", "bat_app"} = {},
         LightFields \subseteq DOMAIN s.cache /\ Even(s)
           /\ (t.ok = TRUE \/ a = "breathing_in_suspend") => Even(t)
  PROVE  Stores(s, t, a)
<1>1. Touches(s, t, LightFields, {})
  BY DEF Lights
<1>2. Touches(s, t, StoreFields, {"charge", "usb_c"})
  BY <1>1, TouchesMore DEF StoreFields
<1>3. RgbTyped(s) => RgbTyped(t)
  BY <1>1, StoreFieldsLemma, TouchesSurvives
<1>4. "rgb" \in DOMAIN s.cache => t.cache["rgb"] = s.cache["rgb"]
  BY <1>1, StoreFieldsLemma DEF Touches
<1>5. a \notin Atomic /\ a # "kbd_backlight"
  BY DEF Atomic
<1>6. (Glows(s) => Glows(t)) /\ (Honest(s) => Honest(t))
  BY <1>1, StoreFieldsLemma, GlowsOn, HonestOn
<1>7. LightFields \subseteq DOMAIN s.cache => (AppBits(s) => AppBits(t))
  BY StoreFieldsLemma DEF AppBits, Lights
<1>8. /\ t.last["charge"] = s.last["charge"] /\ t.last["usb_c"] = s.last["usb_c"]
      /\ t.ec["profile"] = s.ec["profile"] /\ t.ec["usb_c"] = s.ec["usb_c"]
  BY <1>1, StoreFieldsLemma, PlainFields DEF Touches, LastPart
<1>9. QED
  BY <1>2, <1>3, <1>4, <1>5, <1>6, <1>7, <1>8 DEF Stores, ChargeSet, UsbCSet

\* A store of the colour and the level of the keyboard.
LEMMA KbdStores ==
  ASSUME NEW s, Sys(s), NEW v, v[2] \in Int
  PROVE  Stores(s, kbd_led_brightness_set(s, v), "kbd_backlight")
<1> DEFINE t == kbd_led_brightness_set(s, v)
<1>1. Colours(s, t)
  BY KbdColours
<1> HIDE DEF t
<1>2. Touches(s, t, ColourFields, {})
  BY <1>1 DEF Colours
<1>3. Touches(s, t, StoreFields, {"charge", "usb_c"})
  BY <1>2, TouchesMore DEF StoreFields
<1>4. "kbd_backlight" \notin Atomic
  BY DEF Atomic
<1>5. \A f \in LightFields : f \in DOMAIN s.cache => t.cache[f] = s.cache[f]
  BY <1>2, StoreFieldsLemma DEF Touches
<1>6. LightFields \subseteq DOMAIN s.cache
        => (AppBits(s) => AppBits(t)) /\ (Even(s) => Even(t))
  BY <1>5, StoreFieldsLemma DEF AppBits, Even
<1>7. /\ t.last["charge"] = s.last["charge"] /\ t.last["usb_c"] = s.last["usb_c"]
      /\ t.ec["profile"] = s.ec["profile"] /\ t.ec["usb_c"] = s.ec["usb_c"]
  BY <1>2, StoreFieldsLemma, PlainFields DEF Touches, LastPart
<1>8. /\ RgbTyped(s) => RgbTyped(t)
      /\ "rgb" \in DOMAIN s.cache => t.cache["rgb"] = s.cache["rgb"] \/ t.cache["rgb"] \in 1..50
      /\ machine.single = FALSE /\ t.ok = TRUE /\ Writing(s) /\ Coherent(s) => Glows(t)
  BY <1>1 DEF Colours, Glows, InRange, Writing
<1>9. Stores(s, t, "kbd_backlight")
  BY <1>3, <1>4, <1>6, <1>7, <1>8 DEF Stores, ChargeSet, UsbCSet
<1>10. QED
  BY <1>9 DEF t

\* A store of one of the two settings that the driver remembers.
LEMMA RememberedStores ==
  ASSUME NEW s, Sys(s), NEW t, NEW a, NEW f, NEW x, NEW value, NEW v,
         Remembers(s, t, f, value, x, v), a # "kbd_backlight",
         \/ /\ f = "profile" /\ x = "charge" /\ v \in DOMAIN ChargingProfile
            /\ value = ChargingProfile[v]
         \/ /\ f = "usb_c" /\ x = "usb_c" /\ v \in DOMAIN usb_c_power_priority_value
            /\ value = usb_c_power_priority_value[v]
  PROVE  Stores(s, t, a)
<1>1. Touches(s, t, {f}, {x})
  BY DEF Remembers
<1>2. Touches(s, t, StoreFields, {"charge", "usb_c"})
  BY <1>1, TouchesMore DEF StoreFields
<1>3. "rgb" # f /\ f \notin LightFields
  BY StoreFieldsLemma
<1>4. RgbTyped(s) => RgbTyped(t)
  BY <1>1, <1>3, TouchesSurvives
<1>5. "rgb" \in DOMAIN s.cache => t.cache["rgb"] = s.cache["rgb"]
  BY <1>1, <1>3 DEF Touches
<1>6. f \in Field => RegisterOf[f] \in Volatile
  BY DEF RegisterOf, Volatile
<1>7. Coherent(s) => Coherent(t)
  BY <1>1, <1>6, VolatileCoherent
<1>8. (Glows(s) => Glows(t)) /\ (Honest(s) => Honest(t))
  BY <1>1, <1>3, GlowsOn, HonestOn
<1>9. \A g \in LightFields : g \in DOMAIN s.cache => t.cache[g] = s.cache[g]
  BY <1>1, <1>3 DEF Touches
<1>10. LightFields \subseteq DOMAIN s.cache
        => (AppBits(s) => AppBits(t)) /\ (Even(s) => Even(t))
  BY <1>9, StoreFieldsLemma DEF AppBits, Even
<1>11. \A p \in DOMAIN ChargingProfile : ChargingProfile[p] \in 0..3
  BY DEF ChargingProfile
<1>12. \A p \in DOMAIN usb_c_power_priority_value : usb_c_power_priority_value[p] \in {0, 1}
  BY DEF usb_c_power_priority_value
<1>13. /\ t.last[x] = v \/ t.last[x] = s.last[x]
       /\ t.ec[f] = s.ec[f] \/ t.ec[f] = value
       /\ s.ok = TRUE /\ t.ok = TRUE /\ Writing(s) => t.last[x] = v /\ t.ec[f] = value
       /\ t.ok = FALSE => t.last[x] = s.last[x] /\ t.ec[f] = s.ec[f]
       /\ t.ok \in BOOLEAN
  BY <1>1 DEF Remembers, Writing, Touches, Sys
<1>14. /\ f # "profile" => t.ec["profile"] = s.ec["profile"]
       /\ f # "usb_c" => t.ec["usb_c"] = s.ec["usb_c"]
       /\ x # "charge" => t.last["charge"] = s.last["charge"]
       /\ x # "usb_c" => t.last["usb_c"] = s.last["usb_c"]
  BY <1>1, PlainFields DEF Touches, LastPart
<1>15. /\ t.last["charge"] = s.last["charge"] \/ t.last["charge"] \in DOMAIN ChargingProfile
       /\ t.last["usb_c"] = s.last["usb_c"] \/ t.last["usb_c"] \in DOMAIN usb_c_power_priority_value
       /\ t.ec["profile"] = s.ec["profile"] \/ t.ec["profile"] \in 0..3
       /\ t.ec["usb_c"] = s.ec["usb_c"] \/ t.ec["usb_c"] \in {0, 1}
  BY <1>11, <1>12, <1>13, <1>14
<1>16. s.ok = TRUE /\ Writing(s)
       => (ChargeSet(s) => ChargeSet(t)) /\ (UsbCSet(s) => UsbCSet(t))
  BY <1>13, <1>14 DEF ChargeSet, UsbCSet
<1>17. QED
  BY <1>2, <1>4, <1>5, <1>7, <1>8, <1>10, <1>15, <1>16 DEF Stores

LEMMA StoreLemma ==
  ASSUME NEW s, Sys(s), NEW a \in Setting, NEW v \in Values[a]
  PROVE  Stores(s, StoreOf(s, a, v), a)
<1> DEFINE t == StoreOf(s, a, v)
<1>1. a \in {"fn_lock", "super_key_enable", "touchpad_toggle_enable",
             "rainbow_animation", "breathing_in_suspend", "ctgp_offset",
             "usb_c_power_priority", "ac_auto_boot", "usb_powershare_high",
             "fan_boost", "platform_profile", "lightbar", "kbd_backlight",
             "charge_types", "charge_limit"}
  BY DEF Setting, FeatureOf
<1>2. \A f \in {"fn_lock", "super_flip", "touchpad_off", "usb_charging", "boost_flip",
                "turbo", "charge_ctrl"} : RegisterOf[f] \in Volatile
  BY DEF RegisterOf, Volatile
<1>3. CASE a = "fn_lock"
  <2>1. Touches(s, t, {"fn_lock"}, {})
    BY <1>3, FnLockTouches DEF StoreOf
  <2> HIDE DEF t
  <2>2. QED
    BY <1>2, <1>3, <2>1, PlainStores DEF Plain, t
<1>4. CASE a = "super_key_enable"
  <2>1. Touches(s, t, {"super_flip"}, {})
    BY <1>4, SuperKeyTouches DEF StoreOf
  <2> HIDE DEF t
  <2>2. QED
    BY <1>2, <1>4, <2>1, PlainStores DEF Plain, t
<1>5. CASE a = "touchpad_toggle_enable"
  <2>1. Touches(s, t, {"touchpad_off"}, {})
    BY <1>5, TouchpadTouches DEF StoreOf
  <2> HIDE DEF t
  <2>2. QED
    BY <1>2, <1>5, <2>1, PlainStores DEF Plain, t
<1>6. CASE a = "ctgp_offset"
  <2>1. Touches(s, t, {"ctgp_offset"}, {})
    BY <1>6, CtgpOffsetTouches DEF StoreOf
  <2>2. a \notin Atomic
    BY <1>6 DEF Atomic
  <2> HIDE DEF t
  <2>3. QED
    BY <1>6, <2>1, <2>2, PlainStores DEF Plain, t
<1>7. CASE a = "ac_auto_boot"
  <2>1. Touches(s, t, {"ac_auto_boot"}, {})
    BY <1>7, AutoBootTouches DEF StoreOf
  <2>2. a \notin Atomic
    BY <1>7 DEF Atomic
  <2> HIDE DEF t
  <2>3. QED
    BY <1>7, <2>1, <2>2, PlainStores DEF Plain, t
<1>8. CASE a = "usb_powershare_high"
  <2>1. Touches(s, t, {"usb_charging"}, {})
    BY <1>8, PowershareTouches DEF StoreOf
  <2> HIDE DEF t
  <2>2. QED
    BY <1>2, <1>8, <2>1, PlainStores DEF Plain, t
<1>9. CASE a = "fan_boost"
  <2>1. Touches(s, t, {"boost_flip"}, {})
    BY <1>9, FanBoostTouches DEF StoreOf
  <2> HIDE DEF t
  <2>2. QED
    BY <1>2, <1>9, <2>1, PlainStores DEF Plain, t
<1>10. CASE a = "platform_profile"
  <2>1. Touches(s, t, {"turbo"}, {})
    BY <1>10, PlatformProfileTouches DEF StoreOf
  <2> HIDE DEF t
  <2>2. QED
    BY <1>2, <1>10, <2>1, PlainStores DEF Plain, t
<1>11. CASE a = "charge_limit"
  <2>1. Touches(s, t, {"charge_ctrl"}, {})
    BY <1>11, ChargeLimitTouches DEF StoreOf
  <2> HIDE DEF t
  <2>2. QED
    BY <1>2, <1>11, <2>1, PlainStores DEF Plain, t
<1>12. CASE a = "rainbow_animation"
  <2>1. t = rainbow_animation_store(s, v)
    BY <1>12 DEF StoreOf
  <2>2. /\ Lights(s, t, {"ac_rainbow", "bat_rainbow"})
        /\ t.ok = TRUE => t.cache["ac_rainbow"] = v /\ t.cache["bat_rainbow"] = v
    BY <2>1, RainbowLights
  <2> HIDE DEF t
  <2>3. LightFields \subseteq DOMAIN s.cache /\ Even(s)
          /\ (t.ok = TRUE \/ a = "breathing_in_suspend") => Even(t)
    BY <1>12, <2>2, StoreFieldsLemma DEF Even, Lights
  <2>4. Stores(s, t, a)
    BY <1>12, <2>2, <2>3, LightStores
  <2>5. QED
    BY <2>4 DEF t
<1>13. CASE a = "breathing_in_suspend"
  <2>1. t = breathing_in_suspend_store(s, v)
    BY <1>13 DEF StoreOf
  <2>2. Lights(s, t, {"ac_still"})
    BY <2>1, BreathingLights
  <2> HIDE DEF t
  <2>3. LightFields \subseteq DOMAIN s.cache /\ Even(s)
          /\ (t.ok = TRUE \/ a = "breathing_in_suspend") => Even(t)
    BY <2>2, StoreFieldsLemma DEF Even, Lights
  <2>4. Stores(s, t, a)
    BY <1>13, <2>2, <2>3, LightStores
  <2>5. QED
    BY <2>4 DEF t
<1>14. CASE a = "lightbar"
  <2>1. t = led_brightness_set(s, v)
    BY <1>14 DEF StoreOf
  <2>2. /\ Lights(s, t, {"ac_rgb", "bat_rgb", "ac_off", "bat_off"})
        /\ t.ok = TRUE => /\ t.cache["ac_rgb"] = t.cache["bat_rgb"]
                          /\ t.cache["ac_off"] = t.cache["bat_off"]
    BY <2>1, LightbarLights
  <2> HIDE DEF t
  <2>3. LightFields \subseteq DOMAIN s.cache /\ Even(s)
          /\ (t.ok = TRUE \/ a = "breathing_in_suspend") => Even(t)
    BY <1>14, <2>2, StoreFieldsLemma DEF Even, Lights
  <2>4. Stores(s, t, a)
    BY <1>14, <2>2, <2>3, LightStores
  <2>5. QED
    BY <2>4 DEF t
<1>15. CASE a = "kbd_backlight"
  <2>1. t = kbd_led_brightness_set(s, v)
    BY <1>15 DEF StoreOf
  <2>2. v[2] \in Int
    BY <1>15, ValuesAssumption
  <2>3. QED
    BY <1>15, <2>1, <2>2, KbdStores
<1>16. CASE a = "charge_types"
  <2>1. t = set_charge_type(s, v)
    BY <1>16 DEF StoreOf
  <2>2. Remembers(s, t, "profile", ChargingProfile[v], "charge", v)
    BY <2>1, ChargeTypeRemembered
  <2>3. v \in DOMAIN ChargingProfile
    BY <1>16, ValuesAssumption DEF ChargingProfile
  <2> HIDE DEF t
  <2>4. Stores(s, t, a)
    BY <1>16, <2>2, <2>3, RememberedStores
  <2>5. QED
    BY <2>4 DEF t
<1>17. CASE a = "usb_c_power_priority"
  <2>1. t = usb_c_power_priority_store(s, v)
    BY <1>17 DEF StoreOf
  <2>2. Remembers(s, t, "usb_c", usb_c_power_priority_value[v], "usb_c", v)
    BY <2>1, UsbCRemembered
  <2>3. v \in DOMAIN usb_c_power_priority_value
    BY <1>17, ValuesAssumption DEF usb_c_power_priority_value
  <2> HIDE DEF t
  <2>4. Stores(s, t, a)
    BY <1>17, <2>2, <2>3, RememberedStores
  <2>5. QED
    BY <2>4 DEF t
<1>18. QED
  BY <1>1, <1>3, <1>4, <1>5, <1>6, <1>7, <1>8, <1>9, <1>10, <1>11, <1>12, <1>13,
     <1>14, <1>15, <1>16, <1>17
=============================================================================
