------------------------------- MODULE Regmap -------------------------------
(***************************************************************************)
(* The embedded controller (EC) of a Uniwill notebook and the register map *)
(* through which the kernel driver reaches it.                             *)
(*                                                                         *)
(* A handler of the driver is a sequence of register accesses that stops   *)
(* at the first error.  Here it is an operator on a record s:              *)
(*   ec          the fields of the EC's registers, and what they command   *)
(*   window      whether the EC's memory window answers (ECRR, ECRW)       *)
(*   use_wmi     data->ec_use_wmi: the accesses go through the mailbox     *)
(*   cache       regmap's cache: a partial function from fields to values  *)
(*   cache_only, dirty   the regmap switches of suspend and resume         *)
(*   last        the copies kept in struct uniwill_data (last_...)         *)
(*   ok          no access of the handler has failed so far                *)
(*   fuse        the access that fails: 1 the next one, 0 none             *)
(* The register map itself is the kernel's: Read, Write, UpdateBits,       *)
(* WriteBits and regcache_sync below say what the driver relies on.        *)
(***************************************************************************)
EXTENDS Integers, Sequences, FiniteSets

(* The fields that the driver uses and the registers they are in.  The     *)
(* three colour registers of a light are one field, a bit that the driver  *)
(* leaves alone is left out.                                               *)
RegisterOf ==
  [ac_auto_boot |-> "OEM_9", project |-> "PROJECT_ID", manual |-> "AP_OEM",
   ctgp_general |-> "CTGP_CTRL", ctgp_on |-> "CTGP_CTRL",
   ctgp_offset |-> "CTGP_OFFSET", tpp_offset |-> "TPP_OFFSET",
   db_offset |-> "DB_OFFSET",
   ac_app |-> "LIGHTBAR_AC", ac_off |-> "LIGHTBAR_AC",
   ac_still |-> "LIGHTBAR_AC", ac_rainbow |-> "LIGHTBAR_AC",
   ac_rgb |-> "LIGHTBAR_AC_RGB",
   bat_app |-> "LIGHTBAR_BAT", bat_off |-> "LIGHTBAR_BAT",
   bat_still |-> "LIGHTBAR_BAT", bat_rainbow |-> "LIGHTBAR_BAT",
   bat_rgb |-> "LIGHTBAR_BAT_RGB",
   fn_lock |-> "BIOS_OEM", turbo |-> "FAN_CTRL",
   usb_charging |-> "TRIGGER", super_flip |-> "TRIGGER",
   boost_flip |-> "TRIGGER", apply_rgb |-> "TRIGGER",
   super_lock |-> "SWITCH_STATUS", boost |-> "SWITCH_STATUS", rgb |-> "RGB",
   china_mode |-> "SUPPORT_2", china_on |-> "BIOS_OEM_2",
   has_gpu |-> "SYSTEM_ID",
   kbd_level |-> "KBD_STATUS", kbd_off |-> "KBD_STATUS",
   kbd_apply |-> "KBD_STATUS",
   touchpad_off |-> "OEM_4", profile |-> "OEM_4",
   charge_ctrl |-> "CHARGE_CTRL", usb_c |-> "USB_C",
   cpu_temp |-> "SENSORS", fan_rpm |-> "SENSORS", pwm |-> "SENSORS"]

Field == DOMAIN RegisterOf

Register == {RegisterOf[f] : f \in Field}

Fields == [r \in Register |-> {f \in Field : RegisterOf[f] = r}]

(* Registers that regmap may write, in the order of their addresses: the   *)
(* order in which regcache_sync writes the cached ones.                    *)
Writeable ==
  <<"OEM_9", "AP_OEM", "CTGP_CTRL", "CTGP_OFFSET", "TPP_OFFSET",
    "DB_OFFSET", "LIGHTBAR_AC", "LIGHTBAR_AC_RGB", "BIOS_OEM", "FAN_CTRL",
    "TRIGGER", "RGB", "BIOS_OEM_2", "KBD_STATUS", "OEM_4", "CHARGE_CTRL",
    "USB_C", "LIGHTBAR_BAT", "LIGHTBAR_BAT_RGB">>

(* Registers that are never cached, the EC changes them by itself.         *)
Volatile ==
  {"BIOS_OEM", "FAN_CTRL", "SUPPORT_2", "TRIGGER", "SWITCH_STATUS",
   "KBD_STATUS", "OEM_4", "CHARGE_CTRL", "USB_C", "SENSORS"}

(* What a read returns where the memory window is gone: ones.              *)
Ones ==
  [f \in Field |-> CASE f = "kbd_level" -> 7
                     [] f = "profile" -> 3
                     [] f = "charge_ctrl" -> 127
                     [] f \in {"project", "ctgp_offset", "tpp_offset",
                               "db_offset", "rgb", "ac_rgb", "bat_rgb",
                               "cpu_temp", "pwm"} -> 255
                     [] f = "fan_rpm" -> 65535
                     [] OTHER -> 1]

(* Bits that make the EC act and that always read 0.                       *)
Command == {"super_flip", "boost_flip", "apply_rgb", "kbd_apply"}

FactoryColour == 99

Smaller(a, b) == IF a < b THEN a ELSE b
Larger(a, b) == IF a > b THEN a ELSE b

(* The colour that the keys take over: the EC shows its own for black.     *)
Applied(ec) == IF ec["rgb"] = 0 THEN FactoryColour ELSE ec["rgb"]

(* The EC after a register was written with the fields of new: it flips a  *)
(* switch, takes over the level of the keyboard only with the apply bit.   *)
EcWrite(ec, new) ==
  LET Commands(c) == c \in DOMAIN new /\ new[c] = 1
      kept == Command \cup (IF Commands("kbd_apply") THEN {}
                            ELSE {"kbd_level", "kbd_off"})
  IN [f \in DOMAIN ec |->
        IF f \in DOMAIN new \ kept THEN new[f]
        ELSE IF \/ f = "super_lock" /\ Commands("super_flip")
                \/ f = "boost" /\ Commands("boost_flip") THEN 1 - ec[f]
        ELSE IF f = "shown" /\ Commands("apply_rgb") THEN Applied(ec)
        ELSE ec[f]]

-----------------------------------------------------------------------------
(* The two transports                                                      *)

Alive(s) == s.window \/ s.use_wmi

OnWire(s, f) == IF Alive(s) THEN s.ec[f] ELSE Ones[f]

uniwill_ec_reg_read(s) ==
  IF s.fuse = 1 THEN [s EXCEPT !.ok = FALSE, !.fuse = 0]
  ELSE [s EXCEPT !.fuse = Larger(s.fuse - 1, 0)]

(* A write into the dead window is lost without an error.                  *)
uniwill_ec_reg_write(s, new) ==
  IF s.fuse = 1 THEN [s EXCEPT !.ok = FALSE, !.fuse = 0]
  ELSE [s EXCEPT !.fuse = Larger(s.fuse - 1, 0),
                 !.ec = IF Alive(s) THEN EcWrite(s.ec, new) ELSE s.ec]

(* The mailbox has the same two operations, whatever the window does.      *)
uniwill_ec_wmi_xfer(s) == uniwill_ec_reg_read(s)

(* Mutant: the project ID is read through the cache.                       *)
check_transport_cached(s, fallback) ==
  LET id == IF "project" \in DOMAIN s.cache THEN s.cache["project"]
            ELSE OnWire(s, "project")
  IN IF ~s.ok \/ ~fallback \/ id # 255 THEN s ELSE [s EXCEPT !.use_wmi = TRUE]

(* Probe and resume look at the project ID past the cache.  Once the       *)
(* mailbox is in use it stays in use until the module is loaded again.     *)
uniwill_ec_check_transport(s, fallback) ==
  IF ~s.ok \/ ~fallback \/ s.use_wmi THEN s
  ELSE LET direct == uniwill_ec_reg_read(s)
           mailbox == uniwill_ec_wmi_xfer([direct EXCEPT !.ok = TRUE])
       IN IF direct.ok /\ OnWire(s, "project") # 255 THEN direct
          ELSE IF mailbox.ok /\ s.ec["project"] # 255
          THEN [mailbox EXCEPT !.use_wmi = TRUE]
          ELSE [mailbox EXCEPT !.ok = FALSE]

-----------------------------------------------------------------------------
(* The register map                                                        *)

Seen(s, f) == IF f \in DOMAIN s.cache THEN s.cache[f] ELSE OnWire(s, f)

Over(new, old) ==
  [f \in DOMAIN new \cup DOMAIN old |->
     IF f \in DOMAIN new THEN new[f] ELSE old[f]]

Read(s, r) ==
  IF ~s.ok \/ Fields[r] \subseteq DOMAIN s.cache THEN s
  ELSE IF s.cache_only THEN [s EXCEPT !.ok = FALSE]
  ELSE LET got == uniwill_ec_reg_read(s)
       IN IF got.ok /\ r \notin Volatile
          THEN [got EXCEPT !.cache =
                  Over([f \in Fields[r] |-> OnWire(s, f)], s.cache)]
          ELSE got

(* The cache is written before the hardware.                               *)
Write(s, r, new) ==
  LET cached == IF r \in Volatile THEN s
                ELSE [s EXCEPT !.cache = Over(new, s.cache)]
  IN IF ~s.ok THEN s
     ELSE IF s.cache_only THEN [cached EXCEPT !.dirty = TRUE]
     ELSE uniwill_ec_reg_write(cached, new)

Merged(s, r, bits) == Over(bits, [f \in Fields[r] |-> Seen(s, f)])

WriteBits(s, r, bits) ==
  LET got == Read(s, r) IN Write(got, r, Merged(got, r, bits))

(* A write that would change nothing is not sent.                          *)
UpdateBits(s, r, bits) ==
  LET got == Read(s, r)
  IN IF \A f \in DOMAIN bits : Seen(got, f) = bits[f] THEN got
     ELSE Write(got, r, Merged(got, r, bits))

(* Writes the cached registers in the order of their addresses, until an   *)
(* access fails.  None of them has a bit that makes the EC act.            *)
regcache_sync(s) ==
  LET cached == {i \in DOMAIN Writeable : Fields[Writeable[i]] \subseteq DOMAIN s.cache}
      sent == {i \in cached :
                 s.fuse = 0 \/ Cardinality({j \in cached : j <= i}) < s.fuse}
      new == [f \in UNION {Fields[Writeable[i]] : i \in sent} |-> s.cache[f]]
  IN IF ~s.ok \/ ~s.dirty THEN s
     ELSE [s EXCEPT !.ok = (sent = cached), !.dirty = (sent # cached),
                    !.fuse = IF sent = cached
                             THEN Larger(s.fuse - Cardinality(cached), 0) ELSE 0,
                    !.ec = IF Alive(s) THEN EcWrite(s.ec, new) ELSE s.ec]
=============================================================================
