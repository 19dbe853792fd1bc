------------------------------ MODULE Machines ------------------------------
(***************************************************************************)
(* Device descriptors of the kernel driver: one of each kind that differs  *)
(* in what it keeps over a suspend.                                        *)
(***************************************************************************)
EXTENDS Integers

Common == {"FN_LOCK", "SUPER_KEY", "CPU_TEMP", "PRIMARY_FAN"}

eluktronics_rp17 ==
  [features |-> Common \cup {"BATTERY_CHARGE_MODES", "KEYBOARD_BACKLIGHT",
                             "FAN_MODE", "FAN_BOOST"},
   fallback |-> TRUE, looks_for_gpu |-> FALSE, single |-> FALSE,
   kbd_max |-> 4, lightbar_max |-> 0]

machenike_l16p ==
  [eluktronics_rp17 EXCEPT !.fallback = FALSE,
     !.features = Common \cup {"NVIDIA_CTGP_CONTROL", "KEYBOARD_BACKLIGHT",
                               "AC_AUTO_BOOT", "USB_POWERSHARE"}]

lapkc71f ==
  [eluktronics_rp17 EXCEPT !.fallback = FALSE, !.lightbar_max = 200,
     !.features = Common \cup {"TOUCHPAD_TOGGLE", "LIGHTBAR",
                               "BATTERY_CHARGE_LIMIT"}]

phxarx1_phxaqf1 ==
  [eluktronics_rp17 EXCEPT !.fallback = FALSE, !.looks_for_gpu = TRUE,
     !.features = Common \cup {"BATTERY_CHARGE_MODES", "USB_C_POWER_PRIORITY"}]

x4sp4nal ==
  [eluktronics_rp17 EXCEPT !.fallback = FALSE, !.single = TRUE, !.kbd_max = 2,
     !.features = Common \cup {"BATTERY_CHARGE_MODES", "KEYBOARD_BACKLIGHT",
                               "AC_AUTO_BOOT", "USB_POWERSHARE"}]
=============================================================================
