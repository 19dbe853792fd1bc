------------------------------ MODULE MCDriver ------------------------------
(* Machines, EC contents and user values for TLC. *)
EXTENDS Driver, Machines

MCMachines ==
  {eluktronics_rp17, machenike_l16p, lapkc71f, phxarx1_phxaqf1, x4sp4nal}

(* The EC as it comes up, and as a user or the firmware may have left it. *)
MCResetEC ==
  [f \in Field \cup {"shown"} |->
     CASE f = "project" -> 1
       [] f = "cpu_temp" -> 50
       [] f = "fan_rpm" -> 2000
       [] f = "pwm" -> 100
       [] f = "shown" -> FactoryColour
       [] f = "has_gpu" -> 1
       [] OTHER -> 0]

MCUsedEC ==
  [f \in Field \cup {"shown"} |->
     CASE f \in Command \cup {"manual", "china_mode"} -> 0
       [] f = "kbd_level" -> 7
       [] f \in {"rgb", "shown"} -> 60
       [] f \in {"ac_rgb", "bat_rgb"} -> 250
       [] f = "charge_ctrl" -> 80
       [] f = "profile" -> 3
       [] f \in {"project"} \cup Fields["SENSORS"] -> MCResetEC[f]
       [] OTHER -> 1]

MCStartEC == {MCResetEC, MCUsedEC}

MCValues ==
  [a \in Setting |->
     CASE a = "usb_c_power_priority" -> {"charging", "performance"}
       [] a = "platform_profile" -> {"balanced", "performance"}
       [] a = "charge_types" -> {"Standard", "Trickle"}
       [] a = "charge_limit" -> {0, 60}
       [] a = "ctgp_offset" -> {7}
       [] a = "lightbar" -> {0, 250}
       [] a = "kbd_backlight" -> {<<0, 60>>, <<2, 0>>}
       [] OTHER -> {0, 1}]
=============================================================================
