------------------------------ MODULE MCDaemon ------------------------------
(* Instances of Daemon for TLC: one colour at one level, so that a profile is *)
(* told from another by its switch and by its effect being animated or not.  *)
EXTENDS Daemon

MCShade == [cw \in Colors \X Waves |-> IF cw[2] = FullWave THEN "Blue" ELSE "Black"]
MCHue   == [w \in Waves |-> "blue"]
MCCycle == <<"blue">>
MCConfig ==
    [s \in {"ac", "battery"} |->
        [enabled |-> s = "ac", brightness |-> 1, fan_mode |-> NoMode,
         effect |-> [kind |-> "static", color |-> "blue", speed |-> 5,
                     colors |-> MCCycle]]]

\* The same with animated effects, for the events that stop an animation.
MCAnimated ==
    [s \in {"ac", "battery"} |-> [MCConfig[s] EXCEPT !.effect.kind = "breathing"]]
=============================================================================
