---------------------------- MODULE MCController ----------------------------
(* Instances of Controller for TLC: few colours, two animation phases.      *)
EXTENDS Controller

CONSTANTS MaxLevel,     \* the limit of the LED
          Palette       \* the colours, some of "red" and "blue"

\* Two colours; the wave 0 dims "blue" to black and "red" to a faint red.
MCFrames == {"Red", "Faint", "Blue", "Dim"}
MCWaves  == {0, 1}
MCShade  == [cw \in Palette \X MCWaves |->
                CASE cw = <<"red", 1>>  -> "Red"
                  [] cw = <<"red", 0>>  -> "Faint"
                  [] cw = <<"blue", 1>> -> "Blue"
                  [] cw = <<"blue", 0>> -> "Black"]
MCFirst  == IF "red" \in Palette THEN "red" ELSE "blue"
MCHue    == [w \in MCWaves |-> IF w = 0 THEN "blue" ELSE MCFirst]
MCCycle  == <<MCFirst, "blue">>

Static(c) == [kind |-> "static", color |-> c, speed |-> 5, colors |-> MCCycle]
MCConfig ==
    [s \in {"ac", "battery"} |->
        [enabled |-> s = "ac", brightness |-> 1, effect |-> Static(MCFirst),
         fan_mode |-> IF s = "ac" THEN "balanced" ELSE NoMode]]

MCColorLists == {<<>>, MCCycle}

\* A profile beyond the LED's range.
MCProfileInputs ==
    {[enabled |-> TRUE, brightness |-> MaxLevel + 1, effect |-> Static("blue"),
      fan_mode |-> "balanced"]}
=============================================================================
