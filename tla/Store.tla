-------------------------------- MODULE Store --------------------------------
(***************************************************************************)
(* What the daemon promises about the state file: a save brings it forward *)
(* to a state the controller had since the one saved last, and a daemon    *)
(* that starts has the state saved last, however the one before it ended.  *)
(***************************************************************************)
EXTENDS Integers

VARIABLES
  state,      \* the controller's state, counted in changes
  disk        \* the state that a daemon would start with

storeVars == <<state, disk>>

Init == state = 0 /\ disk = 0

Change == state' = state + 1 /\ UNCHANGED disk

Save == disk' \in disk..state /\ UNCHANGED state

Restart == state' = disk /\ UNCHANGED disk

Next == Change \/ Save \/ Restart

Spec == Init /\ [][Next]_storeVars
=============================================================================
