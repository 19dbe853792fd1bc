------------------------------ MODULE Settings ------------------------------
(***************************************************************************)
(* What the kernel driver promises about the settings of the notebook:     *)
(* only somebody's request changes a setting.  A suspend and a resume, an  *)
(* EC that forgets everything while asleep, a lost memory window, a power  *)
(* adapter or the loading of the module do not.  An access that fails may  *)
(* make a setting unknown; it never gives it a value nobody asked for.     *)
(***************************************************************************)
EXTENDS Integers, FiniteSets

CONSTANTS
  Setting,    \* the settings
  Unknown,    \* the value of a setting that nothing vouches for
  Keyed,      \* the settings with a key of their own, handled by the EC
  Unsaved,    \* the settings that a suspend does not keep
  Reset       \* the settings that loading the driver sets or reads anew

VARIABLES
  val,        \* the value of each setting
  requests,   \* how often a user changed a setting, by a call or by a key
  faults,     \* how many accesses have failed
  sleeps,     \* how often the machine fell asleep
  unloads     \* how often the driver was unbound

vars == <<val, requests, faults, sleeps, unloads>>

(* Known settings that a step gives another value, or leaves unknown.      *)
Changed == {s \in Setting : val'[s] # val[s] /\ val[s] # Unknown}

Forgotten == {s \in Setting : val'[s] = Unknown}

(* A user changes one setting.                                             *)
Set ==
  /\ requests' = requests + 1
  /\ \/ faults' = faults /\ Cardinality(Changed) <= 1
     \/ faults' = faults + 1 /\ Cardinality(Changed \ Forgotten) <= 1
  /\ UNCHANGED <<sleeps, unloads>>

(* An access fails.  A key pressed during a suspend that is then given up  *)
(* counts from here.                                                       *)
Fail ==
  /\ faults' = faults + 1
  /\ Changed \subseteq Forgotten \cup Keyed
  /\ UNCHANGED <<requests, sleeps, unloads>>

(* A setting becomes known.                                                *)
Learn ==
  /\ Changed = {}
  /\ UNCHANGED <<requests, faults, sleeps, unloads>>

(* The EC forgets what nobody saved.                                       *)
Sleep ==
  /\ sleeps' = sleeps + 1
  /\ Changed \subseteq Unsaved
  /\ UNCHANGED <<requests, faults, unloads>>

Unload ==
  /\ unloads' = unloads + 1
  /\ faults' \in {faults, faults + 1}
  /\ Changed \subseteq Reset
  /\ UNCHANGED <<requests, sleeps>>

Init == requests = 0 /\ faults = 0 /\ sleeps = 0 /\ unloads = 0

Next == Set \/ Fail \/ Learn \/ Sleep \/ Unload

Spec == Init /\ [][Next]_vars
=============================================================================
