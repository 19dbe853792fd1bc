------------------------------ MODULE StateFile ------------------------------
(***************************************************************************)
(* The state file of the daemon: who saves it, the file operations of a    *)
(* save, a disk that may fail, and a daemon that crashes and starts again. *)
(*                                                                         *)
(* emit_changes saves on a worker thread after every change, main saves    *)
(* once more after SIGTERM.  A state is its number of changes.             *)
(***************************************************************************)
EXTENDS Integers, FiniteSets

CONSTANTS
  Absent, Torn, Empty,      \* no file; a file cut short or mixed; no bytes
  Overlap,                  \* both savers may run at once, as in the code
  MaxChanges, MaxCrashes, MaxFailures      \* bounds of the model

ASSUME StateFileAssumption ==
  /\ Overlap \in BOOLEAN
  /\ {MaxChanges, MaxCrashes, MaxFailures} \subseteq Nat
  /\ {Absent, Torn, Empty} \cap Nat = {}

VARIABLES
  up,              \* whether a daemon runs
  stopping,        \* main: "no", "signalled", or in its "last" save
  state, dirty,    \* the controller's state and its dirty flag
  saver,           \* of each saver: [pc, text, fd]
  tmp, path,       \* the files that the two names stand for
  file,            \* what each file contains
  failed,          \* the last save that ended has failed
  changes, crashes, failures

vars == <<up, stopping, state, dirty, saver, tmp, path, file, failed,
          changes, crashes, failures>>

bounds == <<changes, crashes, failures>>

Saver == {"emit_changes", "main"}

(* Three files are enough: those of the two names, and one to create.      *)
File == 1..3

Idle == [pc |-> "idle", text |-> 0, fd |-> 0]

Resting == \A t \in Saver : saver[t].pc = "idle"

(* A setter changes the state, until the daemon exits.                     *)
Change ==
  /\ up /\ changes < MaxChanges
  /\ state' = state + 1 /\ dirty' = TRUE
  /\ changes' = changes + 1
  /\ UNCHANGED <<up, stopping, saver, tmp, path, file, failed, crashes,
                 failures>>

(* wait_for_shutdown returns.                                              *)
Signal ==
  /\ up /\ stopping = "no"
  /\ stopping' = "signalled"
  /\ UNCHANGED <<up, state, dirty, saver, tmp, path, file, failed, bounds>>

(* take_state, under the lock of the controller.                           *)
SaveTake(t) ==
  /\ up /\ saver[t].pc = "idle" /\ dirty
  /\ IF t = "main" THEN stopping = "signalled" /\ stopping' = "last"
     ELSE UNCHANGED stopping
  /\ Overlap \/ Resting
  /\ dirty' = FALSE
  /\ saver' = [saver EXCEPT ![t] = [pc |-> "create", text |-> state, fd |-> 0]]
  /\ UNCHANGED <<up, state, tmp, path, file, failed, bounds>>

(* A file operation fails: save_state logs it and returns.                 *)
Fails(t) ==
  /\ failures < MaxFailures
  /\ failures' = failures + 1
  /\ saver' = [saver EXCEPT ![t] = Idle]
  /\ failed' = TRUE
  /\ UNCHANGED <<up, stopping, state, dirty, tmp, path, changes, crashes>>

(* Mutant: the state file is written in its place.                         *)
Create_in_place(t) ==
  /\ saver[t].pc = "create"
  /\ \E f \in IF path = 0 THEN File \ {tmp} ELSE {path} :
       /\ path' = f
       /\ file' = [file EXCEPT ![f] = Empty]
       /\ saver' = [saver EXCEPT ![t] = [pc |-> "write", text |-> saver[t].text,
                                          fd |-> f]]
  /\ UNCHANGED <<up, stopping, state, dirty, tmp, failed, bounds>>

(* The temporary file is created, or emptied if it is there.               *)
Create(t) ==
  /\ saver[t].pc = "create"
  /\ \E f \in IF tmp = 0 THEN {f \in File : f # path /\ \A u \in Saver : saver[u].fd # f}
              ELSE {tmp} :
       /\ tmp' = f
       /\ file' = [file EXCEPT ![f] = Empty]
       /\ saver' = [saver EXCEPT ![t] = [pc |-> "write", text |-> saver[t].text,
                                          fd |-> f]]
  /\ UNCHANGED <<up, stopping, state, dirty, path, failed, bounds>>

CreateFails(t) == saver[t].pc = "create" /\ Fails(t) /\ UNCHANGED file

(* A text written over a longer one leaves the end of that.                *)
Written(text, old) == IF old = Empty THEN {text} ELSE {text, Torn}

Write(t) ==
  /\ saver[t].pc = "write"
  /\ \E c \in Written(saver[t].text, file[saver[t].fd]) :
       file' = [file EXCEPT ![saver[t].fd] = c]
  /\ saver' = [saver EXCEPT ![t].pc = "rename"]
  /\ UNCHANGED <<up, stopping, state, dirty, tmp, path, failed, bounds>>

WriteFails(t) ==
  /\ saver[t].pc = "write" /\ Fails(t)
  /\ file' = [file EXCEPT ![saver[t].fd] = Torn]

(* Mutant: what changed while the file was written counts as saved.        *)
Rename_clean(t) ==
  /\ saver[t].pc = "rename" /\ tmp # 0
  /\ path' = tmp /\ tmp' = 0
  /\ saver' = [saver EXCEPT ![t] = Idle]
  /\ failed' = FALSE /\ dirty' = FALSE
  /\ UNCHANGED <<up, stopping, state, file, bounds>>

(* Mutant: the file keeps its temporary name as well.                      *)
Rename_link(t) ==
  /\ saver[t].pc = "rename" /\ tmp # 0
  /\ path' = tmp
  /\ saver' = [saver EXCEPT ![t] = Idle]
  /\ failed' = FALSE
  /\ UNCHANGED <<up, stopping, state, dirty, tmp, file, bounds>>

Rename(t) ==
  /\ saver[t].pc = "rename" /\ tmp # 0
  /\ path' = tmp /\ tmp' = 0
  /\ saver' = [saver EXCEPT ![t] = Idle]
  /\ failed' = FALSE
  /\ UNCHANGED <<up, stopping, state, dirty, file, bounds>>

(* The other saver may have renamed the file already.                      *)
RenameFails(t) ==
  /\ saver[t].pc = "rename"
  /\ IF tmp = 0
     THEN /\ saver' = [saver EXCEPT ![t] = Idle]
          /\ failed' = TRUE
          /\ UNCHANGED <<up, stopping, state, dirty, tmp, path, bounds>>
     ELSE Fails(t)
  /\ UNCHANGED file

(* main returns after its save, and the runtime waits for its workers.     *)
Exit ==
  /\ up /\ Resting
  /\ stopping = "last" \/ (stopping = "signalled" /\ ~dirty)
  /\ up' = FALSE
  /\ UNCHANGED <<stopping, state, dirty, saver, tmp, path, file, failed,
                 bounds>>

(* The daemon is killed, maybe in the middle of a write.                   *)
Crash ==
  /\ up /\ crashes < MaxCrashes
  /\ up' = FALSE
  /\ \E cut \in SUBSET {t \in Saver : saver[t].pc = "write"} :
       file' = [f \in File |-> IF \E t \in cut : saver[t].fd = f
                               THEN Torn ELSE file[f]]
  /\ saver' = [t \in Saver |-> Idle]
  /\ crashes' = crashes + 1
  /\ UNCHANGED <<stopping, state, dirty, tmp, path, failed, changes, failures>>

(* State::load, or the profiles of the configuration where there is no     *)
(* file or it cannot be read: no change is left then.                      *)
Loaded == IF path # 0 /\ file[path] \in Nat THEN file[path] ELSE 0

Start ==
  /\ ~up
  /\ up' = TRUE /\ stopping' = "no"
  /\ state' = Loaded /\ dirty' = FALSE /\ failed' = FALSE
  /\ UNCHANGED <<saver, tmp, path, file, bounds>>

Init ==
  /\ up = TRUE /\ stopping = "no"
  /\ state = 0 /\ dirty = FALSE
  /\ saver = [t \in Saver |-> Idle]
  /\ tmp = 0 /\ path = 0 /\ file = [f \in File |-> Absent]
  /\ failed = FALSE
  /\ changes = 0 /\ crashes = 0 /\ failures = 0

Saves(t) ==
  \/ SaveTake(t) \/ Create(t) \/ Write(t) \/ Rename(t)
  \/ CreateFails(t) \/ WriteFails(t) \/ RenameFails(t)

Next ==
  \/ Change \/ Signal \/ \E t \in Saver : Saves(t)
  \/ Exit \/ Crash \/ Start

Spec == Init /\ [][Next]_vars

-----------------------------------------------------------------------------
S == INSTANCE Store WITH disk <- Loaded

(* A crash, a failing disk and a stop at any moment leave the last saved   *)
(* state or a later one to the next daemon, never an older one or none.    *)
ImplementsStore == S!Spec

(* The state file is never seen without its whole text.                    *)
NeverTorn == path # 0 => file[path] \in Nat

(* What is not marked for saving is saved, unless the last save failed:    *)
(* then the next change saves everything.                                  *)
CleanMeansSaved == up /\ Resting /\ ~dirty /\ ~failed => Loaded = state

PC == {"idle", "create", "write", "rename"}

(* Every variable holds a value of its kind, no two names are one file.    *)
StateFileTypeOK ==
  /\ {up, dirty, failed} \subseteq BOOLEAN /\ stopping \in {"no", "signalled", "last"}
  /\ state \in Nat /\ tmp \in File \cup {0} /\ path \in File \cup {0}
  /\ saver \in [Saver -> [pc : PC, text : Nat, fd : File \cup {0}]]
  /\ file \in [File -> Nat \cup {Absent, Torn, Empty}]
  /\ tmp = path => tmp = 0
=============================================================================
