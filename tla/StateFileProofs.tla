--------------------------- MODULE StateFileProofs ---------------------------
(***************************************************************************)
(* Theorems about StateFile where the two savers do not overlap, for any   *)
(* number of changes, crashes and failures: the state file is never torn,  *)
(* what is clean is saved, and a crash leaves the state saved last.        *)
(***************************************************************************)
EXTENDS StateFile, TLAPS

SaverRec == [pc : PC, text : Nat, fd : File \cup {0}]

Typed ==
  /\ up \in BOOLEAN /\ dirty \in BOOLEAN /\ failed \in BOOLEAN
  /\ stopping \in {"no", "signalled", "last"}
  /\ state \in Nat /\ tmp \in File \cup {0} /\ path \in File \cup {0}
  /\ saver \in [Saver -> SaverRec]
  /\ file \in [File -> Nat \cup {Absent, Torn, Empty}]

Busy(t) == saver[t].pc # "idle"

\* One saver at a time, and none without a daemon.
Alone ==
  /\ \A t, u \in Saver : Busy(t) /\ Busy(u) => t = u
  /\ \A t \in Saver : Busy(t) => up

\* A saver writes to the temporary file, which is not the state file.
Apart ==
  /\ tmp = path => tmp = 0
  /\ \A t \in Saver :
       /\ saver[t].pc \in {"write", "rename"} => tmp # 0 /\ saver[t].fd = tmp
       /\ saver[t].pc = "write" => file[tmp] = Empty
       /\ saver[t].pc = "rename" => file[tmp] = saver[t].text

\* What is saved, what is being saved, and the state: in this order.
Ordered ==
  /\ Loaded <= state
  /\ \A t \in Saver : Busy(t) => Loaded <= saver[t].text /\ saver[t].text <= state

\* CleanMeansSaved, and what a saver is about to make of it.
Clean ==
  /\ CleanMeansSaved
  /\ \A t \in Saver : Busy(t) /\ ~dirty => saver[t].text = state

IInv == Typed /\ Alone /\ Apart /\ NeverTorn /\ Ordered /\ Clean

-----------------------------------------------------------------------------
(* Helpers                                                                 *)

\* A saver goes on to r, the other stays where it is.
LEMMA BecomesLemma ==
  ASSUME saver \in [Saver -> SaverRec], NEW t \in Saver, NEW r \in SaverRec,
         saver' = [saver EXCEPT ![t] = r]
  PROVE  /\ saver' \in [Saver -> SaverRec]
         /\ saver'[t] = r
         /\ \A u \in Saver \ {t} : saver'[u] = saver[u]
OBVIOUS

LEMMA IdleLemma ==
  ASSUME saver \in [Saver -> SaverRec], NEW t \in Saver,
         saver' = [saver EXCEPT ![t] = Idle]
  PROVE  /\ saver' \in [Saver -> SaverRec]
         /\ saver'[t].pc = "idle"
         /\ \A u \in Saver \ {t} : saver'[u] = saver[u]
<1>1. Idle \in SaverRec /\ Idle.pc = "idle"
  BY DEF Idle, SaverRec, PC
<1>2. QED
  BY <1>1, BecomesLemma

LEMMA TakeLemma ==
  ASSUME Typed, NEW t \in Saver, SaveTake(t)
  PROVE  /\ saver' \in [Saver -> SaverRec]
         /\ saver'[t].pc = "create" /\ saver'[t].text = state
         /\ \A u \in Saver \ {t} : saver'[u] = saver[u]
<1> DEFINE r == [pc |-> "create", text |-> state, fd |-> 0]
<1>1. r \in SaverRec
  BY DEF Typed, SaverRec, PC
<1>2. saver' = [saver EXCEPT ![t] = r]
  BY DEF SaveTake
<1>3. QED
  BY <1>1, <1>2, BecomesLemma DEF Typed

LEMMA OpenLemma ==
  ASSUME Typed, NEW t \in Saver, NEW f \in File,
         saver' = [saver EXCEPT ![t] = [pc |-> "write", text |-> saver[t].text,
                                        fd |-> f]]
  PROVE  /\ saver' \in [Saver -> SaverRec]
         /\ saver'[t].pc = "write" /\ saver'[t].fd = f
         /\ saver'[t].text = saver[t].text
         /\ \A u \in Saver \ {t} : saver'[u] = saver[u]
<1> DEFINE r == [pc |-> "write", text |-> saver[t].text, fd |-> f]
<1>1. r \in SaverRec
  BY DEF Typed, SaverRec, PC
<1>2. QED
  BY <1>1, BecomesLemma DEF Typed

LEMMA WrittenLemma ==
  ASSUME Typed, NEW t \in Saver, Write(t)
  PROVE  /\ saver' \in [Saver -> SaverRec]
         /\ saver'[t].pc = "rename" /\ saver'[t].fd = saver[t].fd
         /\ saver'[t].text = saver[t].text
         /\ \A u \in Saver \ {t} : saver'[u] = saver[u]
<1> DEFINE r == [saver[t] EXCEPT !.pc = "rename"]
<1>1. saver[t] \in SaverRec
  BY DEF Typed
<1>2. /\ r \in SaverRec
      /\ r.pc = "rename" /\ r.fd = saver[t].fd /\ r.text = saver[t].text
  BY <1>1 DEF SaverRec, PC
<1>3. saver' = [saver EXCEPT ![t] = r]
  BY DEF Write
<1> HIDE DEF r
<1>4. QED
  BY <1>2, <1>3, BecomesLemma DEF Typed

\* The state that a daemon would start with is read from the state file only.
LEMMA LoadedLemma ==
  ASSUME IInv
  PROVE  /\ Loaded \in Nat
         /\ path = 0 => Loaded = 0
         /\ path # 0 => path \in File /\ Loaded = file[path]
BY DEF IInv, Typed, NeverTorn, Loaded

-----------------------------------------------------------------------------
(* Every step keeps the invariant, and is one of Store's or none.          *)

Good == IInv' /\ [S!Next]_(S!storeVars)

\* What the steps have in common: the state file keeps its text.
LEMMA KeepsLemma ==
  ASSUME IInv, path' = path, path # 0 => file'[path] = file[path]
  PROVE  Loaded' = Loaded /\ NeverTorn'
BY LoadedLemma DEF NeverTorn, Loaded

LEMMA Steps ==
  ASSUME Overlap = FALSE, IInv, [Next]_vars
  PROVE  Good
<1> USE StateFileAssumption DEF IInv, Typed, Busy, Alone, Apart, Ordered, Clean,
      CleanMeansSaved, Resting, bounds, Good
<1>1. ASSUME Change PROVE Good
  <2>1. Loaded' = Loaded /\ NeverTorn' /\ Loaded \in Nat
    BY <1>1, KeepsLemma, LoadedLemma DEF Change
  <2>2. S!Change
    BY <1>1, <2>1 DEF Change, S!Change
  <2>3. Ordered' /\ Clean'
    BY <1>1, <2>1 DEF Change, SaverRec
  <2>4. Typed' /\ Alone' /\ Apart'
    BY <1>1 DEF Change
  <2>5. QED
    BY <2>1, <2>2, <2>3, <2>4 DEF S!Next
<1>2. ASSUME Signal PROVE Good
  <2>1. Loaded' = Loaded /\ NeverTorn'
    BY <1>2, KeepsLemma DEF Signal
  <2>2. QED
    BY <1>2, <2>1 DEF Signal, S!storeVars
<1>3. ASSUME NEW t \in Saver, SaveTake(t) PROVE Good
  <2>1. Loaded' = Loaded /\ NeverTorn' /\ Loaded \in Nat
    BY <1>3, KeepsLemma, LoadedLemma DEF SaveTake
  <2>2. \A u \in Saver : ~Busy(u)
    BY <1>3 DEF SaveTake
  <2>3. IInv'
    <3>1. Typed'
      BY <1>3, <2>1, <2>2, TakeLemma DEF SaveTake
    <3>2. Alone'
      BY <1>3, <2>1, <2>2, TakeLemma DEF SaveTake
    <3>3. Apart'
      BY <1>3, <2>1, <2>2, TakeLemma DEF SaveTake
    <3>4. Ordered'
      BY <1>3, <2>1, <2>2, TakeLemma DEF SaveTake
    <3>5. Clean'
      BY <1>3, <2>1, <2>2, TakeLemma DEF SaveTake
    <3>6. QED
      BY <3>1, <3>2, <3>3, <3>4, <3>5, <2>1
  <2>4. QED
    BY <1>3, <2>1, <2>3 DEF SaveTake, S!storeVars
<1>4. ASSUME NEW t \in Saver, Create(t) PROVE Good
  <2>1. PICK f \in File :
          /\ f # path /\ (tmp # 0 => f = tmp)
          /\ tmp' = f /\ file' = [file EXCEPT ![f] = Empty]
          /\ saver' = [saver EXCEPT ![t] = [pc |-> "write",
                                            text |-> saver[t].text, fd |-> f]]
    BY <1>4 DEF Create
  <2>2. Loaded' = Loaded /\ NeverTorn'
    BY <1>4, <2>1, KeepsLemma DEF Create
  <2>3. \A u \in Saver \ {t} : ~Busy(u)
    BY <1>4 DEF Create
  <2>4. f # 0 /\ file'[f] = Empty
    BY <2>1 DEF File
  <2>5. IInv'
    <3>1. Typed'
      BY <1>4, <2>1, <2>2, <2>3, <2>4, OpenLemma DEF Create
    <3>2. Alone'
      BY <1>4, <2>1, <2>2, <2>3, <2>4, OpenLemma DEF Create
    <3>3. Apart'
      BY <1>4, <2>1, <2>2, <2>3, <2>4, OpenLemma DEF Create
    <3>4. Ordered'
      BY <1>4, <2>1, <2>2, <2>3, <2>4, OpenLemma DEF Create
    <3>5. Clean'
      BY <1>4, <2>1, <2>2, <2>3, <2>4, OpenLemma DEF Create
    <3>6. QED
      BY <3>1, <3>2, <3>3, <3>4, <3>5, <2>2
  <2>6. QED
    BY <1>4, <2>2, <2>5 DEF Create, S!storeVars
<1>5. ASSUME NEW t \in Saver, Write(t) PROVE Good
  <2>1. tmp \in File /\ saver[t].fd = tmp /\ file[tmp] = Empty /\ tmp # path
    BY <1>5 DEF Write
  <2>2. file' = [file EXCEPT ![tmp] = saver[t].text] /\ saver[t].text \in Nat
    BY <1>5, <2>1 DEF Write, Written, SaverRec
  <2>3. Loaded' = Loaded /\ NeverTorn'
    BY <1>5, <2>1, <2>2, KeepsLemma DEF Write
  <2>4. \A u \in Saver \ {t} : ~Busy(u)
    BY <1>5 DEF Write
  <2>5. IInv'
    <3>1. Typed'
      BY <1>5, <2>1, <2>2, <2>3, <2>4, WrittenLemma DEF Write
    <3>2. Alone'
      BY <1>5, <2>1, <2>2, <2>3, <2>4, WrittenLemma DEF Write
    <3>3. Apart'
      BY <1>5, <2>1, <2>2, <2>3, <2>4, WrittenLemma DEF Write
    <3>4. Ordered'
      BY <1>5, <2>1, <2>2, <2>3, <2>4, WrittenLemma DEF Write
    <3>5. Clean'
      BY <1>5, <2>1, <2>2, <2>3, <2>4, WrittenLemma DEF Write
    <3>6. QED
      BY <3>1, <3>2, <3>3, <3>4, <3>5, <2>3
  <2>6. QED
    BY <1>5, <2>3, <2>5 DEF Write, S!storeVars
<1>6. ASSUME NEW t \in Saver, Rename(t) PROVE Good
  <2>1. /\ tmp \in File /\ file[tmp] = saver[t].text /\ saver[t].text \in Nat
        /\ path' = tmp /\ tmp' = 0 /\ file' = file /\ state' = state
    BY <1>6 DEF Rename, SaverRec
  <2>2. NeverTorn' /\ Loaded' = saver[t].text
    BY <2>1 DEF NeverTorn, Loaded, File
  <2>3. \A u \in Saver : saver'[u].pc = "idle"
    BY <1>6, IdleLemma DEF Rename
  <2>4. Loaded <= saver[t].text /\ saver[t].text <= state /\ Loaded \in Nat
    BY <1>6, LoadedLemma DEF Rename
  <2>5. S!Save
    BY <2>1, <2>2, <2>4 DEF S!Save
  <2>6. IInv'
    BY <1>6, <2>1, <2>2, <2>3, <2>4, IdleLemma DEF Rename, File
  <2>7. QED
    BY <2>5, <2>6 DEF S!Next
<1>7. ASSUME NEW t \in Saver, CreateFails(t) \/ WriteFails(t) \/ RenameFails(t)
      PROVE  Good
  <2>1. /\ saver' = [saver EXCEPT ![t] = Idle] /\ Busy(t)
        /\ UNCHANGED <<up, stopping, state, dirty, tmp, path>> /\ failed' = TRUE
    BY <1>7 DEF CreateFails, WriteFails, RenameFails, Fails
  <2>2. \A u \in Saver : saver'[u].pc = "idle"
    BY <2>1, IdleLemma
  <2>3. /\ file' \in [File -> Nat \cup {Absent, Torn, Empty}]
        /\ path # 0 => file'[path] = file[path]
    BY <1>7 DEF CreateFails, WriteFails, RenameFails
  <2>4. Loaded' = Loaded /\ NeverTorn'
    BY <2>1, <2>3, KeepsLemma
  <2>5. QED
    BY <2>1, <2>2, <2>3, <2>4, IdleLemma DEF S!storeVars
<1>8. ASSUME Exit PROVE Good
  <2>1. Loaded' = Loaded /\ NeverTorn'
    BY <1>8, KeepsLemma DEF Exit
  <2>2. QED
    BY <1>8, <2>1 DEF Exit, S!storeVars
<1>9. ASSUME Crash PROVE Good
  <2>1. PICK cut \in SUBSET {t \in Saver : saver[t].pc = "write"} :
          file' = [f \in File |-> IF \E t \in cut : saver[t].fd = f
                                  THEN Torn ELSE file[f]]
    BY <1>9 DEF Crash
  <2>2. path # 0 => file'[path] = file[path]
    BY <2>1
  <2>3. file' \in [File -> Nat \cup {Absent, Torn, Empty}]
    BY <2>1
  <2>4. Loaded' = Loaded /\ NeverTorn'
    BY <1>9, <2>2, KeepsLemma DEF Crash
  <2>5. saver' \in [Saver -> SaverRec] /\ \A u \in Saver : saver'[u].pc = "idle"
    BY <1>9 DEF Crash, Idle, SaverRec, PC
  <2>6. QED
    BY <1>9, <2>3, <2>4, <2>5 DEF Crash, S!storeVars
<1>10. ASSUME Start PROVE Good
  <2>1. Loaded' = Loaded /\ NeverTorn' /\ Loaded \in Nat
    BY <1>10, KeepsLemma, LoadedLemma DEF Start
  <2>2. \A u \in Saver : ~Busy(u)
    BY <1>10 DEF Start
  <2>3. S!Restart
    BY <1>10, <2>1 DEF Start, S!Restart
  <2>4. IInv'
    <3>1. Typed'
      BY <1>10, <2>1, <2>2 DEF Start
    <3>2. Alone'
      BY <1>10, <2>1, <2>2 DEF Start
    <3>3. Apart'
      BY <1>10, <2>1, <2>2 DEF Start
    <3>4. Ordered'
      BY <1>10, <2>1, <2>2 DEF Start
    <3>5. Clean'
      BY <1>10, <2>1, <2>2 DEF Start
    <3>6. QED
      BY <3>1, <3>2, <3>3, <3>4, <3>5, <2>1
  <2>5. QED
    BY <2>3, <2>4 DEF S!Next
<1>11. CASE UNCHANGED vars
  <2>1. Loaded' = Loaded /\ NeverTorn'
    BY <1>11, KeepsLemma DEF vars
  <2>2. QED
    BY <1>11, <2>1 DEF vars, S!storeVars
<1>12. QED
  BY <1>1, <1>2, <1>3, <1>4, <1>5, <1>6, <1>7, <1>8, <1>9, <1>10, <1>11
  DEF Next, Saves

LEMMA Initially ==
  ASSUME Init PROVE IInv /\ S!Init
<1>1. Typed
  BY DEF Init, Typed, Idle, SaverRec, PC, File
<1>2. Loaded = 0
  BY DEF Init, Loaded
<1>3. QED
  BY <1>1, <1>2
  DEF Init, IInv, Typed, Alone, Busy, Apart, NeverTorn, Ordered, Clean,
      CleanMeansSaved, Idle, S!Init

-----------------------------------------------------------------------------
(* The theorems                                                            *)

LEMMA Invariance ==
  ASSUME Overlap = FALSE PROVE Spec => []IInv
<1>1. Init => IInv
  BY Initially
<1>2. IInv /\ [Next]_vars => IInv'
  BY Steps DEF Good
<1>3. QED
  BY <1>1, <1>2, PTL DEF Spec

\* Where main saves only after emit_changes is done, atomic_write never leaves
\* a state file that is cut short, whatever fails and whenever the daemon is
\* killed.
THEOREM FileIsWhole ==
  ASSUME Overlap = FALSE PROVE Spec => []NeverTorn
<1>1. IInv => NeverTorn
  BY DEF IInv
<1>2. QED
  BY <1>1, Invariance, PTL

\* take_state may clear the dirty flag before the file is written: what is not
\* dirty is saved, unless the last save has failed.
THEOREM CleanIsSaved ==
  ASSUME Overlap = FALSE PROVE Spec => []CleanMeansSaved
<1>1. IInv => CleanMeansSaved
  BY DEF IInv, Clean
<1>2. QED
  BY <1>1, Invariance, PTL

\* Every variable holds a value of its kind.
THEOREM StateFileTypeCorrect ==
  ASSUME Overlap = FALSE PROVE Spec => []StateFileTypeOK
<1>1. IInv => StateFileTypeOK
  BY DEF IInv, Typed, Apart, StateFileTypeOK, SaverRec
<1>2. QED
  BY <1>1, Invariance, PTL

\* Where the savers do not overlap, the state file implements Store: a daemon
\* starts with the state that was saved last.
THEOREM FileIsStore ==
  ASSUME Overlap = FALSE PROVE Spec => ImplementsStore
<1>1. Init => S!Init
  BY Initially
<1>2. IInv /\ [Next]_vars => [S!Next]_(S!storeVars)
  BY Steps DEF Good
<1>3. QED
  BY <1>1, <1>2, Invariance, PTL DEF Spec, ImplementsStore, S!Spec
=============================================================================
