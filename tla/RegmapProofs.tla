---------------------------- MODULE RegmapProofs ----------------------------
(***************************************************************************)
(* What an access of the register map does, whatever fails: lemmas about   *)
(* Read, Write, WriteBits, UpdateBits and regcache_sync.                   *)
(***************************************************************************)
EXTENDS Regmap, FiniteSetTheorems, TLAPS

EcField == Field \cup {"shown"}

Part == {"ec", "window", "use_wmi", "cache", "cache_only", "dirty", "last",
         "ok", "fuse"}

LastPart == {"fn_lock", "super_key", "touchpad", "charge", "kbd",
             "powershare", "usb_c"}

Shaped(s) == s = [x \in Part |-> s[x]]

\* t differs from s in the parts X at most.
Alters(s, t, X) == Shaped(t) /\ \A x \in Part \ X : t[x] = s[x]

\* A cache holds whole registers, and no volatile ones.
Cache(c) ==
  /\ c = [f \in DOMAIN c |-> c[f]]
  /\ \A f \in DOMAIN c : f \in Field /\ RegisterOf[f] \notin Volatile
  /\ \A f \in DOMAIN c, g \in Field :
       RegisterOf[g] = RegisterOf[f] => g \in DOMAIN c

\* s is the state of an EC and of the register map in front of it.
Sys(s) ==
  /\ Shaped(s)
  /\ s.ec = [f \in EcField |-> s.ec[f]]
  /\ Cache(s.cache)
  /\ s.last = [x \in LastPart |-> s.last[x]]
  /\ s.window \in BOOLEAN /\ s.use_wmi \in BOOLEAN /\ s.cache_only \in BOOLEAN
  /\ s.dirty \in BOOLEAN /\ s.ok \in BOOLEAN /\ s.fuse \in Nat

\* What regmap caches is what the EC holds.
Coherent(s) == \A f \in DOMAIN s.cache : s.cache[f] = s.ec[f]

\* Of a sequence of accesses at most the one of the fuse fails, and nothing
\* is done after it.
Progress(s, t) ==
  /\ s.ok = FALSE => t = s
  /\ s.fuse = 0 => t.fuse = 0
  /\ t.ok = FALSE /\ s.ok = TRUE /\ s.cache_only = FALSE => s.fuse # 0 /\ t.fuse = 0

-----------------------------------------------------------------------------
(* Registers and fields                                                    *)

LEMMA FieldsLemma ==
  /\ \A r \in Register : \A f : f \in Fields[r] <=> f \in Field /\ RegisterOf[f] = r
  /\ \A f \in Field : RegisterOf[f] \in Register
BY DEF Fields, Register

LEMMA CommandLemma ==
  \A f \in Field : RegisterOf[f] \notin Volatile =>
    f \notin Command \cup {"kbd_level", "kbd_off", "super_lock", "boost", "shown"}
BY DEF Volatile, Command, RegisterOf, Field

LEMMA ShownLemma == "shown" \notin Field
BY DEF RegisterOf, Field

-----------------------------------------------------------------------------
(* One access on the wire                                                  *)

\* It works, or the fuse blows.
Attempt(s, t) ==
  /\ t.ok \in BOOLEAN /\ t.fuse \in Nat
  /\ s.fuse = 1 => t.ok = FALSE /\ t.fuse = 0
  /\ s.fuse # 1 => t.ok = s.ok
  /\ s.fuse = 0 => t.fuse = 0

LEMMA RegReadLemma ==
  ASSUME NEW s, Sys(s)
  PROVE  LET t == uniwill_ec_reg_read(s)
         IN Alters(s, t, {"ok", "fuse"}) /\ Attempt(s, t)
<1>1. CASE s.fuse = 1
  <2> DEFINE t == [s EXCEPT !.ok = FALSE, !.fuse = 0]
  <2>1. uniwill_ec_reg_read(s) = t
    BY <1>1 DEF uniwill_ec_reg_read
  <2>2. Alters(s, t, {"ok", "fuse"}) /\ t.ok = FALSE /\ t.fuse = 0
        /\ t.ok \in BOOLEAN
    BY DEF Sys, Shaped, Alters, Part
  <2> HIDE DEF t
  <2>3. Attempt(s, t)
    BY <1>1, <2>2 DEF Attempt
  <2>4. QED
    BY <2>1, <2>2, <2>3
<1>2. CASE s.fuse # 1
  <2> DEFINE b == Larger(s.fuse - 1, 0)
             t == [s EXCEPT !.fuse = b]
  <2>1. uniwill_ec_reg_read(s) = t
    BY <1>2 DEF uniwill_ec_reg_read
  <2>2. b \in Nat /\ (s.fuse = 0 => b = 0)
    BY DEF Sys, Larger
  <2> HIDE DEF b
  <2>3. Alters(s, t, {"fuse"}) /\ t.fuse = b
    BY DEF Sys, Shaped, Alters, Part
  <2> HIDE DEF t
  <2>4. Alters(s, t, {"ok", "fuse"}) /\ t.ok = s.ok
        /\ t.ok \in BOOLEAN
    BY <2>3 DEF Alters, Part, Sys
  <2>5. QED
    BY <1>2, <2>1, <2>2, <2>3, <2>4 DEF Attempt
<1>3. QED
  BY <1>1, <1>2

LEMMA RegWriteLemma ==
  ASSUME NEW s, Sys(s), s.ok = TRUE, NEW new
  PROVE  LET t == uniwill_ec_reg_write(s, new)
         IN /\ Alters(s, t, {"ok", "fuse", "ec"}) /\ Attempt(s, t)
            /\ t.ec = IF t.ok = TRUE /\ Alive(s) THEN EcWrite(s.ec, new) ELSE s.ec
<1>1. CASE s.fuse = 1
  <2> DEFINE t == [s EXCEPT !.ok = FALSE, !.fuse = 0]
  <2>1. uniwill_ec_reg_write(s, new) = t
    BY <1>1 DEF uniwill_ec_reg_write
  <2>2. Alters(s, t, {"ok", "fuse"}) /\ t.ok = FALSE /\ t.fuse = 0
        /\ t.ok \in BOOLEAN
    BY DEF Sys, Shaped, Alters, Part
  <2> HIDE DEF t
  <2>3. Attempt(s, t)
    BY <1>1, <2>2 DEF Attempt
  <2>4. Alters(s, t, {"ok", "fuse", "ec"})
    BY <2>2 DEF Alters
  <2>5. t.ec = s.ec
    BY <2>2 DEF Alters, Part
  <2>6. QED
    BY <2>1, <2>2, <2>3, <2>4, <2>5
<1>2. CASE s.fuse # 1
  <2> DEFINE b == Larger(s.fuse - 1, 0)
             e == IF Alive(s) THEN EcWrite(s.ec, new) ELSE s.ec
             t == [s EXCEPT !.fuse = b, !.ec = e]
  <2>1. uniwill_ec_reg_write(s, new) = t
    BY <1>2 DEF uniwill_ec_reg_write
  <2>2. b \in Nat /\ (s.fuse = 0 => b = 0)
    BY DEF Sys, Larger
  <2> HIDE DEF b, e
  <2>3. Alters(s, t, {"fuse", "ec"}) /\ t.fuse = b /\ t.ec = e
    BY DEF Sys, Shaped, Alters, Part
  <2> HIDE DEF t
  <2>4. Alters(s, t, {"ok", "fuse", "ec"}) /\ t.ok = s.ok
        /\ t.ok \in BOOLEAN
    BY <2>3 DEF Alters, Part, Sys
  <2>5. QED
    BY <1>2, <2>1, <2>2, <2>3, <2>4 DEF Attempt, e
<1>3. QED
  BY <1>1, <1>2

LEMMA EcWriteLemma ==
  ASSUME NEW s, Sys(s), NEW new
  PROVE  LET e == EcWrite(s.ec, new)
         IN e = [f \in EcField |-> e[f]]
BY DEF EcWrite, Sys

-----------------------------------------------------------------------------
(* Reading                                                                 *)

LEMMA SysCache ==
  ASSUME NEW s, NEW t, Sys(s), Alters(s, t, {"ok", "fuse", "cache"}),
         Cache(t.cache), t.ok \in BOOLEAN, t.fuse \in Nat
  PROVE  Sys(t)
BY DEF Sys, Alters, Part

Reads(s, t, r) ==
  /\ Sys(t) /\ Progress(s, t) /\ Alters(s, t, {"ok", "fuse", "cache"})
  /\ r \in Volatile => t.cache = s.cache
  /\ \A f \in DOMAIN s.cache : f \in DOMAIN t.cache /\ t.cache[f] = s.cache[f]
  /\ \A f \in DOMAIN t.cache :
       f \notin DOMAIN s.cache => f \in Fields[r] /\ t.cache[f] = OnWire(s, f)
  /\ t.ok = TRUE /\ r \notin Volatile => Fields[r] \subseteq DOMAIN t.cache

LEMMA ReadLemma ==
  ASSUME NEW s, Sys(s), NEW r \in Register
  PROVE  Reads(s, Read(s, r), r)
<1> DEFINE got == uniwill_ec_reg_read(s)
           c == Over([f \in Fields[r] |-> OnWire(s, f)], s.cache)
<1>1. CASE s.ok = FALSE \/ Fields[r] \subseteq DOMAIN s.cache
  <2>1. Read(s, r) = s
    BY <1>1 DEF Read
  <2>2. Alters(s, s, {"ok", "fuse", "cache"}) /\ Progress(s, s)
    BY DEF Alters, Sys, Progress
  <2>3. s.ok = TRUE => Fields[r] \subseteq DOMAIN s.cache
    BY <1>1
  <2>4. QED
    BY <2>1, <2>2, <2>3 DEF Reads
<1>2. CASE s.ok = TRUE /\ ~(Fields[r] \subseteq DOMAIN s.cache) /\ s.cache_only = TRUE
  <2> DEFINE t == [s EXCEPT !.ok = FALSE]
  <2>1. Read(s, r) = t
    BY <1>2 DEF Read
  <2>2. Alters(s, t, {"ok"}) /\ t.ok = FALSE
    BY DEF Alters, Sys, Shaped, Part
  <2> HIDE DEF t
  <2>3. Alters(s, t, {"ok", "fuse", "cache"}) /\ t.cache = s.cache /\ t.fuse = s.fuse
        /\ t.cache_only = s.cache_only
    BY <2>2 DEF Alters, Part
  <2>4. Sys(t)
    BY <2>2, <2>3, SysCache DEF Sys
  <2>5. Progress(s, t)
    BY <1>2, <2>2, <2>3 DEF Progress
  <2>6. QED
    BY <2>1, <2>2, <2>3, <2>4, <2>5 DEF Reads
<1>3. CASE s.ok = TRUE /\ ~(Fields[r] \subseteq DOMAIN s.cache) /\ s.cache_only = FALSE
  <2>1. Alters(s, got, {"ok", "fuse"}) /\ Attempt(s, got)
    BY RegReadLemma
  <2>2. got.cache = s.cache /\ got.cache_only = s.cache_only
        /\ Alters(s, got, {"ok", "fuse", "cache"})
    BY <2>1 DEF Alters, Part
  <2> HIDE DEF got
  <2>3. got.ok \in BOOLEAN /\ got.fuse \in Nat
    BY <2>1 DEF Attempt
  <2>4. Sys(got)
    BY <2>2, <2>3, SysCache DEF Sys
  <2>5. Progress(s, got)
    BY <1>3, <2>1 DEF Progress, Attempt
  <2>6. CASE got.ok = TRUE /\ r \notin Volatile
    <3> DEFINE t == [got EXCEPT !.cache = c]
    <3>1. Read(s, r) = t
      BY <1>3, <2>6 DEF Read, got
    <3>2. /\ DOMAIN c = Fields[r] \cup DOMAIN s.cache
          /\ c = [f \in DOMAIN c |-> c[f]]
          /\ \A f \in Fields[r] : c[f] = OnWire(s, f)
          /\ \A f \in DOMAIN s.cache : f \notin Fields[r] => c[f] = s.cache[f]
      BY DEF Over
    <3> HIDE DEF c
    <3>3. Alters(got, t, {"cache"}) /\ t.cache = c
      BY <2>4 DEF Alters, Sys, Shaped, Part
    <3> HIDE DEF t
    <3>4. Alters(s, t, {"ok", "fuse", "cache"}) /\ t.ok = got.ok /\ t.fuse = got.fuse
      BY <2>2, <3>3 DEF Alters, Part
    <3>5. DOMAIN s.cache \cap Fields[r] = {}
      BY <1>3, FieldsLemma DEF Sys, Cache
    <3>6. Cache(c)
      BY <2>6, <3>2, FieldsLemma DEF Sys, Cache
    <3>7. Sys(t)
      BY <2>3, <3>3, <3>4, <3>6, SysCache
    <3>8. Progress(s, t)
      BY <1>3, <2>5, <2>6, <3>4 DEF Progress
    <3>9. QED
      BY <2>6, <3>1, <3>2, <3>3, <3>4, <3>5, <3>7, <3>8 DEF Reads
  <2>7. CASE ~(got.ok = TRUE /\ r \notin Volatile)
    <3>1. Read(s, r) = got
      BY <1>3, <2>3, <2>7 DEF Read, got
    <3>2. QED
      BY <2>2, <2>4, <2>5, <2>7, <3>1 DEF Reads
  <2>8. QED
    BY <2>6, <2>7
<1>4. QED
  BY <1>1, <1>2, <1>3 DEF Sys
-----------------------------------------------------------------------------
(* What a sequence of accesses leaves alone                                *)

\* Fields that the EC changes as the effect of a command.
Effect == {"super_lock", "boost", "shown"}

\* From s to t at most the fields F of the EC and of the cache and the
\* copies L in struct uniwill_data have changed, and what the EC does
\* by itself.  The cache stays coherent where nothing fails.
Touches(s, t, F, L) ==
  /\ Sys(t) /\ Progress(s, t)
  /\ Alters(s, t, {"ok", "fuse", "cache", "ec", "dirty", "last"})
  /\ \A x \in LastPart \ L : t.last[x] = s.last[x]
  /\ s.cache_only = FALSE => t.dirty = s.dirty
  /\ s.dirty = TRUE => t.dirty = TRUE
  /\ DOMAIN s.cache \subseteq DOMAIN t.cache
  /\ \A f \in DOMAIN t.cache :
       f \notin F => f \in DOMAIN s.cache /\ t.cache[f] = s.cache[f]
  /\ \A f \in EcField \ Effect : f \notin F => t.ec[f] = s.ec[f]
  /\ ~Alive(s) => t.ec = s.ec
  /\ "rgb" \notin F /\ s.ec["rgb"] # 0 /\ s.ec["shown"] = s.ec["rgb"]
       => t.ec["shown"] = s.ec["shown"]
  /\ Coherent(s) /\ Alive(s) /\ s.cache_only = FALSE /\ t.ok = TRUE
       => Coherent(t)

LEMMA TouchesItself ==
  ASSUME NEW s, Sys(s), NEW F, NEW L
  PROVE  Touches(s, s, F, L)
BY DEF Touches, Progress, Alters, Sys

LEMMA TouchesMore ==
  ASSUME NEW s, NEW t, NEW F, NEW G, NEW L, NEW M,
         Touches(s, t, F, L), F \subseteq G, L \subseteq M
  PROVE  Touches(s, t, G, M)
BY DEF Touches

LEMMA TouchesChain ==
  ASSUME NEW s, NEW t, NEW u, NEW F, NEW L,
         Touches(s, t, F, L), Touches(t, u, F, L)
  PROVE  Touches(s, u, F, L)
<1>1. Progress(s, u)
  BY DEF Touches, Progress, Alters, Part
<1>2. Alters(s, u, {"ok", "fuse", "cache", "ec", "dirty", "last"})
  BY DEF Touches, Alters
<1>3. Alive(t) = Alive(s) /\ t.cache_only = s.cache_only
  BY DEF Touches, Alters, Part, Alive
<1>4. u.ok = TRUE => t.ok = TRUE
  BY DEF Touches, Progress, Sys
<1>5. Coherent(s) /\ Alive(s) /\ s.cache_only = FALSE /\ u.ok = TRUE => Coherent(u)
  BY <1>3, <1>4 DEF Touches
<1>6. "rgb" \notin F /\ s.ec["rgb"] # 0 /\ s.ec["shown"] = s.ec["rgb"]
        => u.ec["shown"] = s.ec["shown"]
  <2> "rgb" \in EcField \ Effect
    BY DEF EcField, Field, RegisterOf, Effect
  <2> QED
    BY DEF Touches
<1>7. QED
  BY <1>1, <1>2, <1>3, <1>5, <1>6 DEF Touches

\* The copies in struct uniwill_data are not the EC's.
LEMMA TouchesLast ==
  ASSUME NEW s, Sys(s), s.ok = TRUE, NEW x \in LastPart, NEW v
  PROVE  LET t == [s EXCEPT !.last[x] = v]
         IN /\ Touches(s, t, {}, {x}) /\ t.last[x] = v
            /\ t.ok = s.ok /\ t.ec = s.ec /\ t.cache = s.cache
<1> DEFINE l == [s.last EXCEPT ![x] = v]
           t == [s EXCEPT !.last = l]
<1>1. [s EXCEPT !.last[x] = v] = t
  OBVIOUS
<1>2. l = [y \in LastPart |-> l[y]] /\ l[x] = v
      /\ \A y \in LastPart \ {x} : l[y] = s.last[y]
  BY DEF Sys
<1> HIDE DEF l
<1>3. Alters(s, t, {"last"}) /\ t.last = l
  BY DEF Alters, Sys, Shaped, Part
<1> HIDE DEF t
<1>4. Alters(s, t, {"ok", "fuse", "cache", "ec", "dirty", "last"})
      /\ t.ok = s.ok /\ t.ec = s.ec /\ t.cache = s.cache /\ t.fuse = s.fuse
      /\ t.dirty = s.dirty /\ t.window = s.window /\ t.use_wmi = s.use_wmi
      /\ t.cache_only = s.cache_only
  BY <1>3 DEF Alters, Part
<1>5. Sys(t)
  BY <1>2, <1>3, <1>4 DEF Sys, Alters
<1>6. Progress(s, t)
  BY <1>4 DEF Progress
<1>7. Coherent(s) => Coherent(t)
  BY <1>4 DEF Coherent
<1>8. Touches(s, t, {}, {x})
  BY <1>2, <1>3, <1>4, <1>5, <1>6, <1>7 DEF Touches
<1>9. QED
  BY <1>1, <1>2, <1>3, <1>4, <1>8

\* Volatile fields are not cached.
LEMMA VolatileCoherent ==
  ASSUME NEW s, NEW t, NEW F, NEW L, Sys(s), Touches(s, t, F, L), Coherent(s),
         \A f \in F : f \in Field => RegisterOf[f] \in Volatile
  PROVE  Coherent(t)
<1> SUFFICES ASSUME NEW f \in DOMAIN t.cache
             PROVE  t.cache[f] = t.ec[f]
  BY DEF Coherent
<1>1. f \in Field /\ RegisterOf[f] \notin Volatile
  BY DEF Touches, Sys, Cache
<1>2. f \in EcField \ Effect /\ f \notin F
  BY <1>1, CommandLemma DEF EcField, Effect
<1>3. QED
  BY <1>2 DEF Touches, Coherent

LEMMA ReadTouches ==
  ASSUME NEW s, Sys(s), NEW r \in Register
  PROVE  Touches(s, Read(s, r), IF r \in Volatile THEN {} ELSE Fields[r], {})
<1> DEFINE t == Read(s, r)
<1>1. Reads(s, t, r)
  BY ReadLemma
<1> HIDE DEF t
<1>2. Alters(s, t, {"ok", "fuse", "cache", "ec", "dirty", "last"})
      /\ t.ec = s.ec /\ t.dirty = s.dirty /\ t.last = s.last
  BY <1>1 DEF Reads, Alters, Part
<1>3. Coherent(s) /\ Alive(s) => Coherent(t)
  BY <1>1, <1>2 DEF Reads, Coherent, OnWire
<1>4. QED
  BY <1>1, <1>2, <1>3 DEF Reads, Touches, t
-----------------------------------------------------------------------------
(* Writing                                                                 *)

\* Fields that do not simply take the value that is written to them.
Kept == Command \cup {"kbd_level", "kbd_off"}

Writes(s, t, r, new) ==
  /\ Sys(t) /\ Progress(s, t)
  /\ Alters(s, t, {"ok", "fuse", "cache", "ec", "dirty"})
  /\ s.cache_only = FALSE => t.dirty = s.dirty
  /\ s.dirty = TRUE => t.dirty = TRUE
  /\ t.cache = IF r \in Volatile THEN s.cache ELSE Over(new, s.cache)
  /\ t.ec = IF t.ok = TRUE /\ Alive(s) /\ s.cache_only = FALSE
            THEN EcWrite(s.ec, new) ELSE s.ec

LEMMA SysWrite ==
  ASSUME NEW s, NEW t, Sys(s), Cache(t.cache), t.ok \in BOOLEAN, t.fuse \in Nat,
         Alters(s, t, {"ok", "fuse", "cache", "ec", "dirty"}),
         t.dirty \in BOOLEAN, t.ec = [f \in EcField |-> t.ec[f]]
  PROVE  Sys(t)
BY DEF Sys, Alters, Part

LEMMA WriteLemma ==
  ASSUME NEW s, Sys(s), s.ok = TRUE, NEW r \in Register, NEW new,
         DOMAIN new = Fields[r]
  PROVE  Writes(s, Write(s, r, new), r, new)
<1> DEFINE c == IF r \in Volatile THEN s.cache ELSE Over(new, s.cache)
           cached == IF r \in Volatile THEN s ELSE [s EXCEPT !.cache = Over(new, s.cache)]
<1>1. Cache(c)
  <2>1. CASE r \in Volatile
    BY <2>1 DEF Sys
  <2>2. CASE r \notin Volatile
    <3> DEFINE d == Over(new, s.cache)
    <3>1. DOMAIN d = Fields[r] \cup DOMAIN s.cache /\ d = [f \in DOMAIN d |-> d[f]]
      BY DEF Over
    <3> HIDE DEF d
    <3>2. Cache(d)
      BY <2>2, <3>1, FieldsLemma DEF Sys, Cache
    <3>3. QED
      BY <2>2, <3>2 DEF d
  <2>3. QED
    BY <2>1, <2>2
<1>2. Alters(s, cached, {"cache"}) /\ cached.cache = c
  <2>1. CASE r \in Volatile
    BY <2>1 DEF Alters, Sys
  <2>2. CASE r \notin Volatile
    <3> DEFINE d == Over(new, s.cache)
    <3> HIDE DEF d
    <3> DEFINE t == [s EXCEPT !.cache = d]
    <3>1. Alters(s, t, {"cache"}) /\ t.cache = d
      BY DEF Alters, Sys, Shaped, Part
    <3>2. QED
      BY <2>2, <3>1 DEF d
  <2>3. QED
    BY <2>1, <2>2
<1> HIDE DEF c
<1>3. Write(s, r, new) = IF s.cache_only THEN [cached EXCEPT !.dirty = TRUE]
                         ELSE uniwill_ec_reg_write(cached, new)
  BY DEF Write
<1> HIDE DEF cached
<1>4. cached.ok = s.ok /\ cached.ec = s.ec /\ cached.dirty = s.dirty
      /\ cached.fuse = s.fuse /\ cached.last = s.last
      /\ cached.window = s.window /\ cached.use_wmi = s.use_wmi
      /\ cached.cache_only = s.cache_only
  BY <1>2 DEF Alters, Part
<1>5. Sys(cached)
  BY <1>1, <1>2, <1>4 DEF Sys, Alters
<1>6. CASE s.cache_only = TRUE
  <2> DEFINE t == [cached EXCEPT !.dirty = TRUE]
  <2>1. Write(s, r, new) = t
    BY <1>3, <1>6
  <2>2. Alters(cached, t, {"dirty"}) /\ t.dirty = TRUE /\ t.dirty \in BOOLEAN
    BY <1>5 DEF Alters, Sys, Shaped, Part
  <2> HIDE DEF t
  <2>3. Alters(s, t, {"ok", "fuse", "cache", "ec", "dirty"})
        /\ t.cache = c /\ t.ec = s.ec /\ t.ok = s.ok /\ t.fuse = s.fuse
    BY <1>2, <1>4, <2>2 DEF Alters, Part
  <2>4. Sys(t)
    BY <1>1, <2>2, <2>3, SysWrite DEF Sys
  <2>5. Progress(s, t)
    BY <2>3 DEF Progress
  <2>6. QED
    BY <1>6, <2>1, <2>2, <2>3, <2>4, <2>5 DEF Writes, c
<1>7. CASE s.cache_only = FALSE
  <2> DEFINE t == uniwill_ec_reg_write(cached, new)
  <2>1. Write(s, r, new) = t
    BY <1>3, <1>7
  <2>2. /\ Alters(cached, t, {"ok", "fuse", "ec"}) /\ Attempt(cached, t)
        /\ t.ec = IF t.ok = TRUE /\ Alive(cached) THEN EcWrite(cached.ec, new)
                  ELSE cached.ec
    BY <1>4, <1>5, RegWriteLemma
  <2> HIDE DEF t
  <2>3. Alters(s, t, {"ok", "fuse", "cache", "ec", "dirty"})
        /\ t.cache = c /\ t.dirty = s.dirty
    BY <1>2, <1>4, <2>2 DEF Alters, Part
  <2>4. t.ec = IF t.ok = TRUE /\ Alive(s) THEN EcWrite(s.ec, new) ELSE s.ec
    BY <1>4, <2>2 DEF Alive
  <2>5. t.ec = [f \in EcField |-> t.ec[f]]
    BY <2>4, EcWriteLemma DEF Sys
  <2>6. Sys(t)
    BY <1>1, <2>2, <2>3, <2>5, SysWrite DEF Sys, Attempt
  <2>7. Progress(s, t)
    BY <1>4, <1>7, <2>2 DEF Progress, Attempt
  <2>8. QED
    BY <1>7, <2>1, <2>3, <2>4, <2>6, <2>7 DEF Writes, c
<1>8. QED
  BY <1>6, <1>7 DEF Sys

\* The bits b of the register r are set, or the access has failed.
Puts(s, t, r, b) ==
  /\ Touches(s, t, IF r \in Volatile THEN DOMAIN b ELSE Fields[r], {})
  /\ t.ok = TRUE /\ r \notin Volatile
       => \A f \in DOMAIN b : f \in DOMAIN t.cache /\ t.cache[f] = b[f]
  /\ t.ok = TRUE /\ r \in Volatile /\ Alive(s) /\ s.cache_only = FALSE
       => \A f \in DOMAIN b \ Kept : t.ec[f] = b[f]
  /\ \A f \in DOMAIN s.cache :
       t.cache[f] = s.cache[f] \/ (f \in DOMAIN b /\ t.cache[f] = b[f])
  /\ \A f \in DOMAIN b : t.ec[f] = s.ec[f] \/ t.ec[f] = b[f]
  /\ t.ok = FALSE => t.ec = s.ec
  /\ \A f \in DOMAIN b :
       f \in DOMAIN t.cache /\ f \notin DOMAIN s.cache
         => t.cache[f] = b[f] \/ t.cache[f] = OnWire(s, f)

LEMMA EcWriteEffect ==
  ASSUME NEW s, Sys(s), NEW r \in Register, NEW new, DOMAIN new = Fields[r]
  PROVE  LET e == EcWrite(s.ec, new)
         IN /\ \A f \in Fields[r] \ Kept : e[f] = new[f]
            /\ \A f \in Fields[r] : e[f] = s.ec[f] \/ e[f] = new[f]
            /\ \A f \in EcField \ (Fields[r] \cup Effect) : e[f] = s.ec[f]
            /\ e["shown"] = s.ec["shown"] \/ e["shown"] = Applied(s.ec)
            /\ "apply_rgb" \in Fields[r] /\ new["apply_rgb"] = 1
                 => e["shown"] = Applied(s.ec)
<1>1. \A f \in Fields[r] : f \in EcField /\ f # "shown"
  BY FieldsLemma, ShownLemma DEF EcField
<1>2. DOMAIN s.ec = EcField /\ "shown" \in EcField
  BY DEF Sys, EcField
<1> DEFINE e == EcWrite(s.ec, new)
<1>3. \A f \in Fields[r] \ Kept : e[f] = new[f]
  BY <1>1, <1>2 DEF EcWrite, Kept
<1>4. \A f \in Fields[r] : e[f] = s.ec[f] \/ e[f] = new[f]
  <2> SUFFICES ASSUME NEW f \in Fields[r] PROVE e[f] = s.ec[f] \/ e[f] = new[f]
    OBVIOUS
  <2>1. CASE f \in Command
    BY <1>1, <1>2, <2>1 DEF EcWrite, Command
  <2>2. CASE f \in {"kbd_level", "kbd_off"}
    BY <1>1, <1>2, <2>2 DEF EcWrite, Command
  <2>3. QED
    BY <1>3, <2>1, <2>2 DEF Kept
<1>5. \A f \in EcField \ (Fields[r] \cup Effect) : e[f] = s.ec[f]
  BY <1>2 DEF EcWrite, Effect
<1>6. "shown" \notin DOMAIN new
  BY <1>1
<1>7. e["shown"] = s.ec["shown"] \/ e["shown"] = Applied(s.ec)
  BY <1>2, <1>6 DEF EcWrite
<1>8. "apply_rgb" \in Fields[r] /\ new["apply_rgb"] = 1 => e["shown"] = Applied(s.ec)
  BY <1>2, <1>6 DEF EcWrite
<1>9. QED
  BY <1>3, <1>4, <1>5, <1>7, <1>8

\* A write that leaves the other bits of the register as they are.
LEMMA WritePuts ==
  ASSUME NEW s, Sys(s), NEW r \in Register, NEW b, NEW new,
         DOMAIN new = Fields[r], DOMAIN b \subseteq Fields[r],
         s.ok = TRUE =>
           \A f \in Fields[r] : new[f] = IF f \in DOMAIN b THEN b[f] ELSE Seen(s, f),
         s.ok = TRUE /\ r \notin Volatile =>
           Fields[r] \ DOMAIN b \subseteq DOMAIN s.cache
  PROVE  LET t == Write(s, r, new)
         IN /\ Puts(s, t, r, b)
            /\ "apply_rgb" \in DOMAIN b /\ b["apply_rgb"] = 1 /\ Alive(s)
               /\ s.cache_only = FALSE /\ t.ok = TRUE
                 => t.ec["shown"] = Applied(s.ec)
<1> DEFINE t == Write(s, r, new)
           e == EcWrite(s.ec, new)
           F == IF r \in Volatile THEN DOMAIN b ELSE Fields[r]
<1>1. CASE s.ok = FALSE
  <2>1. t = s
    BY <1>1 DEF Write
  <2>2. Touches(s, t, F, {})
    BY <2>1, TouchesItself
  <2> HIDE DEF t
  <2>3. QED
    BY <1>1, <2>1, <2>2 DEF Puts, t
<1>2. CASE s.ok = TRUE
  <2>1. Writes(s, t, r, new)
    BY <1>2, WriteLemma
  <2>2. /\ \A f \in Fields[r] \ Kept : e[f] = new[f]
        /\ \A f \in Fields[r] : e[f] = s.ec[f] \/ e[f] = new[f]
        /\ \A f \in EcField \ (Fields[r] \cup Effect) : e[f] = s.ec[f]
        /\ e["shown"] = s.ec["shown"] \/ e["shown"] = Applied(s.ec)
        /\ "apply_rgb" \in Fields[r] /\ new["apply_rgb"] = 1
             => e["shown"] = Applied(s.ec)
    BY EcWriteEffect
  <2> HIDE DEF t, e
  <2>3. t.last = s.last /\ Alters(s, t, {"ok", "fuse", "cache", "ec", "dirty", "last"})
    BY <2>1 DEF Writes, Alters, Part
  <2>4. t.ec = s.ec \/ (t.ec = e /\ t.ok = TRUE /\ Alive(s))
    BY <2>1 DEF Writes, e
  <2>5. t.ok = TRUE /\ Alive(s) /\ s.cache_only = FALSE => t.ec = e
    BY <2>1 DEF Writes, e
  <2>6. \A f \in Fields[r] : f \in Field /\ RegisterOf[f] = r
    BY FieldsLemma
  <2>7. \A f \in DOMAIN s.cache : f \in Field /\ RegisterOf[f] \notin Volatile
    BY DEF Sys, Cache
  <2>8. CASE r \in Volatile
    <3>1. t.cache = s.cache
      BY <2>1, <2>8 DEF Writes
    <3>2. \A f \in Fields[r] : f \notin DOMAIN s.cache
      BY <2>6, <2>7, <2>8
    <3>3. \A f \in Fields[r] \ DOMAIN b : Alive(s) => new[f] = s.ec[f]
      BY <1>2, <3>2 DEF Seen, OnWire
    <3>4. \A f \in EcField \ Effect : f \notin F => t.ec[f] = s.ec[f]
      BY <2>2, <2>4, <2>8, <3>3
    <3>5. Coherent(s) => Coherent(t)
      <4> SUFFICES ASSUME Coherent(s), NEW f \in DOMAIN t.cache
                   PROVE  t.cache[f] = t.ec[f]
        BY DEF Coherent
      <4>1. f \in EcField \ Effect /\ f \notin F
        BY <2>7, <2>8, <3>1, <3>2, CommandLemma DEF EcField, Effect
      <4>2. QED
        BY <3>1, <3>4, <4>1 DEF Coherent
    <3>6. Applied(s.ec) = s.ec["rgb"] \/ s.ec["rgb"] = 0
      BY DEF Applied
    <3>7. Touches(s, t, F, {})
      BY <2>1, <2>2, <2>3, <2>4, <3>1, <3>4, <3>5, <3>6 DEF Touches, Writes
    <3>8. \A f \in DOMAIN b : t.ec[f] = s.ec[f] \/ t.ec[f] = b[f]
      BY <1>2, <2>2, <2>4
    <3>9. t.ok = TRUE /\ Alive(s) /\ s.cache_only = FALSE
            => \A f \in DOMAIN b \ Kept : t.ec[f] = b[f]
      BY <1>2, <2>2, <2>5
    <3>10. Puts(s, t, r, b)
      BY <2>4, <2>8, <3>1, <3>7, <3>8, <3>9 DEF Puts
    <3>11. QED
      BY <1>2, <2>2, <2>5, <3>10 DEF t
  <2>9. CASE r \notin Volatile
    <3>1. /\ DOMAIN t.cache = Fields[r] \cup DOMAIN s.cache
          /\ \A f \in Fields[r] : t.cache[f] = new[f]
          /\ \A f \in DOMAIN s.cache \ Fields[r] : t.cache[f] = s.cache[f]
      BY <2>1, <2>9 DEF Writes, Over
    <3>2. \A f \in Fields[r] : f \in EcField /\ f \notin Kept \cup Effect
      BY <2>6, <2>9, CommandLemma DEF EcField, Kept, Effect
    <3>3. \A f \in DOMAIN s.cache : f \in EcField /\ f \notin Effect
      BY <2>7, CommandLemma DEF EcField, Effect
    <3>4. \A f \in EcField \ Effect : f \notin F => t.ec[f] = s.ec[f]
      BY <2>2, <2>4, <2>9
    <3>5. Coherent(s) /\ Alive(s) /\ s.cache_only = FALSE /\ t.ok = TRUE => Coherent(t)
      BY <2>2, <2>5, <3>1, <3>2, <3>3 DEF Coherent
    <3>6. Applied(s.ec) = s.ec["rgb"] \/ s.ec["rgb"] = 0
      BY DEF Applied
    <3>7. Touches(s, t, F, {})
      BY <2>1, <2>2, <2>3, <2>4, <2>9, <3>1, <3>4, <3>5, <3>6 DEF Touches, Writes
    <3>8. \A f \in DOMAIN b : t.ec[f] = s.ec[f] \/ t.ec[f] = b[f]
      BY <1>2, <2>2, <2>4
    <3>9. \A f \in DOMAIN b : f \in DOMAIN t.cache /\ t.cache[f] = b[f]
      BY <1>2, <3>1
    <3>10. \A f \in DOMAIN s.cache :
             t.cache[f] = s.cache[f] \/ (f \in DOMAIN b /\ t.cache[f] = b[f])
      BY <1>2, <3>1 DEF Seen
    <3>11. Puts(s, t, r, b)
      BY <2>4, <2>9, <3>7, <3>8, <3>9, <3>10 DEF Puts
    <3>12. QED
      BY <1>2, <2>2, <2>5, <3>11 DEF t
  <2>10. QED
    BY <2>8, <2>9
<1>3. QED
  BY <1>1, <1>2 DEF Sys

\* A write of all fields of a register.
LEMMA WholePuts ==
  ASSUME NEW s, Sys(s), NEW r \in Register, NEW b, DOMAIN b = Fields[r]
  PROVE  Puts(s, Write(s, r, b), r, b)
BY WritePuts

\* A read before the write is not seen from outside.
LEMMA ReadPuts ==
  ASSUME NEW s, Sys(s), NEW r \in Register, NEW b, DOMAIN b \subseteq Fields[r],
         NEW t, Puts(Read(s, r), t, r, b)
  PROVE  Puts(s, t, r, b)
<1> DEFINE got == Read(s, r)
           F == IF r \in Volatile THEN DOMAIN b ELSE Fields[r]
           G == IF r \in Volatile THEN {} ELSE Fields[r]
<1>1. Reads(s, got, r) /\ Touches(s, got, G, {})
  BY ReadLemma, ReadTouches
<1>2. Puts(got, t, r, b)
  OBVIOUS
<1> HIDE DEF got
<1>3. Touches(s, got, F, {})
  BY <1>1, TouchesMore, G \subseteq F
<1>4. Touches(s, t, F, {})
  BY <1>2, <1>3, TouchesChain DEF Puts
<1>5. Alive(got) = Alive(s) /\ got.cache_only = s.cache_only /\ got.ec = s.ec
  BY <1>1 DEF Reads, Alters, Part, Alive
<1>6. \A f \in DOMAIN s.cache : f \in DOMAIN got.cache /\ got.cache[f] = s.cache[f]
  BY <1>1 DEF Reads
<1>7. \A f : OnWire(got, f) = OnWire(s, f)
  BY <1>5 DEF OnWire
<1>8. \A f \in DOMAIN got.cache : f \notin DOMAIN s.cache => got.cache[f] = OnWire(s, f)
  BY <1>1 DEF Reads
<1>9. QED
  BY <1>2, <1>4, <1>5, <1>6, <1>7, <1>8 DEF Puts

LEMMA MergedLemma ==
  ASSUME NEW s, Sys(s), NEW r \in Register, NEW b, DOMAIN b \subseteq Fields[r]
  PROVE  LET got == Read(s, r)
             new == Merged(got, r, b)
         IN /\ Sys(got) /\ DOMAIN new = Fields[r]
            /\ \A f \in Fields[r] : new[f] = IF f \in DOMAIN b THEN b[f] ELSE Seen(got, f)
            /\ got.ok = TRUE /\ r \notin Volatile => Fields[r] \subseteq DOMAIN got.cache
            /\ Alive(got) = Alive(s) /\ got.ec = s.ec /\ got.cache_only = s.cache_only
<1> DEFINE got == Read(s, r)
<1>1. Reads(s, got, r)
  BY ReadLemma
<1> HIDE DEF got
<1>2. Alive(got) = Alive(s) /\ got.ec = s.ec /\ got.cache_only = s.cache_only
  BY <1>1 DEF Reads, Alters, Part, Alive
<1>3. DOMAIN Merged(got, r, b) = Fields[r]
      /\ \A f \in Fields[r] :
           Merged(got, r, b)[f] = IF f \in DOMAIN b THEN b[f] ELSE Seen(got, f)
  BY DEF Merged, Over
<1>4. QED
  BY <1>1, <1>2, <1>3 DEF Reads, got

\* Some bits of a register that has just been read are written.
LEMMA MergedPuts ==
  ASSUME NEW s, Sys(s), NEW r \in Register, NEW b, DOMAIN b \subseteq Fields[r]
  PROVE  Puts(Read(s, r), Write(Read(s, r), r, Merged(Read(s, r), r, b)), r, b)
<1> DEFINE got == Read(s, r)
           new == Merged(got, r, b)
<1>1. /\ Sys(got) /\ DOMAIN new = Fields[r]
      /\ \A f \in Fields[r] : new[f] = IF f \in DOMAIN b THEN b[f] ELSE Seen(got, f)
      /\ got.ok = TRUE /\ r \notin Volatile => Fields[r] \subseteq DOMAIN got.cache
      /\ Alive(got) = Alive(s) /\ got.ec = s.ec /\ got.cache_only = s.cache_only
  BY MergedLemma
<1> HIDE DEF new
<1> HIDE DEF got
<1>2. Puts(got, Write(got, r, new), r, b)
  BY <1>1, WritePuts
<1>3. QED
  BY <1>2 DEF got, new

LEMMA WriteBitsPuts ==
  ASSUME NEW s, Sys(s), NEW r \in Register, NEW b, DOMAIN b \subseteq Fields[r]
  PROVE  LET t == WriteBits(s, r, b)
         IN /\ Puts(s, t, r, b)
            /\ "apply_rgb" \in DOMAIN b /\ b["apply_rgb"] = 1 /\ Alive(s)
               /\ s.cache_only = FALSE /\ t.ok = TRUE
                 => t.ec["shown"] = Applied(s.ec)
<1> DEFINE got == Read(s, r)
           new == Merged(got, r, b)
           t == Write(got, r, new)
<1>1. /\ Sys(got) /\ DOMAIN new = Fields[r]
      /\ \A f \in Fields[r] : new[f] = IF f \in DOMAIN b THEN b[f] ELSE Seen(got, f)
      /\ got.ok = TRUE /\ r \notin Volatile => Fields[r] \subseteq DOMAIN got.cache
      /\ Alive(got) = Alive(s) /\ got.ec = s.ec /\ got.cache_only = s.cache_only
  BY MergedLemma
<1>2. WriteBits(s, r, b) = t
  BY DEF WriteBits
<1> HIDE DEF new
<1>3. /\ Puts(got, t, r, b)
      /\ "apply_rgb" \in DOMAIN b /\ b["apply_rgb"] = 1 /\ Alive(got)
         /\ got.cache_only = FALSE /\ t.ok = TRUE
           => t.ec["shown"] = Applied(got.ec)
  <2> HIDE DEF got
  <2> QED
    BY <1>1, WritePuts
<1> HIDE DEF t
<1>4. Puts(s, t, r, b)
  BY <1>3, ReadPuts
<1>5. QED
  BY <1>1, <1>2, <1>3, <1>4

LEMMA UpdateBitsPuts ==
  ASSUME NEW s, Sys(s), NEW r \in Register, NEW b, DOMAIN b \subseteq Fields[r]
  PROVE  Puts(s, UpdateBits(s, r, b), r, b)
<1> DEFINE got == Read(s, r)
           new == Merged(got, r, b)
           t == Write(got, r, new)
<1>1. /\ Sys(got) /\ DOMAIN new = Fields[r]
      /\ \A f \in Fields[r] : new[f] = IF f \in DOMAIN b THEN b[f] ELSE Seen(got, f)
      /\ got.ok = TRUE /\ r \notin Volatile => Fields[r] \subseteq DOMAIN got.cache
      /\ Alive(got) = Alive(s) /\ got.ec = s.ec /\ got.cache_only = s.cache_only
  BY MergedLemma
<1>2. CASE \A f \in DOMAIN b : Seen(got, f) = b[f]
  <2>1. UpdateBits(s, r, b) = got
    BY <1>2 DEF UpdateBits
  <2> HIDE DEF new
  <2>2. Puts(got, got, r, b)
    <3> HIDE DEF got
    <3>1. Touches(got, got, IF r \in Volatile THEN DOMAIN b ELSE Fields[r], {})
      BY <1>1, TouchesItself
    <3>2. r \in Volatile => \A f \in Fields[r] : f \notin DOMAIN got.cache
      BY <1>1, FieldsLemma DEF Sys, Cache
    <3>3. r \in Volatile /\ Alive(got) => \A f \in DOMAIN b : got.ec[f] = b[f]
      BY <1>2, <3>2 DEF Seen, OnWire
    <3>4. got.ok = TRUE /\ r \notin Volatile
            => \A f \in DOMAIN b : f \in DOMAIN got.cache /\ got.cache[f] = b[f]
      BY <1>1, <1>2 DEF Seen
    <3>5. QED
      BY <3>1, <3>3, <3>4 DEF Puts
  <2>3. QED
    BY <2>1, <2>2, ReadPuts
<1>3. CASE ~ \A f \in DOMAIN b : Seen(got, f) = b[f]
  <2>1. UpdateBits(s, r, b) = t
    BY <1>3 DEF UpdateBits
  <2> HIDE DEF new
  <2>2. Puts(got, t, r, b)
    <3> HIDE DEF got
    <3> QED
      BY <1>1, WritePuts
  <2> HIDE DEF t
  <2>3. QED
    BY <2>1, <2>2, ReadPuts
<1>4. QED
  BY <1>2, <1>3

\* The EC has the bits b, or an access has failed.
Sent(t, b) == t.ok = TRUE => \A f \in DOMAIN b : t.ec[f] = b[f]

\* A bit that the cache knows to be another is sent.
LEMMA UpdateBitsSent ==
  ASSUME NEW s, Sys(s), s.ok = TRUE, NEW r \in Register, r \notin Volatile,
         NEW b, DOMAIN b \subseteq Fields[r], Alive(s), s.cache_only = FALSE,
         NEW g \in DOMAIN b, g \in DOMAIN s.cache, s.cache[g] # b[g]
  PROVE  Sent(UpdateBits(s, r, b), b)
<1> DEFINE new == Merged(s, r, b)
           t == Write(s, r, new)
<1>1. Fields[r] \subseteq DOMAIN s.cache
  BY FieldsLemma DEF Sys, Cache
<1>2. Read(s, r) = s
  BY <1>1 DEF Read
<1>3. UpdateBits(s, r, b) = t
  BY <1>2 DEF UpdateBits, Seen
<1>4. DOMAIN new = Fields[r]
      /\ \A f \in DOMAIN b : new[f] = b[f]
  BY DEF Merged, Over
<1> HIDE DEF new
<1>5. Writes(s, t, r, new)
  BY <1>4, WriteLemma
<1>6. \A f \in Fields[r] \ Kept : EcWrite(s.ec, new)[f] = new[f]
  BY <1>4, EcWriteEffect
<1>7. \A f \in Fields[r] : f \notin Kept
  BY FieldsLemma, CommandLemma DEF Kept
<1> HIDE DEF t
<1>8. t.ok = TRUE => t.ec = EcWrite(s.ec, new)
  BY <1>5 DEF Writes
<1>9. QED
  BY <1>3, <1>4, <1>6, <1>7, <1>8 DEF Sent, t

-----------------------------------------------------------------------------
(* The transports                                                          *)

\* A transport is found that answers, or the check fails.
LEMMA TransportLemma ==
  ASSUME NEW s, Sys(s), NEW fallback \in BOOLEAN, fallback = FALSE => s.window
  PROVE  LET t == uniwill_ec_check_transport(s, fallback)
         IN /\ Sys(t) /\ Alters(s, t, {"ok", "fuse", "use_wmi"})
            /\ s.ok = FALSE => t = s
            /\ s.fuse = 0 => t.fuse = 0
            /\ t.ok = TRUE => Alive(t)
            /\ Alive(s) => Alive(t)
<1> DEFINE direct == uniwill_ec_reg_read(s)
           again == [direct EXCEPT !.ok = TRUE]
           mailbox == uniwill_ec_wmi_xfer(again)
           wmi == [mailbox EXCEPT !.use_wmi = TRUE]
           none == [mailbox EXCEPT !.ok = FALSE]
           t == uniwill_ec_check_transport(s, fallback)
<1>1. CASE s.ok = FALSE \/ fallback = FALSE \/ s.use_wmi = TRUE
  <2>1. t = s
    BY <1>1 DEF uniwill_ec_check_transport
  <2> HIDE DEF t
  <2>2. Alters(s, s, {"ok", "fuse", "use_wmi"})
    BY DEF Alters, Sys
  <2>3. s.ok = TRUE => Alive(s)
    BY <1>1 DEF Alive
  <2>4. QED
    BY <2>1, <2>2, <2>3 DEF t
<1>2. CASE s.ok = TRUE /\ fallback = TRUE /\ s.use_wmi = FALSE
  <2>1. t = IF direct.ok /\ OnWire(s, "project") # 255 THEN direct
            ELSE IF mailbox.ok /\ s.ec["project"] # 255 THEN wmi ELSE none
    BY <1>2 DEF uniwill_ec_check_transport
  <2> HIDE DEF t
  <2>2. Alters(s, direct, {"ok", "fuse"}) /\ Attempt(s, direct)
    BY RegReadLemma
  <2> HIDE DEF direct
  <2>3. Sys(direct)
    BY <2>2 DEF Sys, Alters, Part, Attempt
  <2>4. Alters(direct, again, {"ok"}) /\ again.ok = TRUE /\ again.ok \in BOOLEAN
    BY <2>3 DEF Alters, Sys, Shaped, Part
  <2> HIDE DEF again
  <2>5. Sys(again)
    BY <2>3, <2>4 DEF Sys, Alters, Part
  <2>6. Alters(again, mailbox, {"ok", "fuse"}) /\ Attempt(again, mailbox)
    BY <2>5, RegReadLemma DEF uniwill_ec_wmi_xfer
  <2> HIDE DEF mailbox
  <2>7. Sys(mailbox)
    BY <2>5, <2>6 DEF Sys, Alters, Part, Attempt
  <2>8. Alters(mailbox, wmi, {"use_wmi"}) /\ wmi.use_wmi = TRUE
        /\ wmi.use_wmi \in BOOLEAN
    BY <2>7 DEF Alters, Sys, Shaped, Part
  <2>9. Alters(mailbox, none, {"ok"}) /\ none.ok = FALSE /\ none.ok \in BOOLEAN
    BY <2>7 DEF Alters, Sys, Shaped, Part
  <2> HIDE DEF wmi, none
  <2>10. Sys(wmi) /\ Alters(s, wmi, {"ok", "fuse", "use_wmi"})
         /\ (s.fuse = 0 => wmi.fuse = 0) /\ Alive(wmi)
    BY <2>2, <2>4, <2>6, <2>7, <2>8 DEF Sys, Alters, Part, Attempt, Alive
  <2>11. Sys(none) /\ Alters(s, none, {"ok", "fuse", "use_wmi"})
         /\ (s.fuse = 0 => none.fuse = 0) /\ none.ok = FALSE
         /\ none.window = s.window /\ none.use_wmi = s.use_wmi
    BY <2>2, <2>4, <2>6, <2>7, <2>9 DEF Sys, Alters, Part, Attempt
  <2>12. Alters(s, direct, {"ok", "fuse", "use_wmi"})
         /\ (s.fuse = 0 => direct.fuse = 0)
         /\ direct.window = s.window /\ direct.use_wmi = s.use_wmi
    BY <2>2 DEF Alters, Part, Attempt
  <2>13. OnWire(s, "project") # 255 => Alive(s)
    BY DEF OnWire, Ones, Field, RegisterOf
  <2>14. CASE direct.ok /\ OnWire(s, "project") # 255
    BY <1>2, <2>1, <2>3, <2>12, <2>13, <2>14 DEF Alive, t
  <2>15. CASE ~(direct.ok /\ OnWire(s, "project") # 255)
              /\ mailbox.ok /\ s.ec["project"] # 255
    BY <1>2, <2>1, <2>10, <2>15 DEF t
  <2>16. CASE ~(direct.ok /\ OnWire(s, "project") # 255)
              /\ ~(mailbox.ok /\ s.ec["project"] # 255)
    BY <1>2, <2>1, <2>11, <2>16 DEF Alive, t
  <2>17. QED
    BY <2>14, <2>15, <2>16
<1>3. QED
  BY <1>1, <1>2 DEF Sys
-----------------------------------------------------------------------------
(* Synchronising the EC with the cache                                     *)

Synced(s, t) ==
  /\ Sys(t) /\ Alters(s, t, {"ok", "fuse", "dirty", "ec"})
  /\ s.fuse = 0 => t.fuse = 0
  /\ ~Alive(s) => t.ec = s.ec
  /\ \A f \in EcField : f \notin DOMAIN s.cache => t.ec[f] = s.ec[f]
  /\ t.ok = TRUE /\ Alive(s)
       => \A f \in DOMAIN s.cache :
            f \notin {"project", "has_gpu"} => t.ec[f] = s.cache[f]
  /\ \A f \in {"project", "has_gpu"} : t.ec[f] = s.ec[f]
  /\ \A f \in DOMAIN s.cache : t.ec[f] = s.ec[f] \/ t.ec[f] = s.cache[f]

\* Every cached register but those of the identity can be written.
LEMMA WriteableLemma ==
  ASSUME NEW f \in Field, RegisterOf[f] \notin Volatile
  PROVE  IF f \in {"project", "has_gpu"}
         THEN \A i \in DOMAIN Writeable : Writeable[i] # RegisterOf[f]
         ELSE \E i \in DOMAIN Writeable : Writeable[i] = RegisterOf[f]
<1>1. DOMAIN Writeable = 1..19
  BY DEF Writeable
<1>2. /\ Writeable[1] = "OEM_9" /\ Writeable[2] = "AP_OEM"
      /\ Writeable[3] = "CTGP_CTRL" /\ Writeable[4] = "CTGP_OFFSET"
      /\ Writeable[5] = "TPP_OFFSET" /\ Writeable[6] = "DB_OFFSET"
      /\ Writeable[7] = "LIGHTBAR_AC" /\ Writeable[8] = "LIGHTBAR_AC_RGB"
      /\ Writeable[9] = "BIOS_OEM" /\ Writeable[10] = "FAN_CTRL"
      /\ Writeable[11] = "TRIGGER" /\ Writeable[12] = "RGB"
      /\ Writeable[13] = "BIOS_OEM_2" /\ Writeable[14] = "KBD_STATUS"
      /\ Writeable[15] = "OEM_4" /\ Writeable[16] = "CHARGE_CTRL"
      /\ Writeable[17] = "USB_C" /\ Writeable[18] = "LIGHTBAR_BAT"
      /\ Writeable[19] = "LIGHTBAR_BAT_RGB"
  BY DEF Writeable
<1>3. CASE f \in {"project", "has_gpu"}
  <2>1. RegisterOf[f] \in {"PROJECT_ID", "SYSTEM_ID"}
    BY <1>3 DEF RegisterOf
  <2>2. \A i \in DOMAIN Writeable : Writeable[i] \notin {"PROJECT_ID", "SYSTEM_ID"}
    BY <1>1, <1>2
  <2>3. QED
    BY <1>3, <2>1, <2>2
<1>4. CASE f \notin {"project", "has_gpu"}
  <2>1. RegisterOf[f] \in {"OEM_9", "AP_OEM", "CTGP_CTRL", "CTGP_OFFSET",
          "TPP_OFFSET", "DB_OFFSET", "LIGHTBAR_AC", "LIGHTBAR_AC_RGB", "RGB",
          "BIOS_OEM_2", "LIGHTBAR_BAT", "LIGHTBAR_BAT_RGB"}
    BY <1>4 DEF RegisterOf, Field, Volatile
  <2>2. \E i \in 1..19 : Writeable[i] = RegisterOf[f]
    BY <1>2, <2>1
  <2>3. QED
    BY <1>1, <1>4, <2>2
<1>5. QED
  BY <1>3, <1>4

LEMMA SyncLemma ==
  ASSUME NEW s, Sys(s), s.ok = TRUE, s.dirty = TRUE
  PROVE  Synced(s, regcache_sync(s))
<1> DEFINE cached == {i \in DOMAIN Writeable : Fields[Writeable[i]] \subseteq DOMAIN s.cache}
           sent == {i \in cached :
                      s.fuse = 0 \/ Cardinality({j \in cached : j <= i}) < s.fuse}
           new == [f \in UNION {Fields[Writeable[i]] : i \in sent} |-> s.cache[f]]
           all == (sent = cached)
           rest == (sent # cached)
           left == IF sent = cached THEN Larger(s.fuse - Cardinality(cached), 0) ELSE 0
           e == IF Alive(s) THEN EcWrite(s.ec, new) ELSE s.ec
           t == [s EXCEPT !.ok = all, !.dirty = rest, !.fuse = left, !.ec = e]
<1>1. regcache_sync(s) = t
  BY DEF regcache_sync
<1>2. Cardinality(cached) \in Nat
  <2>1. DOMAIN Writeable = 1..19
    BY DEF Writeable
  <2>2. IsFiniteSet(1..19)
    BY 1 \in Int, 19 \in Int, FS_Interval
  <2>3. cached \subseteq 1..19
    BY <2>1
  <2>4. IsFiniteSet(cached)
    BY <2>2, <2>3, FS_Subset
  <2>5. QED
    BY <2>4, FS_CardinalityType
<1>3. s.fuse = 0 => left = 0
  BY <1>2 DEF Larger
<1>4. left \in Nat
  BY <1>2 DEF Larger, Sys
<1>5. \A i \in cached : Writeable[i] \in Register
  <2>1. DOMAIN Writeable = 1..19
    BY DEF Writeable
  <2>2. \A i \in 1..19 : Writeable[i] \in
          {"OEM_9", "AP_OEM", "CTGP_CTRL", "CTGP_OFFSET", "TPP_OFFSET",
           "DB_OFFSET", "LIGHTBAR_AC", "LIGHTBAR_AC_RGB", "BIOS_OEM", "FAN_CTRL",
           "TRIGGER", "RGB", "BIOS_OEM_2", "KBD_STATUS", "OEM_4", "CHARGE_CTRL",
           "USB_C", "LIGHTBAR_BAT", "LIGHTBAR_BAT_RGB"}
    BY DEF Writeable
  <2>3. {"OEM_9", "AP_OEM", "CTGP_CTRL", "CTGP_OFFSET", "TPP_OFFSET",
         "DB_OFFSET", "LIGHTBAR_AC", "LIGHTBAR_AC_RGB", "BIOS_OEM", "FAN_CTRL",
         "TRIGGER", "RGB", "BIOS_OEM_2", "KBD_STATUS", "OEM_4", "CHARGE_CTRL",
         "USB_C", "LIGHTBAR_BAT", "LIGHTBAR_BAT_RGB"} \subseteq Register
    BY DEF Register, Field, RegisterOf
  <2>4. QED
    BY <2>1, <2>2, <2>3
<1>6. \A f \in DOMAIN new : f \in DOMAIN s.cache /\ new[f] = s.cache[f]
  OBVIOUS
<1>7. \A f \in DOMAIN new : f \notin {"project", "has_gpu"}
  <2> SUFFICES ASSUME NEW f \in DOMAIN new, f \in {"project", "has_gpu"}
               PROVE  FALSE
    OBVIOUS
  <2>1. PICK i \in sent : f \in Fields[Writeable[i]]
    OBVIOUS
  <2>2. f \in Field /\ RegisterOf[f] = Writeable[i] /\ RegisterOf[f] \notin Volatile
    BY <1>5, <1>6, <2>1, FieldsLemma DEF Sys, Cache
  <2>3. QED
    BY <2>1, <2>2, WriteableLemma
<1>8. sent = cached => \A f \in DOMAIN s.cache :
                         f \notin {"project", "has_gpu"} => f \in DOMAIN new
  <2> SUFFICES ASSUME sent = cached, NEW f \in DOMAIN s.cache,
                      f \notin {"project", "has_gpu"}
               PROVE  f \in DOMAIN new
    OBVIOUS
  <2>1. f \in Field /\ RegisterOf[f] \notin Volatile
    BY DEF Sys, Cache
  <2>2. PICK i \in DOMAIN Writeable : Writeable[i] = RegisterOf[f]
    BY <2>1, WriteableLemma
  <2>3. f \in Fields[Writeable[i]]
    BY <2>1, <2>2, FieldsLemma
  <2>4. Fields[Writeable[i]] \subseteq DOMAIN s.cache
    BY <2>1, <2>2, FieldsLemma DEF Sys, Cache
  <2>5. i \in sent
    BY <2>4
  <2>6. QED
    BY <2>3, <2>5
<1>9. \A f \in DOMAIN s.cache : f \in EcField /\ f \notin Kept \cup Effect
  BY CommandLemma DEF Sys, Cache, EcField, Kept, Effect
<1>10. all \in BOOLEAN /\ rest \in BOOLEAN /\ (all = TRUE => sent = cached)
  OBVIOUS
<1> HIDE DEF sent, cached, new, all, rest, left
<1>11. DOMAIN s.ec = EcField
  BY DEF Sys
<1>12. /\ \A f \in DOMAIN new : EcWrite(s.ec, new)[f] = new[f]
       /\ \A f \in EcField \ DOMAIN new : EcWrite(s.ec, new)[f] = s.ec[f]
  <2>1. \A f \in DOMAIN new : f \in EcField \ Kept
    BY <1>6, <1>9
  <2>2. \A c \in {"super_flip", "boost_flip", "apply_rgb", "kbd_apply"} : c \notin DOMAIN new
    BY <2>1 DEF Kept, Command
  <2>3. \A f \in DOMAIN new : EcWrite(s.ec, new)[f] = new[f]
    BY <1>11, <2>1 DEF EcWrite, Kept
  <2>4. \A f \in EcField \ DOMAIN new : EcWrite(s.ec, new)[f] = s.ec[f]
    BY <1>11, <2>2 DEF EcWrite
  <2>5. QED
    BY <2>3, <2>4
<1>13. e = [f \in EcField |-> e[f]]
  BY EcWriteLemma DEF Sys
<1> HIDE DEF e
<1>14. Alters(s, t, {"ok", "fuse", "dirty", "ec"}) /\ t.ok = all /\ t.dirty = rest
       /\ t.fuse = left /\ t.ec = e
  BY DEF Alters, Sys, Shaped, Part
<1> HIDE DEF t
<1>15. t.cache = s.cache /\ t.last = s.last /\ t.window = s.window
       /\ t.use_wmi = s.use_wmi /\ t.cache_only = s.cache_only
  BY <1>14 DEF Alters, Part
<1>16. Sys(t)
  BY <1>4, <1>10, <1>13, <1>14, <1>15 DEF Sys, Alters
<1>17. ~Alive(s) => e = s.ec
  BY DEF e
<1>18. \A f \in EcField : f \notin DOMAIN s.cache => e[f] = s.ec[f]
  BY <1>6, <1>12 DEF e
<1>19. \A f \in {"project", "has_gpu"} : e[f] = s.ec[f]
  <2>1. {"project", "has_gpu"} \subseteq EcField
    BY DEF EcField, Field, RegisterOf
  <2>2. QED
    BY <1>7, <1>12, <2>1 DEF e
<1>20. all = TRUE /\ Alive(s)
         => \A f \in DOMAIN s.cache :
              f \notin {"project", "has_gpu"} => e[f] = s.cache[f]
  BY <1>6, <1>8, <1>10, <1>12 DEF e
<1>21. \A f \in DOMAIN s.cache : e[f] = s.ec[f] \/ e[f] = s.cache[f]
  BY <1>6, <1>9, <1>12 DEF e
<1>22. QED
  BY <1>1, <1>3, <1>14, <1>16, <1>17, <1>18, <1>19, <1>20, <1>21 DEF Synced
=============================================================================
