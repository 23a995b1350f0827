---------------------------- MODULE MemoryProofs ----------------------------
(***************************************************************************)
(* Pages are kept apart and accounted for, whatever the number of slots    *)
(* and pages; and a kernel with three pages for every slot never fails the *)
(* assertions of alloc_new_process.                                        *)
(*                                                                         *)
(* All of it as long as no collected process is scheduled: dead jobs that  *)
(* fg has queued may be, but before their pages have been given back.      *)
(***************************************************************************)
EXTENDS Memory, FiniteSetTheorems, SequenceTheorems, TLAPS

\* schedule finds no slot on the ready queue whose process has been collected
NoneCollectedQueued == "UNUSED" \notin Queued

\* A process has three different pages; a failed fork has one.
PagesWhole ==
    /\ \A s \in Held : /\ map[s] \in Page
                       /\ table[map[s]].base \in Page \ {map[s]}
                       /\ table[map[s]].ext \in Page \ {map[s], table[map[s]].base}
    /\ \A s \in Lost : env[s] \in Page

\* The tables in use are those of a process, which lives during a hang-up.
LoadedHeld ==
    /\ loaded # 0 => loaded \in Held
    /\ hup # 0 => /\ hup \in 2 .. NProc /\ ~ halted
                   /\ loaded # 0 /\ state[loaded] = "READY"

\* The inductive invariant.
MemoryInv ==
    /\ TypeOK /\ PagesApart /\ PagesWhole /\ LoadedHeld /\ NoPageLost /\ HaltsOnlyWhenFull

-----------------------------------------------------------------------------
(***************************************************************************)
(* The free list.                                                          *)
(***************************************************************************)
\* kalloc shortens the list from the front.
LEMMA RestFacts ==
  ASSUME TypeOK, NEW n \in 0 .. Len(free)
  PROVE  /\ Rest(n) \in Seq(Page) /\ Len(Rest(n)) = Len(free) - n
         /\ \A i \in 1 .. Len(free) - n : Rest(n)[i] = free[i + n]
  BY DEF TypeOK, Rest

\* kfree lengthens it at the front.
LEMMA KfreeFacts ==
  ASSUME NEW f \in Seq(Page), NEW pg \in Page
  PROVE  /\ Kfree(f, pg) \in Seq(Page) /\ Len(Kfree(f, pg)) = Len(f) + 1
         /\ Kfree(f, pg)[1] = pg
         /\ \A i \in 1 .. Len(f) : Kfree(f, pg)[i + 1] = f[i]
  <1>1. Kfree(f, pg) = <<pg>> \o f
    BY MemoryAssumption DEF Kfree, Page, None
  <1>2. <<pg>> \in Seq(Page) /\ Len(<<pg>>) = 1 /\ <<pg>>[1] = pg
    OBVIOUS
  <1>3. /\ <<pg>> \o f \in Seq(Page) /\ Len(<<pg>> \o f) = 1 + Len(f)
        /\ \A i \in 1 .. 1 + Len(f) : (<<pg>> \o f)[i] = IF i <= 1 THEN <<pg>>[i] ELSE f[i - 1]
    BY <1>2, ConcatProperties
  <1> QED
    BY <1>1, <1>2, <1>3, LenProperties

\* free_uvm of full tables gives back three pages.
LEMMA FreeUvmFacts ==
  ASSUME NEW f \in Seq(Page), NEW t, NEW m \in Page, t[m].base \in Page, t[m].ext \in Page
  PROVE  /\ FreeUvm(f, t, m) \in Seq(Page) /\ Len(FreeUvm(f, t, m)) = Len(f) + 3
         /\ FreeUvm(f, t, m)[1] = m
         /\ FreeUvm(f, t, m)[2] = t[m].ext
         /\ FreeUvm(f, t, m)[3] = t[m].base
         /\ \A i \in 1 .. Len(f) : FreeUvm(f, t, m)[i + 3] = f[i]
  <1> DEFINE g == Kfree(f, t[m].base)
             h == Kfree(g, t[m].ext)
  <1>1. /\ g \in Seq(Page) /\ Len(g) = Len(f) + 1 /\ g[1] = t[m].base
        /\ \A i \in 1 .. Len(f) : g[i + 1] = f[i]
    BY KfreeFacts
  <1> HIDE DEF g
  <1>2. /\ h \in Seq(Page) /\ Len(h) = Len(g) + 1 /\ h[1] = t[m].ext
        /\ \A i \in 1 .. Len(g) : h[i + 1] = g[i]
    BY <1>1, KfreeFacts
  <1> HIDE DEF h
  <1>3. /\ Kfree(h, m) \in Seq(Page) /\ Len(Kfree(h, m)) = Len(h) + 1 /\ Kfree(h, m)[1] = m
        /\ \A i \in 1 .. Len(h) : Kfree(h, m)[i + 1] = h[i]
    BY <1>2, KfreeFacts
  <1>4. FreeUvm(f, t, m) = Kfree(h, m)
    BY DEF FreeUvm, h, g
  <1>5. \A i \in 1 .. Len(f) : Kfree(h, m)[i + 3] = f[i]
    <2> TAKE i \in 1 .. Len(f)
    <2>1. h[i + 2] = g[i + 1] /\ Kfree(h, m)[i + 3] = h[i + 2]
      <3>1. i + 1 \in 1 .. Len(g) /\ i + 2 \in 1 .. Len(h)
        BY <1>1, <1>2
      <3>2. h[(i + 1) + 1] = g[i + 1] /\ Kfree(h, m)[(i + 2) + 1] = h[i + 2]
        BY <3>1, <1>2, <1>3
      <3> QED
        BY <3>2
    <2> QED
      BY <2>1, <1>1
  <1>6. Kfree(h, m)[2] = t[m].ext /\ Kfree(h, m)[3] = t[m].base
    <2>1. 1 \in 1 .. Len(h) /\ 2 \in 1 .. Len(h) /\ 1 \in 1 .. Len(g)
      BY <1>1, <1>2
    <2>2. Kfree(h, m)[1 + 1] = h[1] /\ Kfree(h, m)[2 + 1] = h[2] /\ h[1 + 1] = g[1]
      BY <2>1, <1>2, <1>3
    <2> QED
      BY <2>2, <1>1, <1>2
  <1> QED
    BY <1>1, <1>2, <1>3, <1>4, <1>5, <1>6

-----------------------------------------------------------------------------
(***************************************************************************)
(* The processes that hold pages are finitely many.                        *)
(***************************************************************************)
LEMMA FiniteSlots ==
  ASSUME NEW S, S \subseteq Slot
  PROVE  IsFiniteSet(S) /\ Cardinality(S) \in Nat /\ Cardinality(S) <= NProc
  <1>1. IsFiniteSet(Slot) /\ Cardinality(Slot) = NProc
    BY FS_Interval, MemoryAssumption DEF Slot
  <1> QED
    BY <1>1, FS_Subset, FS_CardinalityType

LEMMA AddSlot ==
  ASSUME NEW S, S \subseteq Slot, NEW c \in Slot, c \notin S
  PROVE  Cardinality(S \cup {c}) = Cardinality(S) + 1
  BY FiniteSlots, FS_AddElement

LEMMA RemoveSlot ==
  ASSUME NEW S, S \subseteq Slot, NEW c \in S
  PROVE  Cardinality(S \ {c}) = Cardinality(S) - 1
  BY FiniteSlots, FS_RemoveElement

-----------------------------------------------------------------------------
(***************************************************************************)
(* The invariant is inductive.                                             *)
(***************************************************************************)
LEMMA InitEstablishes == Init => MemoryInv
  <1> SUFFICES ASSUME Init PROVE MemoryInv
    OBVIOUS
  <1> USE MemoryAssumption
  <1>1. Held = {1} /\ Lost = {}
    BY DEF Init, Held, Lost, Slot
  <1>2. free \in Seq(Page) /\ Len(free) = NPages - 3
    <2>1. NPages - 3 \in Nat /\ free \in [1 .. NPages - 3 -> Page]
      BY DEF Init, Page
    <2>2. free \in Seq(Page)
      BY <2>1, SeqDef
    <2> QED
      BY <2>1, <2>2, LenProperties
  <1>3. \A i \in DOMAIN free : free[i] \in 1 .. NPages - 3
    BY DEF Init
  <1>4. TypeOK
    <2>1. table \in [Page -> [base : Page \cup {None}, ext : Page \cup {None}]]
      BY DEF Init, Page, Unmapped
    <2>2. map \in [Slot -> Page \cup {None}]
      BY DEF Init, Page
    <2>3. env \in [Slot -> Page \cup {None, UserExt}]
      BY DEF Init
    <2>4. state \in [Slot -> {"UNUSED", "INIT", "READY", "KILLED"}]
      BY DEF Init
    <2>5. loaded \in Slot \cup {0} /\ hup \in 0 .. NProc
      BY DEF Init
    <2>6. halted \in BOOLEAN
      BY DEF Init
    <2> QED
      BY <1>2, <2>1, <2>2, <2>3, <2>4, <2>5, <2>6 DEF TypeOK
  <1>5. map[1] = NPages /\ table[NPages].base = NPages - 2 /\ table[NPages].ext = NPages - 1
    BY DEF Init, Slot, Page
  <1>6. Pages(1) = {NPages, NPages - 2, NPages - 1} /\ \A s \in Slot : s # 1 => Pages(s) = {}
    BY <1>1, <1>5 DEF Pages
  <1>7. PagesApart
    <2>1. \A i, j \in DOMAIN free : free[i] = free[j] => i = j
      BY DEF Init
    <2>2. \A s \in Slot, i \in DOMAIN free : free[i] \notin Pages(s)
      BY <1>3, <1>6
    <2>3. \A s, t \in Slot : s # t => Pages(s) \cap Pages(t) = {}
      BY <1>6
    <2> QED
      BY <2>1, <2>2, <2>3 DEF PagesApart
  <1>8. PagesWhole
    BY <1>1, <1>5 DEF PagesWhole, Page
  <1>9. NoPageLost
    <2>1. Cardinality({1}) = 1 /\ Cardinality({}) = 0
      BY FS_Singleton, FS_EmptySet
    <2> QED
      BY <1>1, <1>2, <2>1 DEF NoPageLost
  <1>10. LoadedHeld /\ HaltsOnlyWhenFull
    BY DEF Init, LoadedHeld, HaltsOnlyWhenFull
  <1> QED
    BY <1>4, <1>7, <1>8, <1>9, <1>10 DEF MemoryInv

\* A successful fork.
LEMMA ForkKeeps ==
  ASSUME MemoryInv, NEW c \in Slot, Fork(c)
  PROVE  MemoryInv'
  <1> USE MemoryAssumption
  <1> DEFINE m == free[1]
             e == free[2]
             b == free[3]
  <1>1. /\ m \in Page /\ e \in Page /\ b \in Page
        /\ m # e /\ m # b /\ e # b
        /\ \A s \in Slot : m \notin Pages(s) /\ e \notin Pages(s) /\ b \notin Pages(s)
    <2>1. 1 \in DOMAIN free /\ 2 \in DOMAIN free /\ 3 \in DOMAIN free
      BY DEF Fork, MemoryInv, TypeOK
    <2>2. free \in Seq(Page) /\ \A i, j \in DOMAIN free : i # j => free[i] # free[j]
      BY DEF MemoryInv, TypeOK, PagesApart
    <2> QED
      BY <2>1, <2>2 DEF MemoryInv, PagesApart
  <1>2. c \notin Held /\ c \notin Lost /\ Held' = Held \cup {c} /\ Lost' = Lost
    BY DEF Fork, FirstUnused, Held, Lost, MemoryInv, TypeOK
  <1>3. /\ free' \in Seq(Page) /\ Len(free') = Len(free) - 3 /\ DOMAIN free' = 1 .. Len(free) - 3
        /\ \A i \in DOMAIN free' : i + 3 \in DOMAIN free /\ free'[i] = free[i + 3]
    <2>1. TypeOK /\ 3 \in 0 .. Len(free) /\ free' = Rest(3)
      BY DEF Fork, MemoryInv, TypeOK
    <2>2. Len(free) \in Nat /\ DOMAIN free = 1 .. Len(free)
      BY <2>1 DEF TypeOK
    <2>3. /\ free' \in Seq(Page) /\ Len(free') = Len(free) - 3
          /\ \A i \in 1 .. Len(free) - 3 : free'[i] = free[i + 3]
      BY <2>1, RestFacts
    <2>4. DOMAIN free' = 1 .. Len(free) - 3
      BY <2>3
    <2>5. \A i \in 1 .. Len(free) - 3 : i + 3 \in 1 .. Len(free)
      BY <2>2
    <2> QED
      BY <2>2, <2>3, <2>4, <2>5
  <1>4. /\ table'[m] = [base |-> b, ext |-> e] /\ map'[c] = m
        /\ \A pg \in Page \ {m} : table'[pg] = table[pg]
        /\ \A s \in Slot \ {c} : map'[s] = map[s] /\ env'[s] = env[s]
    BY <1>1 DEF Fork, MemoryInv, TypeOK
  <1>5. \A s \in Held : s # c /\ s \in Slot /\ map[s] \in Page /\ map[s] # m
                        /\ map'[s] = map[s] /\ table'[map'[s]] = table[map[s]]
    <2> SUFFICES ASSUME NEW s \in Held
                 PROVE  /\ s # c /\ s \in Slot /\ map[s] \in Page /\ map[s] # m
                        /\ map'[s] = map[s] /\ table'[map'[s]] = table[map[s]]
      OBVIOUS
    <2>1. s # c /\ s \in Slot
      BY <1>2 DEF Held
    <2>2. map[s] \in Page /\ map[s] \in Pages(s)
      BY DEF MemoryInv, PagesWhole, Pages
    <2>3. map[s] # m
      BY <1>1, <2>1, <2>2
    <2> QED
      BY <1>4, <2>1, <2>2, <2>3
  <1>6. Pages(c)' = {m, b, e} /\ \A s \in Slot : s # c => Pages(s)' = Pages(s)
    <2>1. Pages(c)' = {m, b, e}
      BY <1>2, <1>4 DEF Pages
    <2>2. ASSUME NEW s \in Slot, s # c PROVE Pages(s)' = Pages(s)
      BY <1>2, <1>4, <1>5, <2>2 DEF Pages
    <2> QED
      BY <2>1, <2>2
  <1>7. TypeOK'
    BY <1>1, <1>3 DEF Fork, MemoryInv, TypeOK
  <1>8. PagesApart'
    <2>1. \A i, j \in DOMAIN free' : free'[i] = free'[j] => i = j
      BY <1>3 DEF MemoryInv, PagesApart
    <2>2. \A s \in Slot, i \in DOMAIN free' : free'[i] \notin Pages(s)'
      <3> TAKE s \in Slot, i \in DOMAIN free'
      <3>1. CASE s = c
        <4>1. i + 3 \in DOMAIN free /\ i + 3 # 1 /\ i + 3 # 2 /\ i + 3 # 3
          BY <1>3
        <4>2. 1 \in DOMAIN free /\ 2 \in DOMAIN free /\ 3 \in DOMAIN free
          BY DEF Fork, MemoryInv, TypeOK
        <4>3. free[i + 3] # m /\ free[i + 3] # e /\ free[i + 3] # b
          BY <4>1, <4>2 DEF MemoryInv, PagesApart
        <4> QED
          BY <3>1, <4>3, <1>3, <1>6
      <3>2. CASE s # c
        BY <3>2, <1>3, <1>6 DEF MemoryInv, PagesApart
      <3> QED
        BY <3>1, <3>2
    <2>3. \A s, t \in Slot : s # t => Pages(s)' \cap Pages(t)' = {}
      BY <1>1, <1>6 DEF MemoryInv, PagesApart
    <2> QED
      BY <2>1, <2>2, <2>3 DEF PagesApart
  <1>9. PagesWhole'
    <2>1. ASSUME NEW s \in Held'
          PROVE  /\ map'[s] \in Page /\ table'[map'[s]].base \in Page \ {map'[s]}
                 /\ table'[map'[s]].ext \in Page \ {map'[s], table'[map'[s]].base}
      <3>1. CASE s = c
        BY <3>1, <1>1, <1>4
      <3>2. CASE s # c
        BY <3>2, <1>2, <1>5 DEF MemoryInv, PagesWhole
      <3> QED
        BY <3>1, <3>2
    <2>2. \A s \in Lost' : env'[s] \in Page
      BY <1>2, <1>4 DEF MemoryInv, PagesWhole, Lost
    <2> QED
      BY <2>1, <2>2 DEF PagesWhole
  <1>10. Cardinality(Held') = Cardinality(Held) + 1 /\ Cardinality(Held) \in Nat /\ Cardinality(Lost) \in Nat
    BY <1>2, AddSlot, FiniteSlots DEF Held, Lost
  <1>11. NoPageLost'
    BY <1>2, <1>3, <1>10 DEF NoPageLost, MemoryInv, TypeOK
  <1>12. LoadedHeld' /\ HaltsOnlyWhenFull'
    BY <1>2 DEF Fork, Running, LoadedHeld, HaltsOnlyWhenFull, MemoryInv
  <1> QED
    BY <1>7, <1>8, <1>9, <1>11, <1>12 DEF MemoryInv

\* A failed fork gives back what it took, but for the second page.
LEMMA ForkFailsFree ==
  ASSUME MemoryInv, NEW c \in Slot, ForkFails(c)
  PROVE  /\ free' \in Seq(Page) /\ Len(free') = Len(free) - 1
         /\ \A i \in 1 .. Len(free) - 1 : free'[i] = free[IF i = 1 THEN 1 ELSE i + 1]
         /\ table' = [table EXCEPT ![free[1]] = Unmapped]
  <1> USE MemoryAssumption
  <1>0. /\ Len(free) \in Nat /\ Len(free) >= 2 /\ free[1] \in Page
        /\ Len(free) >= 3 => free[3] \in Page
    BY DEF ForkFails, MemoryInv, TypeOK
  <1>1. PICK m \in Page : m = free[1]
    BY <1>0
  <1> DEFINE third == IF Len(free) = 2 THEN None ELSE free[3]
             made == [table EXCEPT ![m] = [base |-> third, ext |-> None]]
             f == IF third = None THEN Rest(2) ELSE Rest(3)
  <1>2. made[m] = [base |-> third, ext |-> None]
    BY <1>1 DEF MemoryInv, TypeOK
  <1>3. free' = FreeUvm(f, made, m) /\ table' = [made EXCEPT ![m] = Unmapped]
    BY <1>1 DEF ForkFails
  <1>4. table' = [table EXCEPT ![m] = Unmapped]
    BY <1>3, <1>1 DEF MemoryInv, TypeOK
  <1>5. free' = Kfree(Kfree(f, third), m)
    BY <1>2, <1>3 DEF FreeUvm, Kfree
  <1>9. free' = Kfree(Kfree(IF third = None THEN Rest(2) ELSE Rest(3), third), m)
    BY <1>5
  <1>8. (Len(free) = 2 => third = None) /\ (Len(free) >= 3 => third = free[3])
    BY <1>0, <1>1
  <1> HIDE DEF made, third, f
  <1>6. CASE Len(free) = 2
    <2>1. third = None /\ Rest(2) \in Seq(Page) /\ Len(Rest(2)) = 0
      BY <1>6, <1>8, RestFacts DEF MemoryInv
    <2>2. free' = Kfree(Rest(2), m)
      BY <1>9, <2>1 DEF Kfree
    <2>3. free' \in Seq(Page) /\ Len(free') = 1 /\ free'[1] = m
      <3>1. Kfree(Rest(2), m) \in Seq(Page) /\ Len(Kfree(Rest(2), m)) = Len(Rest(2)) + 1 /\ Kfree(Rest(2), m)[1] = m
        BY <2>1, <1>0, <1>1, KfreeFacts
      <3> QED
        <4>1. Len(Rest(2)) + 1 = 1
          BY <2>1
        <4> QED
          BY <4>1, <3>1, <2>2
    <2> QED
      BY <2>3, <1>1, <1>4, <1>6
  <1>7. CASE Len(free) >= 3
    <2>1. third = free[3] /\ third \in Page /\ third # None
      BY <1>7, <1>8, <1>0, <1>1 DEF Page, None
    <2>2. /\ Rest(3) \in Seq(Page) /\ Len(Rest(3)) = Len(free) - 3
          /\ \A i \in 1 .. Len(free) - 3 : Rest(3)[i] = free[i + 3]
      BY <1>7, <1>0, <1>1, RestFacts DEF MemoryInv
    <2> DEFINE g == Kfree(Rest(3), third)
    <2>3. /\ g \in Seq(Page) /\ Len(g) = Len(free) - 2 /\ g[1] = free[3]
          /\ \A i \in 1 .. Len(free) - 3 : g[i + 1] = free[i + 3]
      <3>1. /\ g \in Seq(Page) /\ Len(g) = Len(Rest(3)) + 1 /\ g[1] = third
            /\ \A i \in 1 .. Len(Rest(3)) : g[i + 1] = Rest(3)[i]
        BY <2>1, <2>2, KfreeFacts
      <3>2. (Len(free) - 3) + 1 = Len(free) - 2
        BY <1>0
      <3> HIDE DEF g
      <3> QED
        BY <3>1, <3>2, <2>1, <2>2
    <2>4. free' = Kfree(g, m)
      BY <1>9, <2>1
    <2> HIDE DEF g
    <2>5. /\ free' \in Seq(Page) /\ Len(free') = Len(free) - 1 /\ free'[1] = m
          /\ \A i \in 1 .. Len(free) - 2 : free'[i + 1] = g[i]
      <3>1. /\ free' \in Seq(Page) /\ Len(free') = Len(g) + 1 /\ free'[1] = m
            /\ \A i \in 1 .. Len(g) : free'[i + 1] = g[i]
        BY <2>3, <2>4, <1>0, <1>1, KfreeFacts
      <3> QED
        BY <3>1, <2>3, <1>0, <1>1
    <2>6. ASSUME NEW i \in 1 .. Len(free) - 1
          PROVE  free'[i] = free[IF i = 1 THEN 1 ELSE i + 1]
      <3>1. CASE i = 1
        BY <3>1, <2>5, <1>1
      <3>2. CASE i = 2
        <4>1. 1 \in 1 .. Len(free) - 2
          BY <1>7, <1>0, <1>1
        <4>2. free'[1 + 1] = g[1]
          BY <4>1, <2>5
        <4> QED
          BY <3>2, <4>2, <2>3
      <3>3. CASE i > 2
        <4>1. i - 1 \in 1 .. Len(free) - 2 /\ i - 2 \in 1 .. Len(free) - 3
          BY <3>3, <1>0, <1>1
        <4>2. free'[(i - 1) + 1] = g[i - 1] /\ g[(i - 2) + 1] = free[(i - 2) + 3]
          BY <4>1, <2>3, <2>5
        <4> QED
          BY <3>3, <4>2
      <3> QED
        BY <3>1, <3>2, <3>3
    <2>7. /\ free' \in Seq(Page) /\ Len(free') = Len(free) - 1
          /\ \A i \in 1 .. Len(free) - 1 : free'[i] = free[IF i = 1 THEN 1 ELSE i + 1]
      BY <2>5, <2>6
    <2> QED
      BY <2>7, <1>1, <1>4
  <1>10. Len(free) = 2 \/ Len(free) >= 3
    BY <1>0
  <1> QED
    BY <1>6, <1>7, <1>10

LEMMA ForkFailsKeeps ==
  ASSUME MemoryInv, NEW c \in Slot, ForkFails(c)
  PROVE  MemoryInv'
  <1> USE MemoryAssumption
  <1> DEFINE m == free[1]
             e == free[2]
  <1>1. /\ 1 \in DOMAIN free /\ 2 \in DOMAIN free /\ DOMAIN free = 1 .. Len(free)
        /\ m \in Page /\ e \in Page
        /\ \A s \in Slot : m \notin Pages(s) /\ e \notin Pages(s)
    <2>1. 1 \in DOMAIN free /\ 2 \in DOMAIN free /\ DOMAIN free = 1 .. Len(free)
      BY DEF ForkFails, MemoryInv, TypeOK
    <2> QED
      BY <2>1 DEF MemoryInv, TypeOK, PagesApart
  <1>2. c \notin Held /\ c \notin Lost /\ Held' = Held /\ Lost' = Lost \cup {c}
    BY DEF ForkFails, FirstUnused, Held, Lost, MemoryInv, TypeOK
  <1>3. /\ free' \in Seq(Page) /\ Len(free') = Len(free) - 1 /\ DOMAIN free' = 1 .. Len(free) - 1
        /\ table' = [table EXCEPT ![m] = Unmapped]
        /\ \A i \in 1 .. Len(free) - 1 : free'[i] = free[IF i = 1 THEN 1 ELSE i + 1]
    BY ForkFailsFree, LenProperties
  <1>4. \A i \in DOMAIN free' : /\ (IF i = 1 THEN 1 ELSE i + 1) \in DOMAIN free
                                /\ free'[i] = free[IF i = 1 THEN 1 ELSE i + 1]
    BY <1>1, <1>3
  <1>5. /\ env'[c] = e
        /\ \A pg \in Page \ {m} : table'[pg] = table[pg]
        /\ \A s \in Slot \ {c} : map'[s] = map[s] /\ env'[s] = env[s]
    BY <1>1, <1>3 DEF ForkFails, MemoryInv, TypeOK
  <1>6. \A s \in Held : s # c /\ s \in Slot /\ map[s] \in Page /\ map[s] # m
                        /\ map'[s] = map[s] /\ table'[map'[s]] = table[map[s]]
    <2> SUFFICES ASSUME NEW s \in Held
                 PROVE  /\ s # c /\ s \in Slot /\ map[s] \in Page /\ map[s] # m
                        /\ map'[s] = map[s] /\ table'[map'[s]] = table[map[s]]
      OBVIOUS
    <2>1. s # c /\ s \in Slot
      BY <1>2 DEF Held
    <2>2. map[s] \in Page /\ map[s] \in Pages(s)
      BY DEF MemoryInv, PagesWhole, Pages
    <2>3. map[s] # m
      BY <1>1, <2>1, <2>2
    <2> QED
      BY <1>5, <2>1, <2>2, <2>3
  <1>7. Pages(c)' = {e} /\ \A s \in Slot : s # c => Pages(s)' = Pages(s)
    <2>1. Pages(c)' = {e}
      BY <1>2, <1>5 DEF Pages
    <2>2. ASSUME NEW s \in Slot, s # c PROVE Pages(s)' = Pages(s)
      BY <1>2, <1>5, <1>6, <2>2 DEF Pages
    <2> QED
      BY <2>1, <2>2
  <1>8. TypeOK'
    <2>1. table' \in [Page -> [base : Page \cup {None}, ext : Page \cup {None}]]
      BY <1>1, <1>3 DEF MemoryInv, TypeOK, Unmapped
    <2> QED
      BY <1>1, <1>3, <2>1 DEF ForkFails, MemoryInv, TypeOK
  <1>9. PagesApart'
    <2>1. \A i, j \in DOMAIN free' : free'[i] = free'[j] => i = j
      <3> SUFFICES ASSUME NEW i \in DOMAIN free', NEW j \in DOMAIN free', free'[i] = free'[j]
                   PROVE  i = j
        OBVIOUS
      <3>1. (IF i = 1 THEN 1 ELSE i + 1) = (IF j = 1 THEN 1 ELSE j + 1)
        BY <1>4 DEF MemoryInv, PagesApart
      <3>2. i \in Nat /\ j \in Nat /\ i >= 1 /\ j >= 1
        BY <1>1, <1>3
      <3> QED
        BY <3>1, <3>2
    <2>2. \A s \in Slot, i \in DOMAIN free' : free'[i] \notin Pages(s)'
      <3> TAKE s \in Slot, i \in DOMAIN free'
      <3>1. CASE s = c
        <4>1. (IF i = 1 THEN 1 ELSE i + 1) # 2
          BY <1>1, <1>3
        <4>2. free[IF i = 1 THEN 1 ELSE i + 1] # e
          BY <4>1, <1>1, <1>4 DEF MemoryInv, PagesApart
        <4> QED
          BY <3>1, <4>2, <1>4, <1>7
      <3>2. CASE s # c
        BY <3>2, <1>4, <1>7 DEF MemoryInv, PagesApart
      <3> QED
        BY <3>1, <3>2
    <2>3. \A s, t \in Slot : s # t => Pages(s)' \cap Pages(t)' = {}
      BY <1>1, <1>7 DEF MemoryInv, PagesApart
    <2> QED
      BY <2>1, <2>2, <2>3 DEF PagesApart
  <1>10. PagesWhole'
    <2>1. ASSUME NEW s \in Lost' PROVE env'[s] \in Page
      BY <1>1, <1>2, <1>5 DEF MemoryInv, PagesWhole, Lost
    <2>2. ASSUME NEW s \in Held'
          PROVE  /\ map'[s] \in Page /\ table'[map'[s]].base \in Page \ {map'[s]}
                 /\ table'[map'[s]].ext \in Page \ {map'[s], table'[map'[s]].base}
      BY <1>2, <1>6 DEF MemoryInv, PagesWhole
    <2> QED
      BY <2>1, <2>2 DEF PagesWhole
  <1>11. Cardinality(Lost') = Cardinality(Lost) + 1 /\ Cardinality(Held) \in Nat /\ Cardinality(Lost) \in Nat
    BY <1>2, AddSlot, FiniteSlots DEF Held, Lost
  <1>12. NoPageLost'
    <2>1. Len(free) \in Nat
      BY DEF MemoryInv, TypeOK
    <2> QED
      BY <1>2, <1>3, <1>11, <2>1 DEF NoPageLost, MemoryInv
  <1>13. LoadedHeld' /\ HaltsOnlyWhenFull'
    BY <1>2 DEF ForkFails, Running, LoadedHeld, HaltsOnlyWhenFull, MemoryInv
  <1> QED
    BY <1>8, <1>9, <1>10, <1>12, <1>13 DEF MemoryInv

\* The pages of a dead process go back, whoever collects it.
LEMMA ReleaseKeeps ==
  ASSUME MemoryInv, ~ halted, NEW z \in Slot, state[z] = "KILLED", Release(z)
  PROVE  /\ TypeOK' <=> hup' \in 0 .. NProc
         /\ PagesApart' /\ PagesWhole' /\ NoPageLost' /\ HaltsOnlyWhenFull'
         /\ Held' = Held \ {z}
  <1> USE MemoryAssumption
  <1>1. PICK m \in Page : m = map[z]
    BY DEF MemoryInv, PagesWhole, Held
  <1>2. PICK b \in Page, e \in Page : b = table[m].base /\ e = table[m].ext /\ m # b /\ m # e /\ b # e
    BY <1>1 DEF MemoryInv, PagesWhole, Held
  <1>3. z \in Held /\ z \notin Lost /\ Held' = Held \ {z} /\ Lost' = Lost
    BY DEF Release, Held, Lost, MemoryInv, TypeOK
  <1>4. Pages(z) = {m, b, e}
    BY <1>1, <1>2, <1>3 DEF Pages
  <1>5. Len(free) \in Nat /\ DOMAIN free = 1 .. Len(free) /\ free \in Seq(Page)
    BY LenProperties DEF MemoryInv, TypeOK
  <1>6. /\ free' \in Seq(Page) /\ Len(free') = Len(free) + 3
        /\ free'[1] = m /\ free'[2] = e /\ free'[3] = b
        /\ \A i \in 1 .. Len(free) : free'[i + 3] = free[i]
    <2>1. free' = FreeUvm(free, table, m)
      BY <1>1 DEF Release
    <2> QED
      BY <1>2, <1>5, <2>1, FreeUvmFacts
  <1>7. DOMAIN free' = 1 .. Len(free) + 3
    BY <1>6, LenProperties
  <1>8. \A i \in DOMAIN free' : i > 3 => i - 3 \in DOMAIN free /\ free'[i] = free[i - 3]
    <2> TAKE i \in DOMAIN free'
    <2> HAVE i > 3
    <2>1. i - 3 \in 1 .. Len(free) /\ (i - 3) + 3 = i
      BY <1>5, <1>7
    <2>2. free'[(i - 3) + 3] = free[i - 3]
      BY <2>1, <1>6
    <2> QED
      BY <2>1, <2>2, <1>5
  <1>9. \A i \in DOMAIN free' : i \in Nat /\ (i = 1 \/ i = 2 \/ i = 3 \/ i > 3)
    BY <1>5, <1>7
  <1>10. \A i \in DOMAIN free : free[i] # m /\ free[i] # b /\ free[i] # e
    BY <1>4 DEF MemoryInv, PagesApart
  <1>11. map' = map /\ env' = env /\ table' = [table EXCEPT ![m] = Unmapped]
    BY <1>1 DEF Release
  <1>12. \A s \in Held' : s \in Held /\ s \in Slot /\ map[s] \in Page /\ map[s] # m
                         /\ map'[s] = map[s] /\ table'[map'[s]] = table[map[s]]
    BY <1>3, <1>4, <1>11 DEF MemoryInv, PagesApart, PagesWhole, Pages, Held, TypeOK
  <1>13. Pages(z)' = {} /\ \A s \in Slot : s # z => Pages(s)' = Pages(s)
    <2>1. Pages(z)' = {}
      BY <1>3 DEF Pages
    <2>2. ASSUME NEW s \in Slot, s # z PROVE Pages(s)' = Pages(s)
      BY <1>3, <1>11, <1>12, <2>2 DEF Pages
    <2> QED
      BY <2>1, <2>2
  <1>14. PagesApart'
    <2>1. \A i, j \in DOMAIN free' : free'[i] = free'[j] => i = j
      <3> SUFFICES ASSUME NEW i \in DOMAIN free', NEW j \in DOMAIN free', free'[i] = free'[j]
                   PROVE  i = j
        OBVIOUS
      <3>1. CASE i > 3 /\ j > 3
        <4>1. i - 3 = j - 3
          BY <3>1, <1>8 DEF MemoryInv, PagesApart
        <4> QED
          BY <4>1, <1>9
      <3>2. CASE ~ (i > 3 /\ j > 3)
        BY <3>2, <1>2, <1>6, <1>8, <1>9, <1>10
      <3> QED
        BY <3>1, <3>2
    <2>2. \A s \in Slot, i \in DOMAIN free' : free'[i] \notin Pages(s)'
      <3> TAKE s \in Slot, i \in DOMAIN free'
      <3>1. CASE s = z
        BY <3>1, <1>13
      <3>2. CASE s # z
        <4>1. Pages(s)' = Pages(s) /\ m \notin Pages(s) /\ b \notin Pages(s) /\ e \notin Pages(s)
          BY <3>2, <1>4, <1>13 DEF MemoryInv, PagesApart
        <4>2. CASE i > 3
          BY <4>1, <4>2, <1>8 DEF MemoryInv, PagesApart
        <4>3. CASE ~ i > 3
          BY <4>1, <4>3, <1>6, <1>9
        <4> QED
          BY <4>2, <4>3
      <3> QED
        BY <3>1, <3>2
    <2>3. \A s, t \in Slot : s # t => Pages(s)' \cap Pages(t)' = {}
      BY <1>13 DEF MemoryInv, PagesApart
    <2> QED
      BY <2>1, <2>2, <2>3 DEF PagesApart
  <1>15. PagesWhole'
    <2>1. \A s \in Lost' : env'[s] \in Page
      BY <1>3, <1>11 DEF MemoryInv, PagesWhole
    <2>2. ASSUME NEW s \in Held'
          PROVE  /\ map'[s] \in Page /\ table'[map'[s]].base \in Page \ {map'[s]}
                 /\ table'[map'[s]].ext \in Page \ {map'[s], table'[map'[s]].base}
      BY <1>12 DEF MemoryInv, PagesWhole
    <2> QED
      BY <2>1, <2>2 DEF PagesWhole
  <1>16. Cardinality(Held') = Cardinality(Held) - 1 /\ Cardinality(Held) \in Nat /\ Cardinality(Lost) \in Nat
    BY <1>3, RemoveSlot, FiniteSlots DEF Held, Lost
  <1>17. NoPageLost'
    BY <1>3, <1>5, <1>6, <1>16 DEF NoPageLost, MemoryInv
  <1>18. TypeOK' <=> hup' \in 0 .. NProc
    <2>1. table' \in [Page -> [base : Page \cup {None}, ext : Page \cup {None}]]
      BY <1>11 DEF MemoryInv, TypeOK, Unmapped
    <2> QED
      BY <1>6, <1>11, <2>1 DEF Release, MemoryInv, TypeOK
  <1>19. HaltsOnlyWhenFull'
    BY DEF Release, HaltsOnlyWhenFull
  <1> QED
    BY <1>3, <1>14, <1>15, <1>17, <1>18, <1>19

\* The other steps leave the pages where they are.
LEMMA PagesUntouched ==
  ASSUME MemoryInv, UNCHANGED <<free, table, map, env>>, Held' = Held, Lost' = Lost
  PROVE  PagesApart' /\ PagesWhole' /\ NoPageLost'
  <1>1. \A s \in Slot : Pages(s)' = Pages(s)
    BY DEF Pages
  <1>2. PagesApart'
    BY <1>1 DEF MemoryInv, PagesApart
  <1> QED
    BY <1>2 DEF MemoryInv, PagesWhole, NoPageLost

LEMMA NextKeeps ==
  ASSUME NoneCollectedQueued, MemoryInv, [Next]_memory
  PROVE  MemoryInv'
  <1> USE MemoryAssumption
  <1>1. ASSUME NEW c \in Slot, Fork(c) PROVE MemoryInv'
    BY <1>1, ForkKeeps
  <1>2. ASSUME NEW c \in Slot, ForkFails(c) PROVE MemoryInv'
    BY <1>2, ForkFailsKeeps
  <1>3. ASSUME NEW c \in Slot, ForkHalts(c) PROVE MemoryInv'
    <2>1. Held' = Held /\ Lost' = Lost /\ UNCHANGED <<free, table, map, env>>
      BY <1>3 DEF ForkHalts, Held, Lost
    <2>2. TypeOK' /\ LoadedHeld'
      BY <1>3, <2>1 DEF ForkHalts, Running, MemoryInv, TypeOK, LoadedHeld
    <2>3. Cardinality(Held) \in Nat /\ Cardinality(Lost) \in Nat /\ Len(free) \in Nat
      BY FiniteSlots DEF Held, Lost, MemoryInv, TypeOK
    <2>4. HaltsOnlyWhenFull'
      BY <1>3, <2>1, <2>3 DEF ForkHalts, HaltsOnlyWhenFull, MemoryInv, NoPageLost
    <2> QED
      BY <2>1, <2>2, <2>4, PagesUntouched DEF MemoryInv
  <1>4. ASSUME NEW s \in Slot, Die(s) PROVE MemoryInv'
    <2>1. Held' = Held /\ Lost' = Lost /\ UNCHANGED <<free, table, map, env>>
      BY <1>4 DEF Die, Held, Lost, MemoryInv, TypeOK
    <2>2. TypeOK' /\ LoadedHeld' /\ HaltsOnlyWhenFull'
      BY <1>4, <2>1 DEF Die, MemoryInv, TypeOK, LoadedHeld, HaltsOnlyWhenFull
    <2> QED
      BY <2>1, <2>2, PagesUntouched DEF MemoryInv
  <1>5. ASSUME NEW z \in Slot, Collect(z) PROVE MemoryInv'
    <2>1. state[z] = "KILLED" /\ ~ halted /\ Release(z) /\ hup' = hup
      BY <1>5 DEF Collect, Running
    <2>2. LoadedHeld'
      BY <1>5, <2>1, ReleaseKeeps DEF Collect, Running, Release, LoadedHeld, MemoryInv, Held, TypeOK
    <2> QED
      BY <2>1, <2>2, ReleaseKeeps DEF MemoryInv, TypeOK
  <1>6. ASSUME NEW s \in Slot \cup {0}, SwitchVm(s) PROVE MemoryInv'
    <2>1. s # 0 => state[s] \in {"READY", "KILLED"} /\ state'[s] = "READY"
      BY <1>6, QueuedAssumption DEF SwitchVm, MemoryInv, TypeOK, NoneCollectedQueued
    <2>2. /\ \A t \in Slot : t # s => state'[t] = state[t]
          /\ state' \in [Slot -> {"UNUSED", "INIT", "READY", "KILLED"}]
      BY <1>6 DEF SwitchVm, MemoryInv, TypeOK
    <2>3. Held' = Held /\ Lost' = Lost /\ UNCHANGED <<free, table, map, env>>
      BY <1>6, <2>1, <2>2 DEF SwitchVm, Held, Lost, Slot
    <2>4. TypeOK' /\ LoadedHeld' /\ HaltsOnlyWhenFull'
      BY <1>6, <2>1, <2>2, <2>3 DEF SwitchVm, MemoryInv, TypeOK, LoadedHeld, HaltsOnlyWhenFull, Held, Slot
    <2> QED
      BY <2>3, <2>4, PagesUntouched DEF MemoryInv
  <1>7. CASE HangUp
    <2>1. Held' = Held /\ Lost' = Lost /\ UNCHANGED <<free, table, map, env>>
      BY <1>7 DEF HangUp, Held, Lost
    <2>2. TypeOK' /\ LoadedHeld' /\ HaltsOnlyWhenFull'
      BY <1>7, <2>1 DEF HangUp, Running, MemoryInv, TypeOK, LoadedHeld, HaltsOnlyWhenFull
    <2> QED
      BY <2>1, <2>2, PagesUntouched DEF MemoryInv
  <1>8. CASE HangUpSlot
    <2>1. hup \in Slot /\ ~ halted /\ loaded # 0 /\ state[loaded] = "READY" /\ loaded \in Slot
      BY <1>8 DEF HangUpSlot, MemoryInv, LoadedHeld, Slot, Held
    <2>2. hup' \in 0 .. NProc /\ (hup' # 0 => hup' \in 2 .. NProc)
      BY <1>8 DEF HangUpSlot, MemoryInv, LoadedHeld
    <2>3. CASE state[hup] = "KILLED" /\ Release(hup)
      <3>1. loaded' = loaded /\ ~ halted' /\ state'[loaded] = "READY" /\ loaded \in Held'
        BY <2>1, <2>3 DEF Release, MemoryInv, TypeOK, Held
      <3>2. LoadedHeld'
        BY <2>1, <2>2, <3>1 DEF LoadedHeld
      <3> QED
        BY <2>1, <2>2, <2>3, <3>2, ReleaseKeeps DEF MemoryInv
    <2>4. CASE UNCHANGED <<free, table, map, env, state, loaded, halted>>
      <3>1. Held' = Held /\ Lost' = Lost
        BY <2>4 DEF Held, Lost
      <3>2. TypeOK' /\ LoadedHeld' /\ HaltsOnlyWhenFull'
        BY <2>1, <2>2, <2>4, <3>1 DEF MemoryInv, TypeOK, LoadedHeld, HaltsOnlyWhenFull
      <3> QED
        BY <2>4, <3>1, <3>2, PagesUntouched DEF MemoryInv
    <2> QED
      BY <1>8, <2>3, <2>4 DEF HangUpSlot
  <1>9. CASE UNCHANGED memory
    <2>1. Held' = Held /\ Lost' = Lost /\ UNCHANGED <<free, table, map, env>>
      BY <1>9 DEF memory, Held, Lost
    <2>2. TypeOK' /\ LoadedHeld' /\ HaltsOnlyWhenFull'
      BY <1>9, <2>1 DEF memory, MemoryInv, TypeOK, LoadedHeld, HaltsOnlyWhenFull
    <2> QED
      BY <2>1, <2>2, PagesUntouched DEF MemoryInv
  <1> QED
    BY <1>1, <1>2, <1>3, <1>4, <1>5, <1>6, <1>7, <1>8, <1>9 DEF Next, Stopped

-----------------------------------------------------------------------------
(***************************************************************************)
(* The results.                                                            *)
(***************************************************************************)
\* The conjunction is an invariant of fork, exit, wait and hang-ups.
THEOREM MemoryInvariant ==
  ASSUME NoneCollectedQueued
  PROVE  Spec => []MemoryInv
  BY InitEstablishes, NextKeeps, PTL DEF Spec

\* Type correctness: no list or table ever refers to an address that is no page.
THEOREM MemoryTypeCorrect ==
  ASSUME NoneCollectedQueued
  PROVE  Spec => []TypeOK
  BY MemoryInvariant, PTL DEF MemoryInv

\* No page is ever given to two processes, or freed twice, or freed while in use.
THEOREM MemoryPagesApart ==
  ASSUME NoneCollectedQueued
  PROVE  Spec => []PagesApart
  BY MemoryInvariant, PTL DEF MemoryInv

\* A failed fork costs one page and nothing else costs any.
THEOREM MemoryNoPageLost ==
  ASSUME NoneCollectedQueued
  PROVE  Spec => []NoPageLost
  BY MemoryInvariant, PTL DEF MemoryInv

\* The kernel stops for want of memory only when memory is exhausted.
THEOREM MemoryHaltsOnlyWhenFull ==
  ASSUME NoneCollectedQueued
  PROVE  Spec => []HaltsOnlyWhenFull
  BY MemoryInvariant, PTL DEF MemoryInv

\* The tables and the kernel stack in use are never free memory: also not those of
\* a process that died while it ran, nor of a dead job that is scheduled again.
THEOREM MemoryLoadedNotFree ==
  ASSUME NoneCollectedQueued
  PROVE  Spec => []LoadedNotFree
  <1>1. MemoryInv => LoadedNotFree
    BY DEF MemoryInv, LoadedHeld, PagesApart, LoadedNotFree, Pages, Held
  <1> QED
    BY <1>1, MemoryInvariant, PTL

\* Three pages for every slot are enough: then alloc_new_process never fails its
\* assertions, whatever forks failed before.
THEOREM ThreePagesEach ==
  ASSUME NoneCollectedQueued, NPages >= 3 * NProc
  PROVE  Spec => []~ halted
  <1>1. Init => ~ halted
    BY DEF Init
  <1>2. MemoryInv /\ ~ halted /\ [Next]_memory => ~ halted'
    <2> SUFFICES ASSUME MemoryInv, ~ halted, [Next]_memory, halted' PROVE FALSE
      OBVIOUS
    <2>1. PICK c \in Slot : ForkHalts(c)
      BY DEF Next, memory, Fork, ForkFails, Die, SwitchVm, Collect, Release, HangUp, HangUpSlot, Stopped
    <2>2. c \notin Held /\ c \notin Lost /\ Held \cap Lost = {} /\ Len(free) < 2
      BY <2>1 DEF ForkHalts, FirstUnused, Held, Lost
    <2>3. /\ IsFiniteSet(Held) /\ IsFiniteSet(Lost)
          /\ Cardinality(Held) \in Nat /\ Cardinality(Lost) \in Nat /\ Len(free) \in Nat
      BY FiniteSlots DEF Held, Lost, MemoryInv, TypeOK
    <2>4. Cardinality(Held \cup Lost) = Cardinality(Held) + Cardinality(Lost)
      <3>1. Cardinality(Held \cap Lost) = 0
        BY <2>2, FS_EmptySet
      <3>2. Cardinality(Held \cup Lost) = Cardinality(Held) + Cardinality(Lost) - Cardinality(Held \cap Lost)
        BY <2>3, FS_Union
      <3> QED
        BY <2>3, <3>1, <3>2
    <2>5. Cardinality((Held \cup Lost) \cup {c}) = Cardinality(Held \cup Lost) + 1
      BY <2>2, AddSlot DEF Held, Lost
    <2>6. Cardinality((Held \cup Lost) \cup {c}) <= NProc
      BY FiniteSlots DEF Held, Lost
    <2> QED
      BY <2>2, <2>3, <2>4, <2>5, <2>6, MemoryAssumption DEF MemoryInv, NoPageLost
  <1> QED
    BY <1>1, <1>2, MemoryInvariant, PTL DEF Spec

\* Nobody's pages move or are remapped by another process.
THEOREM MemoryPagesKept ==
  ASSUME NoneCollectedQueued
  PROVE  Spec => PagesKept
  <1>1. ASSUME MemoryInv, [Next]_memory, NEW s \in Held, s \in Held'
        PROVE  map'[s] = map[s] /\ table'[map[s]] = table[map[s]]
    <2>1. s \in Slot /\ map[s] \in Page /\ map[s] \in Pages(s)
      BY <1>1 DEF MemoryInv, PagesWhole, Pages, Held
    <2>2. ASSUME NEW c \in Slot, Fork(c) \/ ForkFails(c)
          PROVE  map'[s] = map[s] /\ table'[map[s]] = table[map[s]]
      <3>1. c # s
        BY <1>1, <2>2 DEF Fork, ForkFails, FirstUnused, Held
      <3>2. 1 \in DOMAIN free
        BY <1>1, <2>2 DEF Fork, ForkFails, MemoryInv, TypeOK
      <3>3. free[1] # map[s]
        BY <1>1, <2>1, <3>2 DEF MemoryInv, PagesApart
      <3>4. map'[s] = map[s]
        BY <1>1, <2>1, <2>2, <3>1 DEF Fork, ForkFails, MemoryInv, TypeOK
      <3>5. CASE Fork(c)
        BY <1>1, <2>1, <3>3, <3>4, <3>5 DEF Fork, MemoryInv, TypeOK
      <3>6. CASE ForkFails(c)
        <4>1. table' = [table EXCEPT ![free[1]] = Unmapped]
          BY <1>1, <3>6, ForkFailsFree
        <4> QED
          BY <1>1, <2>1, <3>3, <3>4, <4>1 DEF MemoryInv, TypeOK
      <3> QED
        BY <2>2, <3>5, <3>6
    <2>3. ASSUME NEW z \in Slot, state[z] = "KILLED", Release(z)
          PROVE  map'[s] = map[s] /\ table'[map[s]] = table[map[s]]
      <3>1. s # z
        BY <1>1, <2>3 DEF Release, Held, MemoryInv, TypeOK
      <3>2. map[z] \in Pages(z)
        BY <2>3 DEF Pages, Held
      <3>3. map[s] # map[z]
        BY <1>1, <2>1, <3>1, <3>2 DEF MemoryInv, PagesApart
      <3> QED
        BY <1>1, <2>1, <2>3, <3>3 DEF Release, MemoryInv, TypeOK
    <2>4. CASE UNCHANGED <<table, map>>
      BY <2>4
    <2>5. hup # 0 => hup \in Slot
      BY <1>1 DEF MemoryInv, LoadedHeld, Slot
    <2> QED
      BY <1>1, <2>2, <2>3, <2>4, <2>5
         DEF Next, memory, ForkHalts, Die, SwitchVm, Collect, HangUp, HangUpSlot, Stopped
  <1>2. MemoryInv /\ [Next]_memory
           => [\A s \in Slot :
              state[s] \in {"READY", "KILLED"} /\ state'[s] \in {"READY", "KILLED"}
                => map'[s] = map[s] /\ table'[map[s]] = table[map[s]]]_memory
    BY <1>1 DEF Held
  <1> QED
    BY <1>2, MemoryInvariant, PTL DEF Spec, PagesKept
=============================================================================
