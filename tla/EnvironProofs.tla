--------------------------- MODULE EnvironProofs ---------------------------
(***************************************************************************)
(* Environments keep their promises for every number of processes, names   *)
(* and values and for every size of the table.                             *)
(*                                                                         *)
(* The processes of Environ behave as those of Family, so that what was    *)
(* proved of Family holds here.  The hash map is studied first, as a pure  *)
(* function of a table in which no name occurs twice: what insert and      *)
(* erase do to the value of every name.  With that, each call on a table   *)
(* is a step of EnvMap.                                                    *)
(***************************************************************************)
EXTENDS Environ, FamilyProofs, FiniteSetTheorems, WellFoundedInduction

\* A table in which no name occurs twice, and whose entries in use have values
Distinct(t) ==
    \A i, j \in Place : t[i].key # NoKey /\ t[i].key = t[j].key => i = j

Written(t) == \A i \in Place : t[i].key # NoKey => t[i].val \in Value

GoodTable(t) == t \in [Place -> Entry] /\ Distinct(t) /\ Written(t)

\* Only init's environment is known by its user address.
Pointers == ptr[1] = "user" /\ \A s \in Slot \ {1} : ptr[s] # "user"

\* The inductive invariant.
EnvInv ==
    /\ FamilyInv
    /\ EnvTypeOK
    /\ \A s \in Slot : GoodTable(page[s])
    /\ Pointers

-----------------------------------------------------------------------------
\* A set of numbers has a least element.
Less == {ss \in Nat \X Nat : ss[1] < ss[2]}

LEMMA LessWellFounded == IsWellFoundedOn(Less, Nat)
  BY NatLessThanWellFounded DEF OpToRel, Less

LEMMA LeastNumber ==
  ASSUME NEW T \in SUBSET Nat, T # {}
  PROVE  \E x \in T : \A y \in T : x <= y
  <1>1. PICK x \in T : \A y \in T : ~ (<<y, x>> \in Less)
    BY LessWellFounded, WFMin
  <1>2. \A y \in T : ~ (y < x)
    BY <1>1 DEF Less
  <1> QED
    BY <1>2

\* A lookup returns 0 if the key is not there, and the first entry otherwise.
LEMMA AtFacts ==
  ASSUME NEW t \in [Place -> Entry], NEW k
  PROVE  \/ At(t, k) = 0 /\ \A i \in Place : t[i].key # k
         \/ /\ At(t, k) \in Place /\ At(t, k) # 0
            /\ t[At(t, k)].key = k
  <1>1. CASE \A i \in Place : t[i].key # k
    BY <1>1 DEF At
  <1>2. CASE ~ \A i \in Place : t[i].key # k
    <2> DEFINE T == {i \in Place : t[i].key = k}
    <2>1. T \in SUBSET Nat /\ T # {}
      BY <1>2 DEF Place
    <2>2. PICK i \in T : \A j \in T : i <= j
      BY <2>1, LeastNumber
    <2>3. i \in Place /\ t[i].key = k
      BY <2>2
    <2>4. \A j \in Place : j < i => t[j].key # k
      BY <2>2 DEF Place
    <2>5. At(t, k) \in Place /\ t[At(t, k)].key = k
      BY <1>2, <2>3, <2>4 DEF At
    <2> QED
      BY <2>5, EnvironAssumption DEF Place
  <1> QED
    BY <1>1, <1>2

\* If no name occurs twice, the entry with a name is the one that is found.
LEMMA AtUnique ==
  ASSUME NEW t \in [Place -> Entry], Distinct(t), NEW k \in Key,
         NEW i \in Place, t[i].key = k
  PROVE  At(t, k) = i
  BY AtFacts, EnvironAssumption DEF Distinct

LEMMA AtNone ==
  ASSUME NEW t \in [Place -> Entry], NEW k, \A i \in Place : t[i].key # k
  PROVE  At(t, k) = 0
  BY DEF At

-----------------------------------------------------------------------------
\* insert: the table stays good, only the value of k changes, and that unless
\* the table is full.
LEMMA InsertGood ==
  ASSUME NEW t, GoodTable(t), NEW k \in Key, NEW v \in Value
  PROVE  GoodTable(Insert(t, k, v))
  <1> DEFINE i == IF At(t, k) # 0 THEN At(t, k) ELSE At(t, NoKey)
  <1>1. i = 0 \/ (i \in Place /\ t[i].key \in {k, NoKey})
    BY AtFacts DEF GoodTable
  <1>2. CASE i = 0
    BY <1>2 DEF Insert
  <1>3. CASE i # 0
    <2>1. Insert(t, k, v) = [t EXCEPT ![i] = [key |-> k, val |-> v]]
      BY <1>3 DEF Insert
    <2>2. \A j \in Place : t[j].key = k => j = i
      BY AtUnique, AtFacts, EnvironAssumption DEF GoodTable
    <2>3. [key |-> k, val |-> v] \in Entry
      BY DEF Entry
    <2> HIDE DEF i
    <2>4. Insert(t, k, v) \in [Place -> Entry]
      BY <2>1, <2>3 DEF GoodTable
    <2>5. \A j \in Place : Insert(t, k, v)[j] =
              IF j = i THEN [key |-> k, val |-> v] ELSE t[j]
      BY <2>1 DEF GoodTable
    <2>6. Distinct(Insert(t, k, v))
      <3> SUFFICES ASSUME NEW a \in Place, NEW b \in Place,
                          Insert(t, k, v)[a].key # NoKey,
                          Insert(t, k, v)[a].key = Insert(t, k, v)[b].key
                   PROVE  a = b
        BY DEF Distinct
      <3>1. CASE a = i /\ b = i
        BY <3>1
      <3>2. CASE a = i /\ b # i
        BY <3>2, <2>2, <2>5
      <3>3. CASE a # i /\ b = i
        BY <3>3, <2>2, <2>5
      <3>4. CASE a # i /\ b # i
        BY <3>4, <2>5 DEF GoodTable, Distinct
      <3> QED
        BY <3>1, <3>2, <3>3, <3>4
    <2>7. Written(Insert(t, k, v))
      BY <2>5 DEF GoodTable, Written
    <2> QED
      BY <2>4, <2>6, <2>7 DEF GoodTable
  <1> QED
    BY <1>2, <1>3

LEMMA InsertValues ==
  ASSUME NEW t, GoodTable(t), NEW k \in Key, NEW v \in Value, NEW n \in Key,
         At(t, k) # 0 \/ At(t, NoKey) # 0
  PROVE  ValueIn(Insert(t, k, v), n) = IF n = k THEN v ELSE ValueIn(t, n)
  <1> DEFINE i == IF At(t, k) # 0 THEN At(t, k) ELSE At(t, NoKey)
  <1>1. i # 0 /\ i \in Place /\ t[i].key \in {k, NoKey}
    BY AtFacts DEF GoodTable
  <1>2. Insert(t, k, v) = [t EXCEPT ![i] = [key |-> k, val |-> v]]
    BY <1>1 DEF Insert
  <1>3. GoodTable(Insert(t, k, v))
    BY InsertGood
  <1> HIDE DEF i
  <1>4. \A j \in Place : Insert(t, k, v)[j] =
            IF j = i THEN [key |-> k, val |-> v] ELSE t[j]
    BY <1>2 DEF GoodTable
  <1>5. CASE n = k
    <2>1. At(Insert(t, k, v), n) = i
      BY <1>1, <1>3, <1>4, <1>5, AtUnique DEF GoodTable
    <2> QED
      BY <1>1, <1>4, <1>5, <2>1 DEF ValueIn
  <1>6. CASE n # k /\ At(t, n) = 0
    <2>1. \A j \in Place : t[j].key # n
      BY <1>6, AtFacts DEF GoodTable
    <2>2. \A j \in Place : Insert(t, k, v)[j].key # n
      BY <1>4, <1>6, <2>1
    <2>3. At(Insert(t, k, v), n) = 0
      BY <1>3, <2>2, AtNone DEF GoodTable
    <2> QED
      BY <1>6, <2>3 DEF ValueIn
  <1>7. CASE n # k /\ At(t, n) # 0
    <2>1. PICK a \in Place : a = At(t, n) /\ t[a].key = n
      BY <1>7, AtFacts DEF GoodTable
    <2>2. a # i /\ a # 0
      BY <1>1, <1>7, <2>1, EnvironAssumption
    <2>3. At(Insert(t, k, v), n) = a
      BY <1>3, <1>4, <2>1, <2>2, AtUnique DEF GoodTable
    <2> QED
      BY <1>4, <1>7, <2>1, <2>2, <2>3 DEF ValueIn
  <1> QED
    BY <1>5, <1>6, <1>7

\* erase: the table stays good, and k has no value afterwards.
LEMMA EraseGood ==
  ASSUME NEW t, GoodTable(t), NEW k \in Key
  PROVE  GoodTable(Erase(t, k))
  <1>1. CASE At(t, k) = 0
    BY <1>1 DEF Erase
  <1>2. CASE At(t, k) # 0
    <2>1. PICK i \in Place : i = At(t, k) /\ t[i].key = k
      BY <1>2, AtFacts DEF GoodTable
    <2>2. Erase(t, k) = [t EXCEPT ![i].key = NoKey]
      BY <1>2, <2>1 DEF Erase
    <2>3. \A j \in Place : Erase(t, k)[j] =
              IF j = i THEN [key |-> NoKey, val |-> t[i].val] ELSE t[j]
      BY <2>2 DEF GoodTable, Entry
    <2>4. Erase(t, k) \in [Place -> Entry]
      BY <2>2 DEF GoodTable, Entry
    <2>5. Distinct(Erase(t, k)) /\ Written(Erase(t, k))
      BY <2>3 DEF GoodTable, Distinct, Written
    <2> QED
      BY <2>4, <2>5 DEF GoodTable
  <1> QED
    BY <1>1, <1>2

LEMMA EraseValues ==
  ASSUME NEW t, GoodTable(t), NEW k \in Key, NEW n \in Key
  PROVE  ValueIn(Erase(t, k), n) = IF n = k THEN NoText ELSE ValueIn(t, n)
  <1>1. CASE At(t, k) = 0
    BY <1>1 DEF Erase, ValueIn
  <1>2. CASE At(t, k) # 0
    <2>1. PICK i \in Place : i = At(t, k) /\ t[i].key = k
      BY <1>2, AtFacts DEF GoodTable
    <2>2. Erase(t, k) = [t EXCEPT ![i].key = NoKey]
      BY <1>2, <2>1 DEF Erase
    <2>3. \A j \in Place : Erase(t, k)[j] =
              IF j = i THEN [key |-> NoKey, val |-> t[i].val] ELSE t[j]
      BY <2>2 DEF GoodTable, Entry
    <2>4. GoodTable(Erase(t, k))
      BY EraseGood
    <2>5. CASE n = k
      <3>1. \A j \in Place : Erase(t, k)[j].key # n
        BY <2>1, <2>3, <2>5, EnvironAssumption DEF GoodTable, Distinct
      <3>2. At(Erase(t, k), n) = 0
        BY <2>4, <3>1, AtNone DEF GoodTable
      <3> QED
        BY <2>5, <3>2 DEF ValueIn
    <2>6. CASE n # k /\ At(t, n) = 0
      <3>1. \A j \in Place : t[j].key # n
        BY <2>6, AtFacts DEF GoodTable
      <3>2. \A j \in Place : Erase(t, k)[j].key # n
        BY <2>3, <3>1, EnvironAssumption
      <3>3. At(Erase(t, k), n) = 0
        BY <2>4, <3>2, AtNone DEF GoodTable
      <3> QED
        BY <2>6, <3>3 DEF ValueIn
    <2>7. CASE n # k /\ At(t, n) # 0
      <3>1. PICK a \in Place : a = At(t, n) /\ t[a].key = n
        BY <2>7, AtFacts DEF GoodTable
      <3>2. a # i /\ a # 0
        BY <2>1, <2>7, <3>1
      <3>3. At(Erase(t, k), n) = a
        BY <2>3, <2>4, <3>1, <3>2, AtUnique DEF GoodTable
      <3> QED
        BY <2>3, <2>7, <3>1, <3>2, <3>3 DEF ValueIn
    <2> QED
      BY <2>5, <2>6, <2>7
  <1> QED
    BY <1>1, <1>2

\* A table with a free entry holds fewer variables than it has entries.
LEMMA RoomLeft ==
  ASSUME NEW t, GoodTable(t), At(t, NoKey) # 0
  PROVE  Cardinality({k \in Key : ValueIn(t, k) # NoText}) < Size
  <1>1. PICK i \in Place : t[i].key = NoKey
    BY AtFacts DEF GoodTable
  <1> DEFINE Used == Place \ {i}
             f == [j \in Used |-> t[j].key]
             Names == {k \in Key : ValueIn(t, k) # NoText}
             Held == {f[j] : j \in Used}
  <1>2. IsFiniteSet(Place) /\ Cardinality(Place) = Size
    BY EnvironAssumption, FS_Interval DEF Place
  <1>3. IsFiniteSet(Used) /\ Cardinality(Used) = Size - 1
    BY <1>1, <1>2, FS_RemoveElement
  <1>4. IsFiniteSet(Held) /\ Cardinality(Held) <= Cardinality(Used)
    <2>1. f \in Surjection(Used, Held)
      BY DEF Surjection
    <2> HIDE DEF f, Used, Held
    <2> QED
      BY <1>3, <2>1, FS_Surjection
  <1>5. Names \subseteq Held
    <2> SUFFICES ASSUME NEW k \in Names PROVE k \in Held
      OBVIOUS
    <2>1. At(t, k) # 0
      BY DEF ValueIn
    <2>2. PICK j \in Place : t[j].key = k
      BY <2>1, AtFacts DEF GoodTable
    <2> QED
      BY <1>1, <2>2, EnvironAssumption
  <1>6. Cardinality(Names) <= Cardinality(Held)
    BY <1>4, <1>5, FS_Subset
  <1>7. Cardinality(Names) \in Nat /\ Cardinality(Held) \in Nat
    BY <1>4, <1>5, FS_Subset, FS_CardinalityType
  <1> QED
    BY <1>3, <1>4, <1>6, <1>7, EnvironAssumption

-----------------------------------------------------------------------------
\* Each step of Environ is a step of Family.
LEMMA EnvironStepsFamily == [EnvNext]_vars => [Next]_family
  BY DEF EnvNext, vars, Next, family, SetEnv, UnsetEnv, SwitchPenv, EnvFork,
         EnvSettle, EnvCollect, EnvCollapse

LEMMA GetProcessFacts ==
  ASSUME FamilyInv, NEW n, GetProcess(n) # 0
  PROVE  GetProcess(n) \in InUse /\ pid[GetProcess(n)] = n
  <1> DEFINE S == {s \in Slot : stage[s] # "none" /\ pid[s] = n}
  <1>1. S # {} /\ S \in SUBSET Nat
    BY DEF GetProcess, Slot
  <1>2. \E s \in S : \A u \in S : s <= u
    BY <1>1, LeastNumber
  <1>3. GetProcess(n) \in S
    BY <1>1, <1>2 DEF GetProcess
  <1> QED
    BY <1>3 DEF InUse

\* The page a call works on is never that of init: it is the caller's or that of
\* a parent with a page of its own.
LEMMA EnvOfFacts ==
  ASSUME EnvInv, NEW p \in Alive \ {1}, EnvOf(p) # 0
  PROVE  /\ EnvOf(p) \in InUse \ {1}
         /\ \/ ptr[p] # "none" /\ EnvOf(p) = p
            \/ /\ ptr[p] = "none"
               /\ \E q \in InUse : /\ pid[q] = ppid[p] /\ ptr[q] # "none"
                                  /\ EnvOf(p) = IF q = 1 THEN p ELSE q
  <1> DEFINE q == GetProcess(ppid[p])
  <1>1. p \in InUse \ {1} /\ p \in Slot
    BY DEF Alive, InUse
  <1>2. CASE ptr[p] # "none"
    BY <1>1, <1>2 DEF EnvOf
  <1>3. CASE ptr[p] = "none"
    <2>1. q # 0
      BY <1>3 DEF EnvOf
    <2>2. q \in InUse /\ pid[q] = ppid[p]
      BY <2>1, GetProcessFacts DEF EnvInv
    <2>3. q \in Slot /\ ptr[q] \in {"own", "user", "none"}
      BY <2>2 DEF InUse, EnvInv, EnvTypeOK
    <2> HIDE DEF q
    <2>4. EnvOf(p) = CASE ptr[q] = "own"  -> q
                       [] ptr[q] = "user" -> p
                       [] ptr[q] = "none" -> 0
      BY <1>3, <2>1 DEF EnvOf, q
    <2>5. CASE ptr[q] = "own"
      BY <1>3, <2>2, <2>4, <2>5 DEF EnvInv, Pointers
    <2>6. CASE ptr[q] = "user"
      <3>1. q = 1
        BY <2>3, <2>6 DEF EnvInv, Pointers
      <3> QED
        BY <1>1, <1>3, <2>2, <2>4, <2>6, <3>1
    <2>7. CASE ptr[q] = "none"
      BY <2>4, <2>7
    <2> QED
      BY <2>3, <2>5, <2>6, <2>7
  <1> QED
    BY <1>2, <1>3

-----------------------------------------------------------------------------
\* The inductive invariant.
LEMMA EmptyGood ==
  GoodTable(EmptyTable) /\ \A k \in Key : ValueIn(EmptyTable, k) = NoText
  <1>1. GoodTable(EmptyTable)
    BY DEF GoodTable, EmptyTable, Entry, Distinct, Written
  <1>2. ASSUME NEW k \in Key PROVE ValueIn(EmptyTable, k) = NoText
    BY EnvironAssumption DEF ValueIn, At, EmptyTable
  <1> QED
    BY <1>1, <1>2

LEMMA EnvironInit == EnvInit => EnvInv
  <1> SUFFICES ASSUME EnvInit PROVE EnvInv
    OBVIOUS
  <1>1. FamilyInv
    BY FamilyInit DEF EnvInit
  <1>2. \A s \in Slot : GoodTable(page[s])
    BY EmptyGood DEF EnvInit
  <1>3. EnvTypeOK /\ Pointers
    BY EmptyGood, InitSlot DEF EnvInit, EnvTypeOK, Pointers, GoodTable
  <1> QED
    BY <1>1, <1>2, <1>3 DEF EnvInv

\* A step that replaces one table by a good one, or gives a process other than
\* init another pointer that is not a user address, keeps the invariant.
LEMMA OneTable ==
  ASSUME EnvInv, FamilyInv', NEW s \in Slot, NEW t, GoodTable(t),
         page' = [page EXCEPT ![s] = t], ptr' = ptr
  PROVE  EnvInv'
  <1>1. \A u \in Slot : GoodTable(page'[u])
    BY DEF EnvInv, EnvTypeOK
  <1>2. EnvTypeOK'
    BY DEF EnvInv, EnvTypeOK, GoodTable
  <1>3. Pointers'
    BY DEF EnvInv, Pointers
  <1> QED
    BY <1>1, <1>2, <1>3 DEF EnvInv

LEMMA OnePointer ==
  ASSUME EnvInv, FamilyInv', NEW s \in Slot \ {1}, NEW t, GoodTable(t),
         NEW w \in {"own", "none"},
         page' = [page EXCEPT ![s] = t], ptr' = [ptr EXCEPT ![s] = w]
  PROVE  EnvInv'
  <1>1. \A u \in Slot : GoodTable(page'[u])
    BY DEF EnvInv, EnvTypeOK
  <1>2. EnvTypeOK'
    BY DEF EnvInv, EnvTypeOK, GoodTable
  <1>3. Pointers'
    BY InitSlot DEF EnvInv, EnvTypeOK, Pointers
  <1> QED
    BY <1>1, <1>2, <1>3 DEF EnvInv

LEMMA EnvironStep ==
  ASSUME EnvInv, [EnvNext]_vars
  PROVE  EnvInv'
  <1>1. FamilyInv'
    BY EnvironStepsFamily, FamilyStep, EnvironAssumption DEF EnvInv
  <1>2. ASSUME NEW p \in Slot, NEW k \in Key, NEW v \in Value, SetEnv(p, k, v)
        PROVE  EnvInv'
    <2>1. EnvOf(p) \in Slot
      BY <1>2, EnvOfFacts DEF SetEnv, Caller, Alive, InUse
    <2>2. GoodTable(Insert(page[EnvOf(p)], k, v))
      BY <2>1, InsertGood DEF EnvInv
    <2>3. /\ page' = [page EXCEPT ![EnvOf(p)] = Insert(page[EnvOf(p)], k, v)]
          /\ ptr' = ptr
      BY <1>2 DEF SetEnv
    <2> QED
      BY <1>1, <2>1, <2>2, <2>3, OneTable
  <1>3. ASSUME NEW p \in Slot, NEW k \in Key, UnsetEnv(p, k) PROVE EnvInv'
    <2>1. EnvOf(p) \in Slot
      BY <1>3, EnvOfFacts DEF UnsetEnv, Caller, Alive, InUse
    <2>2. GoodTable(Erase(page[EnvOf(p)], k))
      BY <2>1, EraseGood DEF EnvInv
    <2>3. /\ page' = [page EXCEPT ![EnvOf(p)] = Erase(page[EnvOf(p)], k)]
          /\ ptr' = ptr
      BY <1>3 DEF UnsetEnv
    <2> QED
      BY <1>1, <2>1, <2>2, <2>3, OneTable
  <1>4. ASSUME NEW p \in Slot, SwitchPenv(p) PROVE EnvInv'
    <2>1. page' = [page EXCEPT ![p] = page[p]] /\ p \in Slot \ {1}
      BY <1>4 DEF SwitchPenv, EnvInv, EnvTypeOK
    <2>2. ptr' = [ptr EXCEPT ![p] = "none"] /\ GoodTable(page[p])
      BY <1>4 DEF SwitchPenv, EnvInv
    <2> QED
      BY <1>1, <2>1, <2>2, OnePointer
  <1>5. ASSUME NEW p \in Slot, NEW c \in Slot, EnvFork(p, c) PROVE EnvInv'
    <2>1. c \in Slot \ {1} /\ GoodTable(page[p])
      BY <1>5 DEF EnvFork, Fork, EnvInv, FamilyInv, Parented, InitFirst
    <2> QED
      BY <1>1, <1>5, <2>1, OnePointer DEF EnvFork
  <1>6. ASSUME NEW D, NEW A, EnvSettle(D, A) PROVE EnvInv'
    BY <1>1, <1>6 DEF EnvSettle, EnvInv, EnvTypeOK, Pointers
  <1>7. ASSUME NEW z \in Dead, NEW A, EnvCollect(z, A) PROVE EnvInv'
    <2>1. z \in Slot \ {1}
      BY <1>7 DEF EnvCollect, Collect, Dead
    <2> QED
      BY <1>1, <1>7, <2>1, OnePointer, EmptyGood DEF EnvCollect
  <1>8. CASE EnvCollapse
    BY <1>1, <1>8 DEF EnvCollapse, EnvInv, EnvTypeOK, Pointers
  <1>9. CASE UNCHANGED vars
    BY <1>1, <1>9 DEF vars, EnvInv, EnvTypeOK, Pointers
  <1> QED
    BY <1>2, <1>3, <1>4, <1>5, <1>6, <1>7, <1>8, <1>9 DEF EnvNext

\* The inductive invariant holds in every reachable state.
THEOREM EnvironInvariant == EnvSpec => []EnvInv
  <1>1. EnvInit => EnvInv
    BY EnvironInit
  <1>2. EnvInv /\ [EnvNext]_vars => EnvInv'
    BY EnvironStep
  <1> QED
    BY <1>1, <1>2, PTL DEF EnvSpec

\* The processes of Environ are those of Family, so the theorems of
\* FamilyProofs hold for them.
THEOREM EnvironIsFamily == EnvSpec => Spec
  <1>1. EnvInit => Init
    BY DEF EnvInit
  <1>2. [EnvNext]_vars => [Next]_family
    BY EnvironStepsFamily
  <1> QED
    BY <1>1, <1>2, PTL DEF EnvSpec, Spec

\* No name occurs twice in a table, whoever works on it.
THEOREM EnvironNoDuplicates == EnvSpec => []NoDuplicates
  <1>1. EnvInv => NoDuplicates
    BY DEF EnvInv, GoodTable, Distinct, NoDuplicates
  <1> QED
    BY <1>1, EnvironInvariant, PTL

-----------------------------------------------------------------------------
\* A table in use changes only by its own process or a switched child.
LEMMA CallKeeps ==
  ASSUME EnvInv, NEW p \in Slot, Caller(p), NEW t,
         page' = [page EXCEPT ![EnvOf(p)] = t],
         NEW s \in Slot, page'[s] # page[s]
  PROVE  /\ s # 1 /\ stage[1] = "alive"
         /\ \E q \in Alive :
              \/ q = s /\ (ptr[q] = "own" \/ ppid[q] = pid[1])
              \/ ptr[q] = "none" /\ ppid[q] = pid[s] /\ ptr[s] = "own"
  <1>1. p \in Alive \ {1} /\ EnvOf(p) # 0 /\ stage[1] = "alive"
    BY DEF Caller, Alive
  <1>2. s = EnvOf(p) /\ s # 1 /\ s \in InUse
    BY <1>1, EnvOfFacts DEF EnvInv, EnvTypeOK
  <1>3. CASE ptr[p] # "none"
    <2>1. p = s /\ ptr[p] = "own"
      BY <1>1, <1>2, <1>3, EnvOfFacts DEF EnvInv, EnvTypeOK, Pointers
    <2> QED
      BY <1>1, <1>2, <2>1
  <1>4. CASE ptr[p] = "none"
    <2>1. PICK q \in InUse : /\ pid[q] = ppid[p] /\ ptr[q] # "none"
                             /\ s = IF q = 1 THEN p ELSE q
      BY <1>1, <1>2, <1>4, EnvOfFacts
    <2>2. CASE q = 1
      BY <1>1, <1>2, <2>1, <2>2
    <2>3. CASE q # 1
      <3>1. ptr[s] = "own"
        BY <1>2, <2>1, <2>3 DEF EnvInv, EnvTypeOK, Pointers
      <3> QED
        BY <1>1, <1>2, <1>4, <2>1, <2>3, <3>1
    <2> QED
      BY <2>2, <2>3
  <1> QED
    BY <1>3, <1>4

LEMMA TablesStep ==
  EnvInv /\ [EnvNext]_vars =>
    [\A s \in Slot :
        stage[s] # "none" /\ stage'[s] # "none" /\ page'[s] # page[s] =>
          /\ s # 1 /\ stage[1] = "alive"
          /\ \E p \in Alive :
               \/ p = s /\ (ptr[p] = "own" \/ ppid[p] = pid[1])
               \/ ptr[p] = "none" /\ ppid[p] = pid[s] /\ ptr[s] = "own"
      ]_vars
  <1> SUFFICES ASSUME EnvInv, EnvNext, NEW s \in Slot,
                      stage[s] # "none", stage'[s] # "none", page'[s] # page[s]
               PROVE  /\ s # 1 /\ stage[1] = "alive"
                      /\ \E p \in Alive :
                           \/ p = s /\ (ptr[p] = "own" \/ ppid[p] = pid[1])
                           \/ /\ ptr[p] = "none" /\ ppid[p] = pid[s]
                              /\ ptr[s] = "own"
    BY DEF vars
  <1>1. ASSUME NEW p \in Slot, NEW k \in Key, NEW v \in Value, SetEnv(p, k, v)
        PROVE  Caller(p) /\ \E t : page' = [page EXCEPT ![EnvOf(p)] = t]
    BY <1>1 DEF SetEnv
  <1>2. ASSUME NEW p \in Slot, NEW k \in Key, UnsetEnv(p, k)
        PROVE  Caller(p) /\ \E t : page' = [page EXCEPT ![EnvOf(p)] = t]
    BY <1>2 DEF UnsetEnv
  <1>3. ASSUME NEW p \in Slot, NEW c \in Slot, EnvFork(p, c) PROVE FALSE
    BY <1>3 DEF EnvFork, Fork, EnvInv, EnvTypeOK
  <1>4. ASSUME NEW z \in Dead, NEW A, EnvCollect(z, A) PROVE FALSE
    BY <1>4 DEF EnvCollect, Collect, EnvInv, EnvTypeOK, FamilyInv, Parented, TypeOK, Dead
  <1>5. page' # page
    OBVIOUS
  <1> QED
    BY <1>1, <1>2, <1>3, <1>4, <1>5, CallKeeps
    DEF EnvNext, SwitchPenv, EnvSettle, EnvCollapse

\* However processes switch, die and are adopted, nobody but a process and its
\* switched children changes its table, and nobody that of init.
THEOREM EnvironTablesKept == EnvSpec => TablesKept
  BY TablesStep, EnvironInvariant, PTL DEF EnvSpec, TablesKept

-----------------------------------------------------------------------------
\* The refinement mapping of ImplementsEnvMap.
vals == [s \in Slot |-> [k \in Key |-> ValueIn(page[s], k)]]
switched == {s \in InUse : ptr[s] = "none"}

LEMMA MapInitially == EnvInit => Promise!MapInit
  <1> SUFFICES ASSUME EnvInit PROVE Promise!MapInit
    OBVIOUS
  <1>1. Promise!Init
    BY DEF EnvInit, Init, Promise!Init, Promise!Slot, Slot
  <1>2. vals = [s \in Slot |-> [k \in Key |-> NoText]]
    BY EmptyGood DEF EnvInit, vals
  <1>3. switched = {}
    BY DEF EnvInit, Init, switched, InUse
  <1> QED
    BY <1>1, <1>2, <1>3
    DEF Promise!MapInit, Promise!NoVariables, Promise!Slot, Slot, vals, switched

\* Whose table the code works on is whose variables the promise is about.
LEMMA CallerWorksOn ==
  ASSUME EnvInv, NEW p \in Slot, Caller(p)
  PROVE  /\ stage[1] = "alive" /\ stage[p] = "alive" /\ p # 1
         /\ EnvOf(p) \in Slot /\ Promise!WorksOn(p, EnvOf(p))
  <1>1. /\ p \in Alive \ {1} /\ EnvOf(p) # 0 /\ p \in InUse
        /\ stage[1] = "alive" /\ stage[p] = "alive" /\ p # 1
    BY DEF Caller, Alive, InUse
  <1>2. EnvOf(p) \in Slot
    BY <1>1, EnvOfFacts DEF InUse
  <1>3. Promise!InUse = InUse
    BY DEF Promise!InUse, InUse, Promise!Slot, Slot
  <1>4. CASE ptr[p] # "none"
    <2>1. EnvOf(p) = p
      BY <1>1, <1>4, EnvOfFacts
    <2> QED
      BY <1>1, <1>2, <1>4, <2>1 DEF Promise!WorksOn
  <1>5. CASE ptr[p] = "none"
    <2>1. PICK q \in InUse : /\ pid[q] = ppid[p] /\ ptr[q] # "none"
                             /\ EnvOf(p) = IF q = 1 THEN p ELSE q
      BY <1>1, <1>5, EnvOfFacts
    <2> QED
      BY <1>1, <1>2, <1>3, <1>5, <2>1 DEF Promise!WorksOn
  <1> QED
    BY <1>4, <1>5

\* The values of one table, and so of one process, change.
LEMMA OneChange ==
  ASSUME EnvInv, NEW s \in Slot, NEW t, page' = [page EXCEPT ![s] = t]
  PROVE  vals' = [vals EXCEPT ![s] = [k \in Key |-> ValueIn(t, k)]]
  <1>1. page'[s] = t /\ \A u \in Slot \ {s} : page'[u] = page[u]
    BY DEF EnvInv, EnvTypeOK
  <1>2. vals' = [u \in Slot |-> [k \in Key |-> ValueIn(page'[u], k)]]
    BY DEF vals, ValueIn, At
  <1>3. \A u \in Slot : [k \in Key |-> ValueIn(page'[u], k)] =
            IF u = s THEN [k \in Key |-> ValueIn(t, k)]
            ELSE [k \in Key |-> ValueIn(page[u], k)]
    BY <1>1
  <1>4. \A u \in Slot : vals'[u] =
            IF u = s THEN [k \in Key |-> ValueIn(t, k)] ELSE vals[u]
    BY <1>2, <1>3 DEF vals
  <1> QED
    BY <1>2, <1>4 DEF vals

\* EnvMap counts as this module does.
LEMMA SameCardinality == \A S : Promise!Cardinality(S) = Cardinality(S)
  BY DEF Promise!Cardinality, Cardinality, Promise!IsFiniteSet, IsFiniteSet

LEMMA SetEnvMaps ==
  ASSUME EnvInv, NEW p \in Slot, NEW k \in Key, NEW v \in Value, SetEnv(p, k, v)
  PROVE  (\E s \in Slot : Promise!Put(p, s, k, v)) \/ UNCHANGED Promise!mapped
  <1>1. PICK s \in Slot : s = EnvOf(p) /\ Promise!WorksOn(p, s)
    BY CallerWorksOn DEF SetEnv
  <1> DEFINE t == page[s]
  <1>2. GoodTable(t)
    BY DEF EnvInv
  <1>3. page' = [page EXCEPT ![s] = Insert(t, k, v)]
    BY <1>1 DEF SetEnv
  <1>4. vals' = [vals EXCEPT ![s] = [n \in Key |-> ValueIn(Insert(t, k, v), n)]]
    BY <1>3, OneChange
  <1>5. switched' = switched /\ UNCHANGED <<stage, pid, ppid, pidNum>>
    BY DEF SetEnv, switched, InUse
  <1>6. vals[s] = [n \in Key |-> ValueIn(t, n)] /\ vals = [u \in Slot |-> vals[u]]
    BY DEF vals
  <1>7. CASE At(t, k) # 0 \/ At(t, NoKey) # 0
    <2>1. \A n \in Key : ValueIn(Insert(t, k, v), n) =
              IF n = k THEN v ELSE ValueIn(t, n)
      BY <1>2, <1>7, InsertValues
    <2>2. [n \in Key |-> ValueIn(Insert(t, k, v), n)] = [vals[s] EXCEPT ![k] = v]
      BY <1>6, <2>1
    <2>3. vals' = [vals EXCEPT ![s][k] = v]
      BY <1>4, <2>2
    <2>4. {n \in Key : vals[s][n] # NoText} = {n \in Key : ValueIn(t, n) # NoText}
      BY <1>6
    <2>5. k \in Promise!IsSet(s) \/ Cardinality(Promise!IsSet(s)) < Size
      <3>1. Promise!IsSet(s) = {n \in Key : ValueIn(t, n) # NoText}
        BY <2>4 DEF Promise!IsSet, vals
      <3>2. CASE At(t, k) # 0
        <4>1. ValueIn(t, k) \in Value
          BY <1>2, <3>2, AtFacts, EnvironAssumption DEF ValueIn, GoodTable, Written
        <4> QED
          BY <3>1, <4>1, EnvironAssumption
      <3>3. CASE At(t, NoKey) # 0
        <4>1. Cardinality({n \in Key : ValueIn(t, n) # NoText}) < Size
          BY <1>2, <3>3, RoomLeft
        <4> QED
          BY <3>1, <4>1
      <3> QED
        BY <1>7, <3>2, <3>3
    <2>6. /\ stage[1] = "alive" /\ stage[p] = "alive" /\ p # 1
      BY CallerWorksOn DEF SetEnv
    <2> QED
      BY <1>1, <1>5, <2>3, <2>5, <2>6, SameCardinality
      DEF Promise!Put, vals, switched
  <1>8. CASE At(t, k) = 0 /\ At(t, NoKey) = 0
    <2>1. Insert(t, k, v) = t
      BY <1>8 DEF Insert
    <2>2. vals' = vals
      BY <1>4, <1>6, <2>1
    <2> QED
      BY <1>5, <2>2 DEF Promise!mapped, vals, switched
  <1> QED
    BY <1>7, <1>8

LEMMA UnsetEnvMaps ==
  ASSUME EnvInv, NEW p \in Slot, NEW k \in Key, UnsetEnv(p, k)
  PROVE  \E s \in Slot : Promise!Remove(p, s, k)
  <1>1. PICK s \in Slot : s = EnvOf(p) /\ Promise!WorksOn(p, s)
    BY CallerWorksOn DEF UnsetEnv
  <1> DEFINE t == page[s]
  <1>2. page' = [page EXCEPT ![s] = Erase(t, k)] /\ GoodTable(t)
    BY <1>1 DEF UnsetEnv, EnvInv
  <1>3. vals' = [vals EXCEPT ![s] = [n \in Key |-> ValueIn(Erase(t, k), n)]]
    BY <1>2, OneChange
  <1>4. switched' = switched /\ UNCHANGED <<stage, pid, ppid, pidNum>>
    BY DEF UnsetEnv, switched, InUse
  <1>5. vals[s] = [n \in Key |-> ValueIn(t, n)]
    BY DEF vals
  <1>6. \A n \in Key : ValueIn(Erase(t, k), n) =
            IF n = k THEN NoText ELSE ValueIn(t, n)
    BY <1>2, EraseValues
  <1>7. vals' = [vals EXCEPT ![s][k] = NoText]
    <2> DEFINE erased == [n \in Key |-> ValueIn(Erase(t, k), n)]
    <2>1. erased = [n \in Key |-> IF n = k THEN NoText ELSE vals[s][n]]
      BY <1>5, <1>6
    <2>2. DOMAIN vals[s] = Key
      BY <1>5
    <2>3. erased = [vals[s] EXCEPT ![k] = NoText]
      BY <1>5, <2>1, <2>2
    <2> HIDE DEF erased
    <2>4. vals' = [vals EXCEPT ![s] = erased]
      BY <1>3 DEF erased
    <2> QED
      BY <2>3, <2>4
  <1>8. stage[1] = "alive" /\ stage[p] = "alive" /\ p # 1
    BY CallerWorksOn DEF UnsetEnv
  <1> QED
    BY <1>1, <1>4, <1>7, <1>8 DEF Promise!Remove, vals, switched

LEMMA SwitchMaps ==
  ASSUME EnvInv, NEW p \in Slot, SwitchPenv(p)
  PROVE  Promise!Switch(p)
  <1>1. vals' = vals
    BY DEF SwitchPenv, vals, ValueIn, At
  <1>2. switched' = switched \cup {p}
    <2>1. p \in InUse /\ InUse' = InUse /\ InUse \subseteq Slot
      BY DEF SwitchPenv, InUse
    <2>2. ptr'[p] = "none" /\ \A s \in Slot : s # p => ptr'[s] = ptr[s]
      BY DEF SwitchPenv, EnvInv, EnvTypeOK
    <2> QED
      BY <2>1, <2>2 DEF switched
  <1>3. /\ p # 1 /\ stage[p] = "alive" /\ stage[1] = "alive"
        /\ UNCHANGED <<stage, pid, ppid, pidNum>>
    BY DEF SwitchPenv
  <1> QED
    BY <1>1, <1>2, <1>3 DEF Promise!Switch, vals, switched

LEMMA ForkMaps ==
  ASSUME EnvInv, NEW p \in Slot, NEW c \in Slot, EnvFork(p, c)
  PROVE  Promise!MapFork(p, c)
  <1>1. page' = [page EXCEPT ![c] = page[p]]
    BY DEF EnvFork
  <1>2. vals' = [vals EXCEPT ![c] = vals[p]]
    <2>1. vals' = [vals EXCEPT ![c] = [k \in Key |-> ValueIn(page[p], k)]]
      BY <1>1, OneChange
    <2>2. vals[p] = [k \in Key |-> ValueIn(page[p], k)]
      BY DEF vals
    <2> QED
      BY <2>1, <2>2
  <1>3. /\ ptr' = [ptr EXCEPT ![c] = "own"] /\ ptr[p] # "none"
        /\ stage' = [stage EXCEPT ![c] = "alive"] /\ stage[c] = "none"
    BY DEF EnvFork, Fork
  <1>4. switched' = switched
    BY <1>3 DEF switched, InUse, EnvInv, EnvTypeOK, FamilyInv, Parented, TypeOK
  <1>5. p \notin switched /\ Promise!Fork(p, c)
    BY <1>3 DEF switched, EnvFork, Fork, Promise!Fork
  <1> QED
    BY <1>2, <1>4, <1>5 DEF Promise!MapFork, vals, switched

LEMMA SettleMaps ==
  ASSUME EnvInv, NEW D \in SUBSET Alive, NEW A, EnvSettle(D, A)
  PROVE  Promise!MapSettle(D, A)
  <1>1. vals' = vals
    BY DEF EnvSettle, vals, ValueIn, At
  <1>2. InUse' = InUse
    BY DEF EnvSettle, Settle, InUse, Alive
  <1>3. switched' = switched
    BY <1>2 DEF EnvSettle, switched
  <1>4. Promise!Settle(D, A)
    BY DEF EnvSettle, Settle, Promise!Settle, Promise!Slot, Slot
  <1> QED
    BY <1>1, <1>3, <1>4 DEF Promise!MapSettle, vals, switched

LEMMA CollectMaps ==
  ASSUME EnvInv, NEW z \in Dead, NEW A, EnvCollect(z, A)
  PROVE  Promise!MapCollect(z, A)
  <1>1. z \in Slot
    BY DEF Dead
  <1>2. vals' = [vals EXCEPT ![z] = [k \in Key |-> NoText]]
    <2>1. page' = [page EXCEPT ![z] = EmptyTable]
      BY DEF EnvCollect
    <2>2. [k \in Key |-> ValueIn(EmptyTable, k)] = [k \in Key |-> NoText]
      BY EmptyGood
    <2>3. vals' = [vals EXCEPT ![z] = [k \in Key |-> ValueIn(EmptyTable, k)]]
      BY <1>1, <2>1, OneChange
    <2> QED
      BY <2>2, <2>3
  <1>3. switched' = switched \ {z}
    <2>1. stage' = [stage EXCEPT ![z] = "none"] /\ ptr' = [ptr EXCEPT ![z] = "none"]
      BY DEF EnvCollect, Collect
    <2> QED
      BY <1>1, <2>1 DEF switched, InUse, EnvInv, EnvTypeOK, FamilyInv, Parented, TypeOK
  <1>4. Promise!Collect(z, A)
    BY DEF EnvCollect, Collect, Promise!Collect, Promise!Slot, Slot
  <1> QED
    BY <1>2, <1>3, <1>4
    DEF Promise!MapCollect, Promise!NoVariables, vals, switched

LEMMA CollapseMaps ==
  ASSUME EnvInv, EnvCollapse
  PROVE  Promise!MapCollapse
  <1>1. vals' = vals
    BY DEF EnvCollapse, vals, ValueIn, At
  <1>2. InUse' = InUse
    BY InitSlot
    DEF EnvCollapse, InUse, EnvInv, FamilyInv, Parented, TypeOK, InitFirst
  <1>3. switched' = switched
    BY <1>2 DEF EnvCollapse, switched
  <1>4. Promise!Collapse
    BY DEF EnvCollapse, Collapse, Promise!Collapse, Promise!Slot, Slot
  <1> QED
    BY <1>1, <1>3, <1>4 DEF Promise!MapCollapse, vals, switched

LEMMA StepMaps == EnvInv /\ [EnvNext]_vars => [Promise!MapNext]_Promise!mapped
  <1> SUFFICES ASSUME EnvInv, [EnvNext]_vars
               PROVE  [Promise!MapNext]_Promise!mapped
    OBVIOUS
  <1>1. /\ Promise!Slot = Slot /\ Promise!Alive = Alive /\ Promise!Dead = Dead
    BY DEF Promise!Slot, Slot, Promise!Alive, Alive, Promise!Dead, Dead
  <1>2. ASSUME NEW p \in Slot, NEW k \in Key, NEW v \in Value, SetEnv(p, k, v)
        PROVE  [Promise!MapNext]_Promise!mapped
    BY <1>1, <1>2, SetEnvMaps DEF Promise!MapNext
  <1>3. ASSUME NEW p \in Slot, NEW k \in Key, UnsetEnv(p, k)
        PROVE  Promise!MapNext
    BY <1>1, <1>3, UnsetEnvMaps DEF Promise!MapNext
  <1>4. ASSUME NEW p \in Slot, SwitchPenv(p) PROVE Promise!MapNext
    BY <1>1, <1>4, SwitchMaps DEF Promise!MapNext
  <1>5. ASSUME NEW p \in Slot, NEW c \in Slot, EnvFork(p, c)
        PROVE  Promise!MapNext
    BY <1>1, <1>5, ForkMaps DEF Promise!MapNext
  <1>6. ASSUME NEW D \in SUBSET Alive, NEW A \in SUBSET Dead, EnvSettle(D, A)
        PROVE  Promise!MapNext
    BY <1>1, <1>6, SettleMaps DEF Promise!MapNext
  <1>7. ASSUME NEW z \in Dead, NEW A \in SUBSET Dead, EnvCollect(z, A)
        PROVE  Promise!MapNext
    BY <1>1, <1>7, CollectMaps DEF Promise!MapNext
  <1>8. CASE EnvCollapse
    BY <1>8, CollapseMaps DEF Promise!MapNext
  <1>9. CASE UNCHANGED vars
    BY <1>9 DEF vars, Promise!mapped, InUse, ValueIn, At
  <1> QED
    BY <1>2, <1>3, <1>4, <1>5, <1>6, <1>7, <1>8, <1>9 DEF EnvNext

\* The hash map in shared pages is, to the programs, a function from names to
\* values for each process: for every number of processes, names and values,
\* and every size of the table.
THEOREM EnvironImplementsEnvMap == EnvSpec => ImplementsEnvMap
  <1>1. EnvInit => Promise!MapInit
    BY MapInitially
  <1>2. EnvInv /\ [EnvNext]_vars => [Promise!MapNext]_Promise!mapped
    BY StepMaps
  <1> QED
    BY <1>1, <1>2, EnvironInvariant, PTL
    DEF EnvSpec, ImplementsEnvMap, Promise!MapSpec
=============================================================================
