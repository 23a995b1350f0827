---------------------------- MODULE KernelProofs ----------------------------
(***************************************************************************)
(* What the operators of Lists do to any list, what a loop computes, and   *)
(* type correctness of Kernel, for every value of its constants.           *)
(*                                                                         *)
(* The loops of the kernel are folds, and a fold is a recursive function.  *)
(* Nothing is known of such a function but that it satisfies its equation, *)
(* if any function does.  LoopTotal says that one does, LoopStays and      *)
(* LoopReaches that whatever every turn keeps, the loop keeps.  They rest  *)
(* on the least number principle.  The turns of the loop are given as a    *)
(* function F: one turn takes k to F[k][x].                                *)
(***************************************************************************)
EXTENDS KernelProps, Switch, SequenceTheorems, WellFoundedInduction, TLAPS

-----------------------------------------------------------------------------
(***************************************************************************)
(* Numbers.                                                                *)
(***************************************************************************)
Less == {ss \in Nat \X Nat : ss[1] < ss[2]}

\* A set of numbers has a least element, which is what Min returns.
LEMMA LeastNumber ==
  ASSUME NEW T \in SUBSET Nat, T # {}
  PROVE  \E x \in T : \A y \in T : x <= y
  <1>1. IsWellFoundedOn(Less, Nat)
    BY NatLessThanWellFounded DEF OpToRel, Less
  <1>2. PICK x \in T : \A y \in T : ~ (<<y, x>> \in Less)
    BY <1>1, WFMin
  <1>3. \A y \in T : ~ (y < x)
    BY <1>2 DEF Less
  <1> QED
    BY <1>3

LEMMA MinFacts ==
  ASSUME NEW T \in SUBSET Nat, T # {}
  PROVE  Min(T) \in T /\ \A y \in T : Min(T) <= y
  <1>1. \E x \in T : \A y \in T : x <= y
    BY LeastNumber
  <1> QED
    BY <1>1 DEF Min

\* The numbers up to n are n and the numbers below.
LEMMA UpTo ==
  ASSUME NEW n \in Nat \ {0}
  PROVE  /\ 1 .. n # {} /\ (1 .. n) \ {n} = 1 .. n - 1
         /\ \A s \in SUBSET (1 .. n) : s \ {n} \in SUBSET (1 .. n - 1)
         /\ \A b \in Nat : n <= b => 1 .. n \in SUBSET (1 .. b)
  <1>1. n \in 1 .. n
    OBVIOUS
  <1>2. \A i \in Int : i \in 1 .. n - 1 <=> i \in 1 .. n /\ i # n
    OBVIOUS
  <1>3. (1 .. n) \ {n} = 1 .. n - 1
    BY <1>2
  <1>4. \A s \in SUBSET (1 .. n) : s \ {n} \in SUBSET (1 .. n - 1)
    BY <1>3
  <1>5. ASSUME NEW b \in Nat, n <= b, NEW i \in 1 .. n
        PROVE  i \in 1 .. b
    BY <1>5
  <1> QED
    BY <1>1, <1>3, <1>4, <1>5

\* The greatest number of a set is the bound that is reached.
LEMMA MaxReached ==
  ASSUME NEW n \in Nat, NEW s \in SUBSET (1 .. n), n \in s
  PROVE  Max(s) = n
  <1>1. \A y \in s : n >= y
    OBVIOUS
  <1>2. \A x \in s : (\A y \in s : x >= y) => x = n
    OBVIOUS
  <1> QED
    BY <1>1, <1>2 DEF Max

\* The greatest number of a set of positions is one of them.
LEMMA MaxThere ==
  ASSUME NEW n \in Nat, NEW s \in SUBSET (1 .. n), s # {}
  PROVE  Max(s) \in s
  <1> DEFINE T == {b \in Nat : s \subseteq 1 .. b}
  <1>1. n \in T /\ T \in SUBSET Nat
    OBVIOUS
  <1>2. PICK b \in T : \A c \in T : b <= c
    BY <1>1, LeastNumber
  <1>3. b # 0
    <2>1. 1 .. 0 = {}
      OBVIOUS
    <2> QED
      BY <2>1
  <1>4. b - 1 \in Nat /\ b - 1 \notin T
    BY <1>2, <1>3
  <1>5. b \in s
    BY <1>4
  <1> QED
    BY <1>5, MaxReached

-----------------------------------------------------------------------------
(***************************************************************************)
(* Loops.                                                                  *)
(***************************************************************************)
\* f computes the loop over the first n elements of q, for every set of them.
Computes(f, F, base, q, n) ==
  f = [s \in SUBSET (1 .. n) |->
         IF s = {} THEN base ELSE F[f[s \ {Max(s)}]][q[Max(s)]]]

Computable(F, base, q, n) == \E f : Computes(f, F, base, q, n)

LEMMA ComputableZero ==
  ASSUME NEW F, NEW base, NEW q
  PROVE  Computable(F, base, q, 0)
  <1>1. Computes([s \in SUBSET (1 .. 0) |-> base], F, base, q, 0)
    BY 1 .. 0 = {} DEF Computes
  <1> QED
    BY <1>1 DEF Computable

\* One more turn.
LEMMA ComputableNext ==
  ASSUME NEW F, NEW base, NEW q, NEW n \in Nat, Computable(F, base, q, n)
  PROVE  Computable(F, base, q, n + 1)
  <1>1. PICK f : Computes(f, F, base, q, n)
    BY DEF Computable
  <1> DEFINE g == [s \in SUBSET (1 .. n + 1) |->
                     IF n + 1 \in s THEN F[f[s \ {n + 1}]][q[n + 1]] ELSE f[s]]
             next(s) == IF s = {} THEN base ELSE F[g[s \ {Max(s)}]][q[Max(s)]]
  <1>2. ASSUME NEW s \in SUBSET (1 .. n + 1)
        PROVE  g[s] = next(s)
    <2>1. CASE n + 1 \in s
      <3>1. Max(s) = n + 1
        BY <2>1, MaxReached
      <3>2. /\ s \ {n + 1} \in SUBSET (1 .. n) /\ n + 1 \notin s \ {n + 1}
            /\ s \ {n + 1} \in SUBSET (1 .. n + 1)
        BY <1>2
      <3>3. g[s \ {n + 1}] = f[s \ {n + 1}]
        BY <3>2
      <3>4. g[s] = F[f[s \ {n + 1}]][q[n + 1]]
        BY <2>1
      <3> QED
        BY <2>1, <3>1, <3>3, <3>4
    <2>2. CASE n + 1 \notin s
      <3>1. s \in SUBSET (1 .. n)
        BY <1>2, <2>2
      <3>2. f[s] = IF s = {} THEN base ELSE F[f[s \ {Max(s)}]][q[Max(s)]]
        BY <1>1, <3>1 DEF Computes
      <3>3. /\ g[s] = f[s] /\ s \ {Max(s)} \in SUBSET (1 .. n + 1)
            /\ n + 1 \notin s \ {Max(s)}
        BY <2>2
      <3>4. g[s \ {Max(s)}] = f[s \ {Max(s)}]
        BY <3>3
      <3> QED
        BY <3>2, <3>3, <3>4
    <2> QED
      BY <2>1, <2>2
  <1>3. g = [s \in SUBSET (1 .. n + 1) |-> next(s)]
    BY <1>2
  <1>4. Computes(g, F, base, q, n + 1)
    BY <1>3, Zenon DEF Computes
  <1> QED
    BY <1>4 DEF Computable

LEMMA ComputableAll ==
  ASSUME NEW F, NEW base, NEW q
  PROVE  \A n \in Nat : Computable(F, base, q, n)
  <1> DEFINE T == {n \in Nat : ~ Computable(F, base, q, n)}
  <1> SUFFICES ASSUME T # {} PROVE FALSE
    OBVIOUS
  <1>1. PICK m \in T : \A y \in T : m <= y
    BY LeastNumber
  <1>2. m # 0
    BY ComputableZero
  <1>3. m - 1 \in Nat /\ m - 1 \notin T /\ (m - 1) + 1 = m
    BY <1>1, <1>2
  <1>4. Computable(F, base, q, (m - 1) + 1)
    BY <1>3, ComputableNext
  <1> QED
    BY <1>3, <1>4

\* f satisfies the equation of the loop as long as its values are in K.
Follows(f, F, base, q, K) ==
  /\ f[{}] = base
  /\ \A s \in SUBSET DOMAIN q :
        s # {} /\ f[s \ {Max(s)}] \in K => f[s] = F[f[s \ {Max(s)}]][q[Max(s)]]

\* If every turn stays in K, all of its values are in K.
LEMMA LoopStays ==
  ASSUME NEW K, NEW X, NEW F \in [K -> [X -> K]], NEW base \in K, NEW q \in Seq(X), NEW f,
         Follows(f, F, base, q, K)
  PROVE  \A s \in SUBSET DOMAIN q : f[s] \in K
  <1>1. Len(q) \in Nat /\ DOMAIN q = 1 .. Len(q) /\ \A i \in 1 .. Len(q) : q[i] \in X
    OBVIOUS
  <1> DEFINE T == {n \in Nat : n <= Len(q) /\ \E s \in SUBSET (1 .. n) : f[s] \notin K}
  <1>2. ASSUME T # {} PROVE FALSE
    <2>1. PICK m \in T : \A y \in T : m <= y
      BY <1>2, LeastNumber
    <2>2. PICK s \in SUBSET (1 .. m) : f[s] \notin K
      OBVIOUS
    <2>3. s # {}
      BY <2>2 DEF Follows
    <2>4. m # 0
      <3>1. 1 .. 0 = {}
        OBVIOUS
      <3> QED
        BY <2>2, <2>3, <3>1
    <2>5. m - 1 \in Nat /\ m \in 1 .. Len(q) /\ m - 1 <= Len(q)
      BY <1>1, <2>4
    <2>6. m - 1 \notin T
      <3>1. ~ (m <= m - 1)
        BY <2>5
      <3> QED
        BY <2>1, <3>1
    <2>7. \A t \in SUBSET (1 .. m - 1) : f[t] \in K
      BY <2>5, <2>6
    <2>8. m \in s
      <3>1. ASSUME m \notin s, NEW x \in s PROVE x \in 1 .. m - 1
        BY <2>5, <3>1
      <3> QED
        BY <2>2, <2>7, <3>1
    <2>9. Max(s) = m
      BY <2>5, <2>8, MaxReached
    <2>10. s \ {m} \in SUBSET (1 .. m - 1) /\ s \in SUBSET DOMAIN q
      <3>1. m \in Nat \ {0} /\ m <= Len(q)
        BY <1>1, <2>5
      <3>2. s \ {m} \in SUBSET (1 .. m - 1) /\ 1 .. m \in SUBSET (1 .. Len(q))
        BY <1>1, <2>2, <3>1, UpTo
      <3> QED
        BY <1>1, <2>2, <3>2
    <2>11. f[s] = F[f[s \ {m}]][q[m]]
      BY <2>3, <2>7, <2>9, <2>10 DEF Follows
    <2>12. f[s] \in K
      BY <1>1, <2>5, <2>7, <2>10, <2>11
    <2> QED
      BY <2>2, <2>12
  <1>3. Len(q) \notin T
    BY <1>2
  <1> QED
    BY <1>1, <1>3

\* f is the loop over q, for every set of its positions.
Solves(f, F, base, q) ==
  f = [s \in SUBSET DOMAIN q |-> IF s = {} THEN base ELSE F[f[s \ {Max(s)}]][q[Max(s)]]]

Within(f, q, K, X) ==
  \A s \in SUBSET DOMAIN q : f[s] \in K /\ (s # {} => q[Max(s)] \in X)

\* The equation of a loop whose turns stay in K has a solution, with values in K.
LEMMA LoopTotal ==
  ASSUME NEW K, NEW X, NEW F \in [K -> [X -> K]], NEW base \in K, NEW q \in Seq(X)
  PROVE  \E f : Solves(f, F, base, q) /\ Within(f, q, K, X)
  <1>1. DOMAIN q = 1 .. Len(q) /\ Len(q) \in Nat /\ \A i \in 1 .. Len(q) : q[i] \in X
    OBVIOUS
  <1>2. PICK f : Computes(f, F, base, q, Len(q))
    BY <1>1, ComputableAll DEF Computable
  <1>3. Solves(f, F, base, q)
    BY <1>1, <1>2, Zenon DEF Computes, Solves
  <1>4. Follows(f, F, base, q, K)
    BY <1>3 DEF Follows, Solves
  <1>5. \A s \in SUBSET DOMAIN q : f[s] \in K
    BY <1>4, LoopStays
  <1>6. \A s \in SUBSET DOMAIN q : s # {} => q[Max(s)] \in X
    <2>1. \A s \in SUBSET (1 .. Len(q)) : s # {} => Max(s) \in s
      BY <1>1, MaxThere
    <2> QED
      BY <1>1, <2>1
  <1> QED
    BY <1>3, <1>5, <1>6 DEF Within

\* If turn n takes P[n - 1] to P[n], the loop ends in the last of these sets.
LEMMA LoopReaches ==
  ASSUME NEW X, NEW q \in Seq(X), NEW F, NEW f, NEW P,
         f[{}] \in P[0],
         \A s \in SUBSET DOMAIN q : s # {} => f[s] = F[f[s \ {Max(s)}]][q[Max(s)]],
         \A n \in 1 .. Len(q) : \A k \in P[n - 1] : F[k][q[n]] \in P[n]
  PROVE  f[DOMAIN q] \in P[Len(q)]
  <1>1. Len(q) \in Nat /\ DOMAIN q = 1 .. Len(q)
    OBVIOUS
  <1> DEFINE T == {n \in Nat : n <= Len(q) /\ f[1 .. n] \notin P[n]}
  <1>2. ASSUME T # {} PROVE FALSE
    <2>1. PICK m \in T : \A y \in T : m <= y
      BY <1>2, LeastNumber
    <2>2. m # 0
      <3>1. 1 .. 0 = {}
        OBVIOUS
      <3> QED
        BY <3>1
    <2>3. m - 1 \in Nat /\ m \in 1 .. Len(q) /\ m - 1 <= Len(q)
      BY <1>1, <2>2
    <2>4. f[1 .. m - 1] \in P[m - 1]
      BY <2>1, <2>3
    <2>5. Max(1 .. m) = m
      BY <2>3, MaxReached
    <2>6. m \in Nat \ {0} /\ m <= Len(q)
      BY <1>1, <2>3
    <2>7. 1 .. m # {} /\ (1 .. m) \ {m} = 1 .. m - 1 /\ 1 .. m \in SUBSET DOMAIN q
      BY <1>1, <2>6, UpTo
    <2>8. f[1 .. m] = F[f[1 .. m - 1]][q[m]]
      BY <2>5, <2>7
    <2>9. f[1 .. m] \in P[m]
      BY <2>3, <2>4, <2>8
    <2> QED
      BY <2>9
  <1>3. Len(q) \notin T
    BY <1>2
  <1> QED
    BY <1>1, <1>3

-----------------------------------------------------------------------------
(***************************************************************************)
(* Lists.  A queue is a list without repeats.                              *)
(***************************************************************************)
Queue(X) == {q \in Seq(X) : NoRepeats(q)}

LEMMA EmptyQueue ==
  ASSUME NEW X
  PROVE  <<>> \in Queue(X) /\ \A y : ~ Contains(<<>>, y)
  BY DEF Queue, NoRepeats, Contains

\* IndexOf finds the element.
LEMMA IndexFacts ==
  ASSUME NEW X, NEW q \in Seq(X), NEW x, Contains(q, x)
  PROVE  /\ IndexOf(q, x) \in 1 .. Len(q) /\ q[IndexOf(q, x)] = x
         /\ \A i \in 1 .. Len(q) : q[i] = x => IndexOf(q, x) <= i
  <1> DEFINE T == {i \in 1 .. Len(q) : q[i] = x}
  <1>1. T # {} /\ T \in SUBSET Nat
    BY DEF Contains
  <1>2. IndexOf(q, x) = Min(T)
    BY <1>1 DEF IndexOf, SelectInSeq
  <1>3. Min(T) \in T /\ \A y \in T : Min(T) <= y
    BY <1>1, MinFacts
  <1> QED
    BY <1>2, <1>3

\* The list ends with x after its next pointer was cleared.
LEMMA CutAfterFacts ==
  ASSUME NEW X, NEW q \in Seq(X), NEW x
  PROVE  /\ CutAfter(q, x) \in Seq(X)
         /\ NoRepeats(q) => NoRepeats(CutAfter(q, x))
         /\ ~ Contains(q, x) => CutAfter(q, x) = q
         /\ Contains(q, x) => Contains(CutAfter(q, x), x)
         /\ \A y : Contains(CutAfter(q, x), y) => Contains(q, y)
  <1>1. CASE ~ Contains(q, x)
    BY <1>1 DEF CutAfter
  <1>2. CASE Contains(q, x)
    <2> DEFINE n == IndexOf(q, x)
    <2>1. n \in 1 .. Len(q) /\ q[n] = x
      BY <1>2, IndexFacts
    <2>2. CutAfter(q, x) = SubSeq(q, 1, n)
      BY <1>2 DEF CutAfter
    <2> HIDE DEF n
    <2>3. /\ SubSeq(q, 1, n) \in Seq(X) /\ Len(SubSeq(q, 1, n)) = n
          /\ \A i \in 1 .. n : SubSeq(q, 1, n)[i] = q[i]
      BY <2>1, SubSeqProperties
    <2> QED
      BY <1>2, <2>1, <2>2, <2>3 DEF NoRepeats, Contains
  <1> QED
    BY <1>1, <1>2

\* push_back
LEMMA PushBackFacts ==
  ASSUME NEW X, NEW q \in Queue(X), NEW x \in X
  PROVE  /\ PushBack(q, x) \in Queue(X)
         /\ Contains(PushBack(q, x), x)
         /\ \A y : Contains(PushBack(q, x), y) => Contains(q, y) \/ y = x
         /\ ~ Contains(q, x) =>
               \A y : Contains(PushBack(q, x), y) <=> Contains(q, y) \/ y = x
  <1>1. q \in Seq(X) /\ NoRepeats(q)
    BY DEF Queue
  <1>2. CASE Contains(q, x)
    BY <1>1, <1>2, CutAfterFacts DEF PushBack, Queue
  <1>3. CASE ~ Contains(q, x)
    <2> DEFINE r == Append(q, x)
    <2>1. /\ r \in Seq(X) /\ Len(r) = Len(q) + 1 /\ r[Len(q) + 1] = x
          /\ \A i \in 1 .. Len(q) : r[i] = q[i]
      BY <1>1
    <2>2. Len(q) \in Nat
      BY <1>1
    <2>3. PushBack(q, x) = r
      BY <1>3 DEF PushBack
    <2> HIDE DEF r
    <2>4. \A y : Contains(r, y) <=> Contains(q, y) \/ y = x
      BY <2>1, <2>2 DEF Contains
    <2>5. NoRepeats(r)
      <3> SUFFICES ASSUME NEW i \in DOMAIN r, NEW j \in DOMAIN r, r[i] = r[j]
                   PROVE  i = j
        BY DEF NoRepeats
      <3>1. DOMAIN r = 1 .. Len(q) + 1 /\ DOMAIN q = 1 .. Len(q)
        BY <1>1, <2>1
      <3>2. CASE i = Len(q) + 1 \/ j = Len(q) + 1
        BY <1>3, <2>1, <2>2, <3>1, <3>2 DEF Contains
      <3>3. CASE i # Len(q) + 1 /\ j # Len(q) + 1
        BY <1>1, <2>1, <2>2, <3>1, <3>3 DEF NoRepeats
      <3> QED
        BY <3>2, <3>3
    <2> QED
      BY <2>1, <2>3, <2>4, <2>5 DEF Queue
  <1> QED
    BY <1>2, <1>3

\* remove
LEMMA UnlinkFacts ==
  ASSUME NEW X, NEW q \in Queue(X), NEW x
  PROVE  /\ Unlink(q, x) \in Queue(X)
         /\ \A y : Contains(Unlink(q, x), y) <=> Contains(q, y) /\ y # x
  <1>1. q \in Seq(X) /\ NoRepeats(q) /\ Len(q) \in Nat /\ DOMAIN q = 1 .. Len(q)
    BY DEF Queue
  <1>2. CASE ~ Contains(q, x)
    <2>1. Unlink(q, x) = q
      BY <1>2 DEF Unlink, RemoveFirst, Contains
    <2> QED
      BY <1>2, <2>1
  <1>3. CASE Contains(q, x)
    <2> DEFINE n == IndexOf(q, x)
               r == Unlink(q, x)
    <2>1. n \in 1 .. Len(q) /\ q[n] = x
      BY <1>1, <1>3, IndexFacts
    <2>2. r = SubSeq(q, 1, n - 1) \o SubSeq(q, n + 1, Len(q))
      BY <1>3 DEF Unlink, RemoveFirst, RemoveAt, IndexOf, Contains
    <2> HIDE DEF n, r
    <2>3. /\ SubSeq(q, 1, n - 1) \in Seq(X) /\ Len(SubSeq(q, 1, n - 1)) = n - 1
          /\ \A i \in 1 .. n - 1 : SubSeq(q, 1, n - 1)[i] = q[i]
      BY <1>1, <2>1, SubSeqProperties
    <2>4. /\ SubSeq(q, n + 1, Len(q)) \in Seq(X)
          /\ Len(SubSeq(q, n + 1, Len(q))) = Len(q) - n
          /\ \A i \in 1 .. Len(q) - n : SubSeq(q, n + 1, Len(q))[i] = q[n + i]
      <3> DEFINE t == SubSeq(q, n + 1, Len(q))
      <3>1. /\ n + 1 \in Int /\ Len(q) \in Int
            /\ \A i \in n + 1 .. Len(q) : q[i] \in X
        BY <1>1, <2>1
      <3>2. /\ t \in Seq(X)
            /\ Len(t) = IF n + 1 <= Len(q) THEN Len(q) - (n + 1) + 1 ELSE 0
            /\ \A i \in 1 .. Len(q) - (n + 1) + 1 : t[i] = q[(n + 1) + i - 1]
        BY <3>1, SubSeqProperties
      <3> HIDE DEF t
      <3>3. Len(q) - (n + 1) + 1 = Len(q) - n /\ Len(t) = Len(q) - n
        <4>1. Len(q) - (n + 1) + 1 = Len(q) - n
          BY <1>1, <2>1
        <4>2. CASE n + 1 <= Len(q)
          BY <3>2, <4>1, <4>2
        <4>3. CASE ~ (n + 1 <= Len(q))
          <5>1. Len(q) \in Nat /\ n \in Nat /\ n <= Len(q)
            BY <1>1, <2>1
          <5>2. n = Len(q)
            BY <4>3, <5>1
          <5> QED
            BY <3>2, <4>1, <4>3, <5>1, <5>2
        <4> QED
          BY <4>2, <4>3, <4>1
      <3>4. \A i \in 1 .. Len(q) - n : t[i] = q[n + i]
        <4>1. ASSUME NEW i \in 1 .. Len(q) - n
              PROVE  (n + 1) + i - 1 = n + i
          BY <1>1, <2>1
        <4> QED
          BY <3>2, <3>3, <4>1
      <3> QED
        BY <3>2, <3>3, <3>4 DEF t
    <2>5. /\ r \in Seq(X) /\ Len(r) = Len(q) - 1
          /\ \A i \in 1 .. Len(q) - 1 : r[i] = IF i < n THEN q[i] ELSE q[i + 1]
      <3> DEFINE front == SubSeq(q, 1, n - 1)
                 back  == SubSeq(q, n + 1, Len(q))
      <3>1. front \in Seq(X) /\ back \in Seq(X) /\ r = front \o back
        BY <2>2, <2>3, <2>4
      <3>2. /\ Len(front) = n - 1 /\ \A i \in 1 .. n - 1 : front[i] = q[i]
            /\ Len(back) = Len(q) - n /\ \A i \in 1 .. Len(q) - n : back[i] = q[n + i]
        BY <2>3, <2>4
      <3> HIDE DEF front, back
      <3>3. /\ r \in Seq(X) /\ Len(r) = Len(front) + Len(back)
            /\ \A i \in 1 .. Len(front) + Len(back) :
                  r[i] = IF i <= Len(front) THEN front[i] ELSE back[i - Len(front)]
        BY <3>1, ConcatProperties
      <3>4. Len(front) + Len(back) = Len(q) - 1
        BY <1>1, <2>1, <3>2
      <3>5. ASSUME NEW i \in 1 .. Len(q) - 1
            PROVE  r[i] = IF i < n THEN q[i] ELSE q[i + 1]
        <4>1. CASE i < n
          <5>1. i <= Len(front) /\ i \in 1 .. n - 1
            BY <2>1, <3>2, <4>1
          <5> QED
            BY <3>2, <3>3, <3>4, <4>1, <5>1
        <4>2. CASE ~ (i < n)
          <5>1. ~ (i <= Len(front)) /\ i - Len(front) \in 1 .. Len(q) - n
            BY <1>1, <2>1, <3>2, <4>2
          <5>2. n + (i - Len(front)) = i + 1
            BY <2>1, <3>2
          <5> QED
            BY <3>2, <3>3, <3>4, <4>2, <5>1, <5>2
        <4> QED
          BY <4>1, <4>2
      <3> QED
        BY <3>3, <3>4, <3>5
    <2>6. NoRepeats(r)
      <3> DEFINE from(i) == IF i < n THEN i ELSE i + 1
      <3>1. DOMAIN r = 1 .. Len(q) - 1
        BY <2>5
      <3>2. \A i \in 1 .. Len(q) - 1 : from(i) \in 1 .. Len(q) /\ r[i] = q[from(i)]
        BY <1>1, <2>1, <2>5
      <3>3. \A i, j \in 1 .. Len(q) - 1 : from(i) = from(j) => i = j
        BY <1>1, <2>1
      <3> HIDE DEF from
      <3>4. \A i, j \in 1 .. Len(q) : q[i] = q[j] => i = j
        BY <1>1 DEF NoRepeats
      <3> QED
        BY <3>1, <3>2, <3>3, <3>4 DEF NoRepeats
    <2>7. \A y : Contains(r, y) => Contains(q, y) /\ y # x
      <3> SUFFICES ASSUME NEW i \in 1 .. Len(q) - 1
                   PROVE  Contains(q, r[i]) /\ r[i] # x
        BY <2>5 DEF Contains
      <3> DEFINE j == IF i < n THEN i ELSE i + 1
      <3>1. j \in 1 .. Len(q) /\ r[i] = q[j] /\ j # n
        BY <1>1, <2>1, <2>5
      <3> QED
        BY <1>1, <2>1, <3>1 DEF Contains, NoRepeats
    <2>8. \A y : Contains(q, y) /\ y # x => Contains(r, y)
      <3> SUFFICES ASSUME NEW i \in 1 .. Len(q), q[i] # x
                   PROVE  Contains(r, q[i])
        BY DEF Contains
      <3>1. CASE i < n
        BY <1>1, <2>1, <2>5, <3>1 DEF Contains
      <3>2. CASE i > n
        <4>1. i - 1 \in 1 .. Len(q) - 1 /\ ~ (i - 1 < n) /\ (i - 1) + 1 = i
          BY <1>1, <2>1, <3>2
        <4>2. r[i - 1] = q[i]
          BY <2>5, <4>1
        <4> QED
          BY <2>5, <4>1, <4>2 DEF Contains
      <3> QED
        BY <2>1, <3>1, <3>2
    <2> QED
      BY <2>5, <2>6, <2>7, <2>8 DEF Queue, r
  <1> QED
    BY <1>2, <1>3

\* pop_front
LEMMA TailFacts ==
  ASSUME NEW X, NEW q \in Queue(X), q # <<>>
  PROVE  /\ Tail(q) \in Queue(X) /\ Head(q) \in X /\ Contains(q, Head(q))
         /\ \A y : Contains(Tail(q), y) <=> Contains(q, y) /\ y # Head(q)
  <1>1. q \in Seq(X) /\ NoRepeats(q) /\ Len(q) \in Nat \ {0} /\ DOMAIN q = 1 .. Len(q)
    BY DEF Queue
  <1>2. /\ Tail(q) \in Seq(X) /\ Len(Tail(q)) = Len(q) - 1 /\ Head(q) = q[1]
        /\ \A i \in 1 .. Len(q) - 1 : Tail(q)[i] = q[i + 1]
    BY <1>1
  <1>3. NoRepeats(Tail(q))
    <2>1. DOMAIN Tail(q) = 1 .. Len(q) - 1
      BY <1>2
    <2> QED
      BY <1>1, <1>2, <2>1 DEF NoRepeats
  <1>4. \A y : Contains(Tail(q), y) => Contains(q, y) /\ y # Head(q)
    <2> SUFFICES ASSUME NEW i \in 1 .. Len(q) - 1
                 PROVE  Contains(q, q[i + 1]) /\ q[i + 1] # q[1]
      BY <1>2 DEF Contains
    <2>1. i + 1 \in 1 .. Len(q) /\ 1 \in 1 .. Len(q) /\ i + 1 # 1
      BY <1>1
    <2> QED
      BY <1>1, <2>1 DEF Contains, NoRepeats
  <1>5. \A y : Contains(q, y) /\ y # Head(q) => Contains(Tail(q), y)
    <2> SUFFICES ASSUME NEW i \in 1 .. Len(q), q[i] # q[1]
                 PROVE  Contains(Tail(q), q[i])
      BY <1>2 DEF Contains
    <2>1. i - 1 \in 1 .. Len(q) - 1 /\ (i - 1) + 1 = i
      BY <1>1
    <2> QED
      BY <1>2, <2>1 DEF Contains
  <1>6. Head(q) \in X /\ Contains(q, Head(q))
    <2>1. 1 \in 1 .. Len(q)
      BY <1>1
    <2> QED
      BY <1>1, <1>2, <2>1 DEF Contains
  <1> QED
    BY <1>2, <1>3, <1>4, <1>5, <1>6 DEF Queue

\* Two queues without a common element make a queue.
LEMMA ConcatFacts ==
  ASSUME NEW X, NEW q \in Queue(X), NEW r \in Queue(X),
         \A y : ~ (Contains(q, y) /\ Contains(r, y))
  PROVE  /\ q \o r \in Queue(X)
         /\ \A y : Contains(q \o r, y) <=> Contains(q, y) \/ Contains(r, y)
  <1>1. /\ q \in Seq(X) /\ NoRepeats(q) /\ Len(q) \in Nat /\ DOMAIN q = 1 .. Len(q)
        /\ r \in Seq(X) /\ NoRepeats(r) /\ Len(r) \in Nat /\ DOMAIN r = 1 .. Len(r)
    BY DEF Queue
  <1> DEFINE c == q \o r
  <1>2. /\ c \in Seq(X) /\ Len(c) = Len(q) + Len(r) /\ DOMAIN c = 1 .. Len(q) + Len(r)
        /\ \A i \in 1 .. Len(q) + Len(r) : c[i] = IF i <= Len(q) THEN q[i] ELSE r[i - Len(q)]
    BY <1>1, ConcatProperties
  <1> HIDE DEF c
  <1>3. \A y : Contains(c, y) => Contains(q, y) \/ Contains(r, y)
    <2> SUFFICES ASSUME NEW i \in 1 .. Len(q) + Len(r)
                 PROVE  Contains(q, c[i]) \/ Contains(r, c[i])
      BY <1>2 DEF Contains
    <2>1. CASE i <= Len(q)
      BY <1>1, <1>2, <2>1 DEF Contains
    <2>2. CASE ~ (i <= Len(q))
      <3>1. i - Len(q) \in 1 .. Len(r) /\ c[i] = r[i - Len(q)]
        BY <1>1, <1>2, <2>2
      <3> QED
        BY <3>1 DEF Contains
    <2> QED
      BY <2>1, <2>2
  <1>4. \A y : Contains(q, y) => Contains(c, y)
    BY <1>1, <1>2 DEF Contains
  <1>5. \A y : Contains(r, y) => Contains(c, y)
    <2> SUFFICES ASSUME NEW i \in 1 .. Len(r)
                 PROVE  Contains(c, r[i])
      BY DEF Contains
    <2>1. /\ i + Len(q) \in 1 .. Len(q) + Len(r) /\ ~ (i + Len(q) <= Len(q))
          /\ (i + Len(q)) - Len(q) = i
      BY <1>1
    <2> QED
      BY <1>2, <2>1 DEF Contains
  <1>6. NoRepeats(c)
    <2> SUFFICES ASSUME NEW i \in 1 .. Len(q) + Len(r), NEW j \in 1 .. Len(q) + Len(r),
                        c[i] = c[j]
                 PROVE  i = j
      BY <1>2 DEF NoRepeats
    <2>1. CASE i <= Len(q) /\ j <= Len(q)
      <3>1. i \in DOMAIN q /\ j \in DOMAIN q /\ c[i] = q[i] /\ c[j] = q[j]
        BY <1>1, <1>2, <2>1
      <3> QED
        BY <1>1, <3>1 DEF NoRepeats
    <2>2. CASE i > Len(q) /\ j > Len(q)
      <3>1. /\ i - Len(q) \in 1 .. Len(r) /\ c[i] = r[i - Len(q)]
            /\ j - Len(q) \in 1 .. Len(r) /\ c[j] = r[j - Len(q)]
        BY <1>1, <1>2, <2>2
      <3>2. i - Len(q) = j - Len(q)
        BY <1>1, <3>1 DEF NoRepeats
      <3> QED
        BY <1>1, <3>2
    <2>3. CASE i <= Len(q) /\ j > Len(q)
      <3>1. i \in 1 .. Len(q) /\ j - Len(q) \in 1 .. Len(r)
            /\ c[i] = q[i] /\ c[j] = r[j - Len(q)]
        BY <1>1, <1>2, <2>3
      <3> QED
        BY <3>1 DEF Contains
    <2>4. CASE i > Len(q) /\ j <= Len(q)
      <3>1. j \in 1 .. Len(q) /\ i - Len(q) \in 1 .. Len(r)
            /\ c[j] = q[j] /\ c[i] = r[i - Len(q)]
        BY <1>1, <1>2, <2>4
      <3> QED
        BY <3>1 DEF Contains
    <2> QED
      BY <1>1, <2>1, <2>2, <2>3, <2>4
  <1> QED
    BY <1>2, <1>3, <1>4, <1>5, <1>6 DEF Queue, c

\* Those takes the elements of S out of a queue, in order.
LEMMA ThoseFacts ==
  ASSUME NEW X, NEW q \in Queue(X), NEW S
  PROVE  /\ Those(q, S) \in Queue(X)
         /\ \A y : Contains(Those(q, S), y) <=> Contains(q, y) /\ y \in S
  <1>1. q \in Seq(X) /\ NoRepeats(q) /\ Len(q) \in Nat /\ DOMAIN q = 1 .. Len(q)
    BY DEF Queue
  <1> DEFINE Turn(found, x) == IF x \in S THEN Append(found, x) ELSE found
             F == [found \in Seq(X) |-> [x \in X |-> Turn(found, x)]]
             Eq(f) == f = [s \in SUBSET DOMAIN q |->
                             IF s = {} THEN <<>> ELSE Turn(f[s \ {Max(s)}], q[Max(s)])]
             h == CHOOSE f : Eq(f)
             K == Seq(X)
  <1>2. F \in [K -> [X -> K]] /\ <<>> \in K
    OBVIOUS
  <1>3. \A found \in Seq(X), x \in X : F[found][x] = Turn(found, x)
    OBVIOUS
  <1> HIDE DEF F, K
  <1>5. PICK f : Solves(f, F, <<>>, q) /\ Within(f, q, K, X)
    BY <1>1, <1>2, LoopTotal
  <1>6. Eq(f)
    <2>1. f = [s \in SUBSET DOMAIN q |->
                 IF s = {} THEN <<>> ELSE F[f[s \ {Max(s)}]][q[Max(s)]]]
      BY <1>5, Zenon DEF Solves
    <2>2. ASSUME NEW s \in SUBSET DOMAIN q, s # {}
          PROVE  F[f[s \ {Max(s)}]][q[Max(s)]] = Turn(f[s \ {Max(s)}], q[Max(s)])
      <3>1. f[s \ {Max(s)}] \in K /\ q[Max(s)] \in X
        BY <1>5, <2>2 DEF Within
      <3> QED
        BY <1>3, <3>1 DEF K
    <2> HIDE DEF Turn
    <2>3. f = [s \in SUBSET DOMAIN q |->
                 IF s = {} THEN <<>> ELSE Turn(f[s \ {Max(s)}], q[Max(s)])]
      BY <2>1, <2>2
    <2> QED
      BY <2>3
  <1>7. Eq(h)
    BY <1>6, Zenon
  <1>8. Those(q, S) = h[DOMAIN q]
    BY DEF Those, FoldLeft, MapThenFoldSet
  <1> HIDE DEF h
  <1>9. Follows(h, F, <<>>, q, K)
    <2>1. h[{}] = <<>>
      BY <1>7
    <2>2. ASSUME NEW s \in SUBSET DOMAIN q, s # {}, h[s \ {Max(s)}] \in K
          PROVE  h[s] = F[h[s \ {Max(s)}]][q[Max(s)]]
      <3>1. q[Max(s)] \in X
        BY <1>5, <2>2 DEF Within
      <3>2. h[s] = Turn(h[s \ {Max(s)}], q[Max(s)])
        BY <1>7, <2>2
      <3> QED
        BY <1>3, <2>2, <3>1, <3>2 DEF K
    <2> QED
      BY <2>1, <2>2 DEF Follows
  <1>10. \A s \in SUBSET DOMAIN q : h[s] \in K
    BY <1>1, <1>2, <1>9, LoopStays
  <1>11. /\ h[{}] = <<>>
         /\ \A s \in SUBSET DOMAIN q : s # {} => h[s] = F[h[s \ {Max(s)}]][q[Max(s)]]
    BY <1>9, <1>10 DEF Follows
  <1> DEFINE Out(n) == {r \in Queue(X) :
                          \A y : Contains(r, y) <=> y \in S /\ \E i \in 1 .. n : q[i] = y}
             P == [n \in Nat |-> Out(n)]
  <1>12. h[{}] \in P[0]
    <2>1. \A y : ~ \E i \in 1 .. 0 : q[i] = y
      OBVIOUS
    <2> QED
      BY <1>11, <2>1, EmptyQueue
  <1>13. \A n \in 1 .. Len(q) : \A k \in P[n - 1] : F[k][q[n]] \in P[n]
    <2>1. ASSUME NEW n \in 1 .. Len(q), NEW k \in Out(n - 1)
          PROVE  F[k][q[n]] \in Out(n)
      <3>1. k \in Seq(X) /\ q[n] \in X /\ k \in Queue(X)
        BY <1>1 DEF Queue
      <3>2. F[k][q[n]] = Turn(k, q[n])
        BY <1>3, <3>1
      <3>3. \A i \in Nat : i \in 1 .. n <=> i \in 1 .. n - 1 \/ i = n
        BY <1>1
      <3>4. CASE q[n] \notin S
        BY <3>1, <3>2, <3>3, <3>4
      <3>5. CASE q[n] \in S
        <4>1. ~ Contains(k, q[n])
          <5> SUFFICES ASSUME NEW i \in 1 .. n - 1, q[i] = q[n] PROVE FALSE
            OBVIOUS
          <5>1. i \in 1 .. Len(q) /\ i # n
            BY <1>1
          <5> QED
            BY <1>1, <5>1 DEF NoRepeats
        <4>2. F[k][q[n]] = PushBack(k, q[n])
          BY <3>2, <3>5, <4>1 DEF PushBack
        <4>3. /\ PushBack(k, q[n]) \in Queue(X)
              /\ \A y : Contains(PushBack(k, q[n]), y) <=> Contains(k, y) \/ y = q[n]
          BY <3>1, <4>1, PushBackFacts
        <4> QED
          BY <3>3, <3>5, <4>2, <4>3
      <3> QED
        BY <3>4, <3>5
    <2>2. \A n \in Nat : P[n] = Out(n)
      OBVIOUS
    <2> HIDE DEF P, Out
    <2>3. \A n \in 1 .. Len(q) : n \in Nat /\ n - 1 \in Nat
      BY <1>1
    <2> QED
      BY <2>1, <2>2, <2>3
  <1> HIDE DEF P
  <1>14. h[DOMAIN q] \in P[Len(q)]
    BY <1>1, <1>11, <1>12, <1>13, LoopReaches
  <1>15. h[DOMAIN q] \in Out(Len(q))
    BY <1>1, <1>14 DEF P
  <1> QED
    BY <1>8, <1>15 DEF Contains

LEMMA WithoutFacts ==
  ASSUME NEW X, NEW q \in Queue(X), NEW S
  PROVE  /\ Without(q, S) \in Queue(X)
         /\ \A y : Contains(Without(q, S), y) <=> Contains(q, y) /\ y \notin S
  <1>1. \A y : Contains(q, y) => y \in ToSet(q)
    <2>1. DOMAIN q = 1 .. Len(q)
      BY DEF Queue
    <2> QED
      BY <2>1 DEF Contains, ToSet
  <1>2. /\ Those(q, ToSet(q) \ S) \in Queue(X)
        /\ \A y : Contains(Those(q, ToSet(q) \ S), y) <=> Contains(q, y) /\ y \in ToSet(q) \ S
    BY ThoseFacts
  <1> QED
    BY <1>1, <1>2 DEF Without

\* The elements of a list are what it contains.
LEMMA ToSetFacts ==
  ASSUME NEW X, NEW q \in Seq(X)
  PROVE  /\ ToSet(q) \subseteq X
         /\ \A y : y \in ToSet(q) <=> Contains(q, y)
  <1>1. DOMAIN q = 1 .. Len(q) /\ \A i \in 1 .. Len(q) : q[i] \in X
    OBVIOUS
  <1> QED
    BY <1>1 DEF Contains, ToSet

\* A queue is a list of whatever its elements are.
LEMMA ElementsIn ==
  ASSUME NEW X, NEW q \in Queue(X), NEW Y, \A y : Contains(q, y) => y \in Y
  PROVE  q \in Seq(Y) /\ q \in Queue(Y)
  <1>1. q \in Seq(X) /\ NoRepeats(q) /\ Len(q) \in Nat
    BY DEF Queue
  <1>2. \A i \in 1 .. Len(q) : q[i] \in Y
    BY <1>1 DEF Contains
  <1>3. q \in Seq(Y)
    <2>1. q = [i \in 1 .. Len(q) |-> q[i]]
      BY <1>1
    <2>2. \A n \in Nat : (\A i \in 1 .. n : q[i] \in Y) => [i \in 1 .. n |-> q[i]] \in Seq(Y)
      OBVIOUS
    <2> QED
      BY <1>1, <1>2, <2>1, <2>2
  <1> QED
    BY <1>1, <1>3 DEF Queue

LEMMA ThoseIn ==
  ASSUME NEW X, NEW q \in Queue(X), NEW S
  PROVE  Those(q, S) \in Seq(X \cap S)
  <1>1. q \in Seq(X)
    BY DEF Queue
  <1>2. \A y : Contains(q, y) => y \in X
    BY <1>1 DEF Contains
  <1>3. /\ Those(q, S) \in Queue(X)
        /\ \A y : Contains(Those(q, S), y) <=> Contains(q, y) /\ y \in S
    BY ThoseFacts
  <1>4. \A y : Contains(Those(q, S), y) => y \in X \cap S
    BY <1>2, <1>3
  <1> QED
    BY <1>3, <1>4, ElementsIn

LEMMA FrontLastFacts ==
  ASSUME NEW X, NEW q \in Seq(X), q # <<>>
  PROVE  Front(q) \in Seq(X) /\ Last(q) \in X
  <1>1. Len(q) \in Nat \ {0} /\ \A i \in 1 .. Len(q) : q[i] \in X
    OBVIOUS
  <1>2. SubSeq(q, 1, Len(q) - 1) \in Seq(X)
    BY <1>1, SubSeqProperties
  <1> QED
    BY <1>1, <1>2 DEF Front, Last

-----------------------------------------------------------------------------
(***************************************************************************)
(* The kernel states.                                                      *)
(***************************************************************************)
SignalSet == {S \in SUBSET Known : SIGCONT \in S => S \cap {SIGSTOP, SIGTSTP} = {}}

\* The calls that block, with the arguments they can have
CallOK == {c \in Call : c.op = "sleep" => c.arg \in 0 .. MaxSleep}
            \cap {c \in Call : c.op = "wait" => c.arg \in -1 .. MaxPid}

ProcessOK ==
  [state : States, pid : 0 .. MaxPid, ppid : 0 .. MaxPid, wpid : -1 .. MaxPid,
   daemon : BOOLEAN, jobs : Nat, job : Nat, event : NONE .. MaxPid,
   signals : SignalSet, handlers : [Known -> {"NULL", "DEFAULT", "USER"}],
   call : CallOK, inKernel : BOOLEAN, left : 0 .. MaxSleep, proxied : Seq(CallOK)]

Mode == {"user", "scan", "choose", "kernel", "halt"}

KRecord ==
  [proc : [Slots -> ProcessOK], ready : Queue(Users), waiting : Queue(Users),
   suspended : Queue(Users), zombies : Queue(Users), curr : Slots,
   fg : Users \cup {NULL}, pidNum : 1 .. MaxPid + 1, mode : Mode]

\* Idle makes no system call: it never sleeps in one, nor has it one to restart.
KState == {k \in KRecord : /\ k.mode = "kernel" => k.curr \in Users
                           /\ k.proc[Idle].proxied = <<>>}

\* The same process has the CPU, in the same mode.
Near(k) == {kk \in KState : kk.curr = k.curr /\ kk.mode = k.mode}

LEMMA Sets ==
  /\ Users = 1 .. NProc /\ Slots = 0 .. NProc /\ NProc \in Nat \ {0}
  /\ Users \subseteq Slots /\ Users \subseteq Nat /\ Idle \in Slots /\ Idle \notin Users
  /\ NULL \notin Users /\ 1 \in Users
  /\ {SIGTERM, SIGKILL, SIGCHLD} \subseteq Known
  BY KernelAssumption DEF Users, Slots, Idle, NULL, Known

LEMMA SignalFacts ==
  ASSUME NEW S \in SignalSet
  PROVE  /\ \A s \in Known : (S \ Cancelled(s)) \cup {s} \in SignalSet
         /\ S \cup {SIGCHLD} \in SignalSet /\ S \cup {SIGTERM} \in SignalSet
         /\ \A s : S \ {s} \in SignalSet
         /\ {} \in SignalSet
  <1>1. ASSUME NEW s \in Known PROVE (S \ Cancelled(s)) \cup {s} \in SignalSet
    BY DEF SignalSet, Cancelled, SIGCONT, SIGSTOP, SIGTSTP
  <1>2. S \cup {SIGCHLD} \in SignalSet /\ S \cup {SIGTERM} \in SignalSet
    BY DEF SignalSet, Known, SIGCHLD, SIGTERM, SIGCONT, SIGSTOP, SIGTSTP
  <1> QED
    BY <1>1, <1>2 DEF SignalSet

\* A process whose fields change one by one remains a process.
LEMMA FieldFacts ==
  ASSUME NEW r \in ProcessOK
  PROVE  /\ \A v \in States : [r EXCEPT !.state = v] \in ProcessOK
         /\ \A v \in 0 .. MaxPid : [r EXCEPT !.ppid = v] \in ProcessOK
         /\ \A v \in -1 .. MaxPid : [r EXCEPT !.wpid = v] \in ProcessOK
         /\ \A v \in BOOLEAN : [r EXCEPT !.daemon = v] \in ProcessOK
         /\ \A v \in Nat : [r EXCEPT !.jobs = v] \in ProcessOK
         /\ \A v \in Nat : [r EXCEPT !.job = v] \in ProcessOK
         /\ \A v \in NONE .. MaxPid : [r EXCEPT !.event = v] \in ProcessOK
         /\ \A v \in SignalSet : [r EXCEPT !.signals = v] \in ProcessOK
         /\ \A v \in [Known -> {"NULL", "DEFAULT", "USER"}] :
               [r EXCEPT !.handlers = v] \in ProcessOK
         /\ \A v \in CallOK : [r EXCEPT !.call = v] \in ProcessOK
         /\ \A v \in BOOLEAN : [r EXCEPT !.inKernel = v] \in ProcessOK
         /\ \A v \in 0 .. MaxSleep : [r EXCEPT !.left = v] \in ProcessOK
         /\ \A v \in Seq(CallOK) : [r EXCEPT !.proxied = v] \in ProcessOK
  BY DEF ProcessOK

\* Those changes leave the calls to be restarted alone.
LEMMA FieldKept ==
  ASSUME NEW r \in ProcessOK, NEW v
  PROVE  /\ [r EXCEPT !.state = v].proxied = r.proxied
         /\ [r EXCEPT !.ppid = v].proxied = r.proxied
         /\ [r EXCEPT !.wpid = v].proxied = r.proxied
         /\ [r EXCEPT !.daemon = v].proxied = r.proxied
         /\ [r EXCEPT !.jobs = v].proxied = r.proxied
         /\ [r EXCEPT !.job = v].proxied = r.proxied
         /\ [r EXCEPT !.event = v].proxied = r.proxied
         /\ [r EXCEPT !.signals = v].proxied = r.proxied
         /\ [r EXCEPT !.handlers = v].proxied = r.proxied
         /\ [r EXCEPT !.call = v].proxied = r.proxied
         /\ [r EXCEPT !.inKernel = v].proxied = r.proxied
         /\ [r EXCEPT !.left = v].proxied = r.proxied
  BY DEF ProcessOK

LEMMA EventFacts ==
  /\ {NONE, SLEEP_SYSCALL, STATE_CHANGE, KEYBOARD_INPUT, DAEMON_INPUT, FG_PAUSED}
        \subseteq NONE .. MaxPid
  /\ 0 .. MaxPid \subseteq NONE .. MaxPid /\ 0 .. MaxPid \subseteq -1 .. MaxPid
  /\ 0 \in 0 .. MaxPid /\ 1 \in 0 .. MaxPid
  BY KernelAssumption DEF NONE, SLEEP_SYSCALL, STATE_CHANGE, KEYBOARD_INPUT, DAEMON_INPUT,
     FG_PAUSED

\* What is known of a kernel state.
LEMMA StateFacts ==
  ASSUME NEW k0, NEW k \in Near(k0)
  PROVE  /\ k \in KState /\ k \in KRecord /\ k.curr = k0.curr /\ k.mode = k0.mode
         /\ k.proc \in [Slots -> ProcessOK]
         /\ \A q \in {k.ready, k.waiting, k.suspended, k.zombies} : q \in Queue(Users)
         /\ k.curr \in Slots /\ k.fg \in Users \cup {NULL}
         /\ k.pidNum \in 1 .. MaxPid + 1 /\ k.mode \in Mode
         /\ k.mode = "kernel" => k.curr \in Users
         /\ k.proc[Idle].proxied = <<>>
  BY DEF Near, KState, KRecord

LEMMA ProcessFacts ==
  ASSUME NEW r \in ProcessOK
  PROVE  /\ r.state \in States /\ r.pid \in 0 .. MaxPid /\ r.ppid \in 0 .. MaxPid
         /\ r.wpid \in -1 .. MaxPid /\ r.daemon \in BOOLEAN /\ r.jobs \in Nat /\ r.job \in Nat
         /\ r.event \in NONE .. MaxPid /\ r.signals \in SignalSet
         /\ r.handlers \in [Known -> {"NULL", "DEFAULT", "USER"}]
         /\ r.call \in CallOK /\ r.inKernel \in BOOLEAN /\ r.left \in 0 .. MaxSleep
         /\ r.proxied \in Seq(CallOK)
  BY DEF ProcessOK

\* The whole table changes.
LEMMA SetTable ==
  ASSUME NEW k0, NEW k \in Near(k0), NEW t \in [Slots -> ProcessOK],
         t[Idle].proxied = <<>>
  PROVE  [k EXCEPT !.proc = t] \in Near(k0)
  BY DEF Near, KState, KRecord

\* One process of the table changes.
LEMMA SetProcess ==
  ASSUME NEW k0, NEW k \in Near(k0), NEW p \in Slots, NEW r \in ProcessOK,
         p = Idle => r.proxied = <<>>
  PROVE  [k EXCEPT !.proc[p] = r] \in Near(k0)
  <1> DEFINE t == [k.proc EXCEPT ![p] = r]
  <1>1. k.proc \in [Slots -> ProcessOK] /\ k.proc[Idle].proxied = <<>>
    BY StateFacts
  <1>2. t \in [Slots -> ProcessOK] /\ t[Idle].proxied = <<>>
    BY <1>1, Sets
  <1> HIDE DEF t
  <1>3. [k EXCEPT !.proc = t] \in Near(k0)
    BY <1>2, SetTable
  <1> QED
    BY <1>3 DEF t

\* One field of a process changes.
LEMMA SetField ==
  ASSUME NEW k0, NEW k \in Near(k0), NEW p \in Slots
  PROVE  /\ \A v \in States : [k EXCEPT !.proc[p].state = v] \in Near(k0)
         /\ \A v \in 0 .. MaxPid : [k EXCEPT !.proc[p].ppid = v] \in Near(k0)
         /\ \A v \in -1 .. MaxPid : [k EXCEPT !.proc[p].wpid = v] \in Near(k0)
         /\ \A v \in BOOLEAN : [k EXCEPT !.proc[p].daemon = v] \in Near(k0)
         /\ \A v \in Nat : [k EXCEPT !.proc[p].jobs = v] \in Near(k0)
         /\ \A v \in Nat : [k EXCEPT !.proc[p].job = v] \in Near(k0)
         /\ \A v \in NONE .. MaxPid : [k EXCEPT !.proc[p].event = v] \in Near(k0)
         /\ \A v \in SignalSet : [k EXCEPT !.proc[p].signals = v] \in Near(k0)
         /\ \A v \in [Known -> {"NULL", "DEFAULT", "USER"}] :
               [k EXCEPT !.proc[p].handlers = v] \in Near(k0)
         /\ \A v \in CallOK : [k EXCEPT !.proc[p].call = v] \in Near(k0)
         /\ \A v \in BOOLEAN : [k EXCEPT !.proc[p].inKernel = v] \in Near(k0)
         /\ \A v \in 0 .. MaxSleep : [k EXCEPT !.proc[p].left = v] \in Near(k0)
         /\ p # Idle => \A v \in Seq(CallOK) : [k EXCEPT !.proc[p].proxied = v] \in Near(k0)
  <1>1. k.proc[p] \in ProcessOK /\ (p = Idle => k.proc[p].proxied = <<>>)
    BY StateFacts
  <1>2. \A r \in ProcessOK : (p = Idle => r.proxied = <<>>) => [k EXCEPT !.proc[p] = r] \in Near(k0)
    BY SetProcess
  <1>3. ASSUME NEW v \in States
        PROVE  [k EXCEPT !.proc[p].state = v] \in Near(k0)
    <2>1. [k.proc[p] EXCEPT !.state = v] \in ProcessOK
      BY <1>1, FieldFacts
    <2>2. [k.proc[p] EXCEPT !.state = v].proxied = k.proc[p].proxied
      BY <1>1, FieldKept
    <2> QED
      BY <1>1, <1>2, <2>1, <2>2
  <1>4. ASSUME NEW v \in 0 .. MaxPid
        PROVE  [k EXCEPT !.proc[p].ppid = v] \in Near(k0)
    <2>1. [k.proc[p] EXCEPT !.ppid = v] \in ProcessOK
      BY <1>1, FieldFacts
    <2>2. [k.proc[p] EXCEPT !.ppid = v].proxied = k.proc[p].proxied
      BY <1>1, FieldKept
    <2> QED
      BY <1>1, <1>2, <2>1, <2>2
  <1>5. ASSUME NEW v \in -1 .. MaxPid
        PROVE  [k EXCEPT !.proc[p].wpid = v] \in Near(k0)
    <2>1. [k.proc[p] EXCEPT !.wpid = v] \in ProcessOK
      BY <1>1, FieldFacts
    <2>2. [k.proc[p] EXCEPT !.wpid = v].proxied = k.proc[p].proxied
      BY <1>1, FieldKept
    <2> QED
      BY <1>1, <1>2, <2>1, <2>2
  <1>6. ASSUME NEW v \in BOOLEAN
        PROVE  [k EXCEPT !.proc[p].daemon = v] \in Near(k0)
    <2>1. [k.proc[p] EXCEPT !.daemon = v] \in ProcessOK
      BY <1>1, FieldFacts
    <2>2. [k.proc[p] EXCEPT !.daemon = v].proxied = k.proc[p].proxied
      BY <1>1, FieldKept
    <2> QED
      BY <1>1, <1>2, <2>1, <2>2
  <1>7. ASSUME NEW v \in Nat
        PROVE  [k EXCEPT !.proc[p].jobs = v] \in Near(k0)
    <2>1. [k.proc[p] EXCEPT !.jobs = v] \in ProcessOK
      BY <1>1, FieldFacts
    <2>2. [k.proc[p] EXCEPT !.jobs = v].proxied = k.proc[p].proxied
      BY <1>1, FieldKept
    <2> QED
      BY <1>1, <1>2, <2>1, <2>2
  <1>8. ASSUME NEW v \in Nat
        PROVE  [k EXCEPT !.proc[p].job = v] \in Near(k0)
    <2>1. [k.proc[p] EXCEPT !.job = v] \in ProcessOK
      BY <1>1, FieldFacts
    <2>2. [k.proc[p] EXCEPT !.job = v].proxied = k.proc[p].proxied
      BY <1>1, FieldKept
    <2> QED
      BY <1>1, <1>2, <2>1, <2>2
  <1>9. ASSUME NEW v \in NONE .. MaxPid
        PROVE  [k EXCEPT !.proc[p].event = v] \in Near(k0)
    <2>1. [k.proc[p] EXCEPT !.event = v] \in ProcessOK
      BY <1>1, FieldFacts
    <2>2. [k.proc[p] EXCEPT !.event = v].proxied = k.proc[p].proxied
      BY <1>1, FieldKept
    <2> QED
      BY <1>1, <1>2, <2>1, <2>2
  <1>10. ASSUME NEW v \in SignalSet
        PROVE  [k EXCEPT !.proc[p].signals = v] \in Near(k0)
    <2>1. [k.proc[p] EXCEPT !.signals = v] \in ProcessOK
      BY <1>1, FieldFacts
    <2>2. [k.proc[p] EXCEPT !.signals = v].proxied = k.proc[p].proxied
      BY <1>1, FieldKept
    <2> QED
      BY <1>1, <1>2, <2>1, <2>2
  <1>11. ASSUME NEW v \in [Known -> {"NULL", "DEFAULT", "USER"}]
        PROVE  [k EXCEPT !.proc[p].handlers = v] \in Near(k0)
    <2>1. [k.proc[p] EXCEPT !.handlers = v] \in ProcessOK
      BY <1>1, FieldFacts
    <2>2. [k.proc[p] EXCEPT !.handlers = v].proxied = k.proc[p].proxied
      BY <1>1, FieldKept
    <2> QED
      BY <1>1, <1>2, <2>1, <2>2
  <1>12. ASSUME NEW v \in CallOK
        PROVE  [k EXCEPT !.proc[p].call = v] \in Near(k0)
    <2>1. [k.proc[p] EXCEPT !.call = v] \in ProcessOK
      BY <1>1, FieldFacts
    <2>2. [k.proc[p] EXCEPT !.call = v].proxied = k.proc[p].proxied
      BY <1>1, FieldKept
    <2> QED
      BY <1>1, <1>2, <2>1, <2>2
  <1>13. ASSUME NEW v \in BOOLEAN
        PROVE  [k EXCEPT !.proc[p].inKernel = v] \in Near(k0)
    <2>1. [k.proc[p] EXCEPT !.inKernel = v] \in ProcessOK
      BY <1>1, FieldFacts
    <2>2. [k.proc[p] EXCEPT !.inKernel = v].proxied = k.proc[p].proxied
      BY <1>1, FieldKept
    <2> QED
      BY <1>1, <1>2, <2>1, <2>2
  <1>14. ASSUME NEW v \in 0 .. MaxSleep
        PROVE  [k EXCEPT !.proc[p].left = v] \in Near(k0)
    <2>1. [k.proc[p] EXCEPT !.left = v] \in ProcessOK
      BY <1>1, FieldFacts
    <2>2. [k.proc[p] EXCEPT !.left = v].proxied = k.proc[p].proxied
      BY <1>1, FieldKept
    <2> QED
      BY <1>1, <1>2, <2>1, <2>2
  <1>15. ASSUME NEW v \in Seq(CallOK), p # Idle
        PROVE  [k EXCEPT !.proc[p].proxied = v] \in Near(k0)
    BY <1>1, <1>2, <1>15, FieldFacts
  <1> QED
    BY <1>3, <1>4, <1>5, <1>6, <1>7, <1>8, <1>9, <1>10, <1>11, <1>12, <1>13, <1>14, <1>15

\* A list changes, or the foreground process.
LEMMA SetList ==
  ASSUME NEW k0, NEW k \in Near(k0), NEW q \in Queue(Users), NEW f \in Users \cup {NULL}
  PROVE  /\ [k EXCEPT !.ready = q] \in Near(k0)
         /\ [k EXCEPT !.waiting = q] \in Near(k0)
         /\ [k EXCEPT !.suspended = q] \in Near(k0)
         /\ [k EXCEPT !.zombies = q] \in Near(k0)
         /\ [k EXCEPT !.fg = f] \in Near(k0)
  BY DEF Near, KState, KRecord

-----------------------------------------------------------------------------
(***************************************************************************)
(* Looking processes up.                                                   *)
(***************************************************************************)
LEMMA LookupFacts ==
  ASSUME NEW k, NEW pid
  PROVE  /\ Lookup(k, pid) \in Users \cup {NULL}
         /\ Lookup(k, pid) # NULL => /\ k.proc[Lookup(k, pid)].state # "UNUSED"
                                     /\ k.proc[Lookup(k, pid)].pid = pid
  <1> DEFINE found == {p \in Users : k.proc[p].state # "UNUSED" /\ k.proc[p].pid = pid}
  <1>1. CASE found = {}
    BY <1>1 DEF Lookup
  <1>2. CASE found # {}
    <2>1. Min(found) \in found
      BY <1>2, Sets, MinFacts
    <2> QED
      BY <1>2, <2>1, Sets DEF Lookup
  <1> QED
    BY <1>1, <1>2

LEMMA LookupLiveFacts ==
  ASSUME NEW k, NEW pid
  PROVE  /\ LookupLive(k, pid) \in Users \cup {NULL}
         /\ LookupLive(k, pid) # NULL => Alive(k, LookupLive(k, pid))
  BY LookupFacts DEF LookupLive, Alive

LEMMA LookupJobFacts ==
  ASSUME NEW k, NEW job, NEW ppid
  PROVE  LookupJob(k, job, ppid) \in Users \cup {NULL}
  <1> DEFINE found == {p \in Children(k, ppid) : k.proc[p].job = job}
  <1>1. CASE found = {}
    BY <1>1 DEF LookupJob
  <1>2. CASE found # {}
    <2>1. found \in SUBSET Users
      BY DEF Children
    <2>2. Min(found) \in found
      BY <1>2, <2>1, Sets, MinFacts
    <2> QED
      BY <2>1, <2>2 DEF LookupJob
  <1> QED
    BY <1>1, <1>2

\* The slots, in order, are a queue.
LEMMA SlotOrder ==
  /\ [p \in Users |-> p] \in Queue(Users)
  /\ \A p \in Users : Contains([q \in Users |-> q], p)
  <1>1. [p \in Users |-> p] \in Seq(Users) /\ Len([p \in Users |-> p]) = NProc
    BY Sets
  <1> QED
    BY <1>1, Sets DEF Queue, NoRepeats, Contains

-----------------------------------------------------------------------------
(***************************************************************************)
(* wake_up and kill.                                                       *)
(***************************************************************************)
LEMMA WakeUpType ==
  ASSUME NEW k0, NEW k \in Near(k0), NEW ev
  PROVE  WakeUp(k, ev) \in Near(k0)
  <1> DEFINE called  == {p \in Users : k.proc[p].event = ev}
             resting == Without(k.waiting, ToSet(k.ready))
             woken   == Those(resting, called)
             table   == [p \in Slots |-> IF p \in ToSet(woken)
                                         THEN [k.proc[p] EXCEPT !.event = NONE, !.state = "READY"]
                                         ELSE k.proc[p]]
             r1      == [k EXCEPT !.waiting = Without(k.waiting, called)]
             r2      == [r1 EXCEPT !.ready = k.ready \o woken]
             r3      == [r2 EXCEPT !.proc = table]
  <1>1. k.ready \in Queue(Users) /\ k.waiting \in Queue(Users)
    BY StateFacts
  <1>2. resting \in Queue(Users) /\ \A p : Contains(resting, p) => p \notin ToSet(k.ready)
    BY <1>1, WithoutFacts
  <1>3. woken \in Queue(Users) /\ \A p : Contains(woken, p) => Contains(resting, p)
    BY <1>2, ThoseFacts
  <1>4. \A p : Contains(k.ready, p) => p \in ToSet(k.ready)
    BY <1>1, ToSetFacts DEF Queue
  <1>5. k.ready \o woken \in Queue(Users)
    BY <1>1, <1>2, <1>3, <1>4, ConcatFacts
  <1>6. Without(k.waiting, called) \in Queue(Users)
    BY <1>1, WithoutFacts
  <1>7. ToSet(woken) \subseteq Users
    BY <1>3, ToSetFacts DEF Queue
  <1>8. table \in [Slots -> ProcessOK] /\ table[Idle].proxied = <<>>
    <2>1. k.proc \in [Slots -> ProcessOK] /\ k.proc[Idle].proxied = <<>>
      BY StateFacts
    <2>2. ASSUME NEW p \in Slots
          PROVE  [k.proc[p] EXCEPT !.event = NONE, !.state = "READY"] \in ProcessOK
      <3>1. [k.proc[p] EXCEPT !.event = NONE] \in ProcessOK
        BY <2>1, EventFacts, FieldFacts
      <3>2. [[k.proc[p] EXCEPT !.event = NONE] EXCEPT !.state = "READY"] \in ProcessOK
        BY <3>1, FieldFacts DEF States
      <3> QED
        BY <3>2
    <2> QED
      BY <1>7, <2>1, <2>2, Sets
  <1>9. r1 \in Near(k0)
    BY <1>6, SetList
  <1>10. r2 \in Near(k0)
    BY <1>5, <1>9, SetList
  <1>11. r3 \in Near(k0)
    BY <1>8, <1>10, SetTable
  <1>12. WakeUp(k, ev) = r3
    BY DEF WakeUp
  <1> QED
    BY <1>11, <1>12

LEMMA PostType ==
  ASSUME NEW k0, NEW k \in Near(k0), NEW p \in Users, NEW s \in Known
  PROVE  Post(k, p, s) \in Near(k0)
  <1> DEFINE sigs   == (k.proc[p].signals \ Cancelled(s)) \cup {s}
             r      == [k.proc[p] EXCEPT !.signals = sigs]
             marked == [k EXCEPT !.proc[p] = r]
             woken  == [marked EXCEPT !.waiting = Unlink(marked.waiting, p),
                                      !.ready = PushBack(marked.ready, p),
                                      !.proc[p].state = "READY"]
  <1>1. r \in ProcessOK
    <2>1. k.proc[p] \in ProcessOK
      BY StateFacts, Sets
    <2>2. sigs \in SignalSet
      BY <2>1, ProcessFacts, SignalFacts
    <2> QED
      BY <2>1, <2>2, FieldFacts
  <1>2. marked \in Near(k0)
    BY <1>1, SetProcess, Sets
  <1>3. /\ Unlink(marked.waiting, p) \in Queue(Users)
        /\ PushBack(marked.ready, p) \in Queue(Users)
        /\ [marked.proc[p] EXCEPT !.state = "READY"] \in ProcessOK
    <2>1. /\ marked.proc[p] \in ProcessOK
          /\ marked.waiting \in Queue(Users) /\ marked.ready \in Queue(Users)
      BY <1>2, StateFacts, Sets
    <2> HIDE DEF marked
    <2>2. [marked.proc[p] EXCEPT !.state = "READY"] \in ProcessOK
      BY <2>1, FieldFacts DEF States
    <2>3. Unlink(marked.waiting, p) \in Queue(Users)
      BY <2>1, UnlinkFacts
    <2>4. PushBack(marked.ready, p) \in Queue(Users)
      BY <2>1, PushBackFacts
    <2> QED
      BY <2>2, <2>3, <2>4
  <1> HIDE DEF r, marked
  <1>4. woken \in Near(k0)
    <2> DEFINE shorter == [marked EXCEPT !.waiting = Unlink(marked.waiting, p)]
               longer  == [shorter EXCEPT !.ready = PushBack(marked.ready, p)]
    <2>1. woken = [longer EXCEPT !.proc[p].state = "READY"]
      OBVIOUS
    <2>2. marked.fg \in Users \cup {NULL}
      BY <1>2, StateFacts
    <2>3. shorter \in Near(k0)
      BY <1>2, <1>3, <2>2, SetList
    <2> HIDE DEF shorter
    <2>4. longer \in Near(k0)
      BY <1>3, <2>2, <2>3, SetList
    <2> HIDE DEF longer
    <2>5. p \in Slots /\ "READY" \in States
      BY Sets DEF States
    <2> QED
      BY <2>1, <2>4, <2>5, SetField
  <1>5. Post(k, p, s) = IF k.proc[p].state # "SLEEP" THEN marked ELSE woken
    BY Zenon DEF Post, r, marked
  <1> QED
    BY <1>2, <1>4, <1>5

-----------------------------------------------------------------------------
(***************************************************************************)
(* The loops of the kernel.  Whatever every turn of a loop keeps, the loop *)
(* keeps.                                                                  *)
(***************************************************************************)
\* kill, one process after the other
PostSeq(k, q, s) == FoldLeft(LAMBDA kk, p : Post(kk, p, s), k, q)

LEMMA PostLoop ==
  ASSUME NEW K, NEW k \in K, NEW s0, NEW X, NEW q \in Seq(X),
         \A kk \in K, x \in X : Post(kk, x, s0) \in K
  PROVE  PostSeq(k, q, s0) \in K
  <1> DEFINE F == [kk \in K |-> [x \in X |-> Post(kk, x, s0)]]
             Eq(f) == f = [s \in SUBSET DOMAIN q |->
                             IF s = {} THEN k ELSE Post(f[s \ {Max(s)}], q[Max(s)], s0)]
             h == CHOOSE f : Eq(f)
  <1>1. F \in [K -> [X -> K]]
    OBVIOUS
  <1>2. \A kk \in K, x \in X : F[kk][x] = Post(kk, x, s0)
    OBVIOUS
  <1> HIDE DEF F
  <1>3. PICK f : Solves(f, F, k, q) /\ Within(f, q, K, X)
    BY <1>1, LoopTotal
  <1>4. Eq(f)
    BY <1>2, <1>3 DEF Solves, Within
  <1>5. Eq(h)
    BY <1>4, Zenon
  <1>6. PostSeq(k, q, s0) = h[DOMAIN q]
    BY DEF PostSeq, FoldLeft, MapThenFoldSet
  <1> HIDE DEF h
  <1>7. Follows(h, F, k, q, K)
    <2>1. h[{}] = k
      BY <1>5
    <2>2. ASSUME NEW s \in SUBSET DOMAIN q, s # {}, h[s \ {Max(s)}] \in K
          PROVE  h[s] = F[h[s \ {Max(s)}]][q[Max(s)]]
      <3>1. q[Max(s)] \in X
        BY <1>3, <2>2 DEF Within
      <3>2. h[s] = Post(h[s \ {Max(s)}], q[Max(s)], s0)
        BY <1>5, <2>2
      <3> QED
        BY <1>2, <2>2, <3>1, <3>2
    <2> QED
      BY <2>1, <2>2 DEF Follows
  <1> QED
    BY <1>1, <1>6, <1>7, LoopStays

\* The zombies that a hang-up frees
LEMMA FreeLoop ==
  ASSUME NEW K, NEW k \in K, NEW X, NEW q \in Seq(X),
         \A kk \in K, x \in X : Free(kk, x) \in K
  PROVE  FoldLeft(Free, k, q) \in K
  <1> DEFINE F == [kk \in K |-> [x \in X |-> Free(kk, x)]]
             Eq(f) == f = [s \in SUBSET DOMAIN q |->
                             IF s = {} THEN k ELSE Free(f[s \ {Max(s)}], q[Max(s)])]
             h == CHOOSE f : Eq(f)
  <1>1. F \in [K -> [X -> K]]
    OBVIOUS
  <1>2. \A kk \in K, x \in X : F[kk][x] = Free(kk, x)
    OBVIOUS
  <1> HIDE DEF F
  <1>3. PICK f : Solves(f, F, k, q) /\ Within(f, q, K, X)
    BY <1>1, LoopTotal
  <1>4. Eq(f)
    BY <1>2, <1>3 DEF Solves, Within
  <1>5. Eq(h)
    BY <1>4, Zenon
  <1>6. FoldLeft(Free, k, q) = h[DOMAIN q]
    BY DEF FoldLeft, MapThenFoldSet
  <1> HIDE DEF h
  <1>7. Follows(h, F, k, q, K)
    <2>1. h[{}] = k
      BY <1>5
    <2>2. ASSUME NEW s \in SUBSET DOMAIN q, s # {}, h[s \ {Max(s)}] \in K
          PROVE  h[s] = F[h[s \ {Max(s)}]][q[Max(s)]]
      <3>1. q[Max(s)] \in X
        BY <1>3, <2>2 DEF Within
      <3>2. h[s] = Free(h[s \ {Max(s)}], q[Max(s)])
        BY <1>5, <2>2
      <3> QED
        BY <1>2, <2>2, <3>1, <3>2
    <2> QED
      BY <2>1, <2>2 DEF Follows
  <1> QED
    BY <1>1, <1>6, <1>7, LoopStays

\* The stopped jobs of an exiting process
LEMMA KillJobLoop ==
  ASSUME NEW K, NEW k \in K, NEW X, NEW q \in Seq(X),
         \A kk \in K, x \in X : KillJob(kk, x) \in K
  PROVE  FoldLeft(KillJob, k, q) \in K
  <1> DEFINE F == [kk \in K |-> [x \in X |-> KillJob(kk, x)]]
             Eq(f) == f = [s \in SUBSET DOMAIN q |->
                             IF s = {} THEN k ELSE KillJob(f[s \ {Max(s)}], q[Max(s)])]
             h == CHOOSE f : Eq(f)
  <1>1. F \in [K -> [X -> K]]
    OBVIOUS
  <1>2. \A kk \in K, x \in X : F[kk][x] = KillJob(kk, x)
    OBVIOUS
  <1> HIDE DEF F
  <1>3. PICK f : Solves(f, F, k, q) /\ Within(f, q, K, X)
    BY <1>1, LoopTotal
  <1>4. Eq(f)
    BY <1>2, <1>3 DEF Solves, Within
  <1>5. Eq(h)
    BY <1>4, Zenon
  <1>6. FoldLeft(KillJob, k, q) = h[DOMAIN q]
    BY DEF FoldLeft, MapThenFoldSet
  <1> HIDE DEF h
  <1>7. Follows(h, F, k, q, K)
    <2>1. h[{}] = k
      BY <1>5
    <2>2. ASSUME NEW s \in SUBSET DOMAIN q, s # {}, h[s \ {Max(s)}] \in K
          PROVE  h[s] = F[h[s \ {Max(s)}]][q[Max(s)]]
      <3>1. q[Max(s)] \in X
        BY <1>3, <2>2 DEF Within
      <3>2. h[s] = KillJob(h[s \ {Max(s)}], q[Max(s)])
        BY <1>5, <2>2
      <3> QED
        BY <1>2, <2>2, <3>1, <3>2
    <2> QED
      BY <2>1, <2>2 DEF Follows
  <1> QED
    BY <1>1, <1>6, <1>7, LoopStays

\* The scan of the suspended list
LEMMA ScanLoop ==
  ASSUME NEW K, NEW k \in K, NEW X, NEW q \in Seq(X),
         \A kk \in K, x \in X : CheckPendingSignals(kk, x) \in K
  PROVE  FoldLeft(CheckPendingSignals, k, q) \in K
  <1> DEFINE F == [kk \in K |-> [x \in X |-> CheckPendingSignals(kk, x)]]
             Eq(f) == f = [s \in SUBSET DOMAIN q |->
                             IF s = {} THEN k ELSE CheckPendingSignals(f[s \ {Max(s)}], q[Max(s)])]
             h == CHOOSE f : Eq(f)
  <1>1. F \in [K -> [X -> K]]
    OBVIOUS
  <1>2. \A kk \in K, x \in X : F[kk][x] = CheckPendingSignals(kk, x)
    OBVIOUS
  <1> HIDE DEF F
  <1>3. PICK f : Solves(f, F, k, q) /\ Within(f, q, K, X)
    BY <1>1, LoopTotal
  <1>4. Eq(f)
    BY <1>2, <1>3 DEF Solves, Within
  <1>5. Eq(h)
    BY <1>4, Zenon
  <1>6. FoldLeft(CheckPendingSignals, k, q) = h[DOMAIN q]
    BY DEF FoldLeft, MapThenFoldSet
  <1> HIDE DEF h
  <1>7. Follows(h, F, k, q, K)
    <2>1. h[{}] = k
      BY <1>5
    <2>2. ASSUME NEW s \in SUBSET DOMAIN q, s # {}, h[s \ {Max(s)}] \in K
          PROVE  h[s] = F[h[s \ {Max(s)}]][q[Max(s)]]
      <3>1. q[Max(s)] \in X
        BY <1>3, <2>2 DEF Within
      <3>2. h[s] = CheckPendingSignals(h[s \ {Max(s)}], q[Max(s)])
        BY <1>5, <2>2
      <3> QED
        BY <1>2, <2>2, <3>1, <3>2
    <2> QED
      BY <2>1, <2>2 DEF Follows
  <1> QED
    BY <1>1, <1>6, <1>7, LoopStays

\* check_pending_signals, signal by signal
DeliverSeq(k, q, p) == FoldLeft(LAMBDA kk, s : Deliver(kk, p, s), k, q)

LEMMA DeliverLoop ==
  ASSUME NEW K, NEW k \in K, NEW p0, NEW X, NEW q \in Seq(X),
         \A kk \in K, x \in X : Deliver(kk, p0, x) \in K
  PROVE  DeliverSeq(k, q, p0) \in K
  <1> DEFINE F == [kk \in K |-> [x \in X |-> Deliver(kk, p0, x)]]
             Eq(f) == f = [s \in SUBSET DOMAIN q |->
                             IF s = {} THEN k ELSE Deliver(f[s \ {Max(s)}], p0, q[Max(s)])]
             h == CHOOSE f : Eq(f)
  <1>1. F \in [K -> [X -> K]]
    OBVIOUS
  <1>2. \A kk \in K, x \in X : F[kk][x] = Deliver(kk, p0, x)
    OBVIOUS
  <1> HIDE DEF F
  <1>3. PICK f : Solves(f, F, k, q) /\ Within(f, q, K, X)
    BY <1>1, LoopTotal
  <1>4. Eq(f)
    BY <1>2, <1>3 DEF Solves, Within
  <1>5. Eq(h)
    BY <1>4, Zenon
  <1>6. DeliverSeq(k, q, p0) = h[DOMAIN q]
    BY DEF DeliverSeq, FoldLeft, MapThenFoldSet
  <1> HIDE DEF h
  <1>7. Follows(h, F, k, q, K)
    <2>1. h[{}] = k
      BY <1>5
    <2>2. ASSUME NEW s \in SUBSET DOMAIN q, s # {}, h[s \ {Max(s)}] \in K
          PROVE  h[s] = F[h[s \ {Max(s)}]][q[Max(s)]]
      <3>1. q[Max(s)] \in X
        BY <1>3, <2>2 DEF Within
      <3>2. h[s] = Deliver(h[s \ {Max(s)}], p0, q[Max(s)])
        BY <1>5, <2>2
      <3> QED
        BY <1>2, <2>2, <3>1, <3>2
    <2> QED
      BY <2>1, <2>2 DEF Follows
  <1> QED
    BY <1>1, <1>6, <1>7, LoopStays

\* One turn of the loop of switch_parent
Adopted(kk, c, new, transferJobs, parent) ==
  LET moved == [kk EXCEPT !.proc[c].ppid = new]
  IN  IF transferJobs /\ kk.proc[c].job # 0 /\ kk.proc[c].state # "STOPPED"
      THEN [moved EXCEPT !.proc[parent].jobs = @ + 1,
                         !.proc[c].job = kk.proc[parent].jobs + 1]
      ELSE moved

\* The children of a process get a new parent
AdoptSeq(k, q, new, transferJobs, parent) ==
  FoldLeft(LAMBDA kk, c : Adopted(kk, c, new, transferJobs, parent), k, q)

LEMMA AdoptLoop ==
  ASSUME NEW K, NEW k \in K, NEW n0, NEW t0, NEW pt0, NEW X, NEW q \in Seq(X),
         \A kk \in K, x \in X : Adopted(kk, x, n0, t0, pt0) \in K
  PROVE  AdoptSeq(k, q, n0, t0, pt0) \in K
  <1> DEFINE F == [kk \in K |-> [x \in X |-> Adopted(kk, x, n0, t0, pt0)]]
             Eq(f) == f = [s \in SUBSET DOMAIN q |->
                             IF s = {} THEN k ELSE Adopted(f[s \ {Max(s)}], q[Max(s)], n0, t0, pt0)]
             h == CHOOSE f : Eq(f)
  <1>1. F \in [K -> [X -> K]]
    OBVIOUS
  <1>2. \A kk \in K, x \in X : F[kk][x] = Adopted(kk, x, n0, t0, pt0)
    OBVIOUS
  <1> HIDE DEF F
  <1>3. PICK f : Solves(f, F, k, q) /\ Within(f, q, K, X)
    BY <1>1, LoopTotal
  <1>4. Eq(f)
    BY <1>2, <1>3 DEF Solves, Within
  <1>5. Eq(h)
    BY <1>4, Zenon
  <1>6. AdoptSeq(k, q, n0, t0, pt0) = h[DOMAIN q]
    BY DEF AdoptSeq, FoldLeft, MapThenFoldSet
  <1> HIDE DEF h
  <1>7. Follows(h, F, k, q, K)
    <2>1. h[{}] = k
      BY <1>5
    <2>2. ASSUME NEW s \in SUBSET DOMAIN q, s # {}, h[s \ {Max(s)}] \in K
          PROVE  h[s] = F[h[s \ {Max(s)}]][q[Max(s)]]
      <3>1. q[Max(s)] \in X
        BY <1>3, <2>2 DEF Within
      <3>2. h[s] = Adopted(h[s \ {Max(s)}], q[Max(s)], n0, t0, pt0)
        BY <1>5, <2>2
      <3> QED
        BY <1>2, <2>2, <3>1, <3>2
    <2> QED
      BY <2>1, <2>2 DEF Follows
  <1> QED
    BY <1>1, <1>6, <1>7, LoopStays

LEMMA PostAllLoop ==
  ASSUME NEW K, NEW k \in K, NEW P, NEW s,
         \A kk \in K, p \in Users \cap P : Post(kk, p, s) \in K
  PROVE  PostAll(k, P, s) \in K
  <1>1. Those([p \in Users |-> p], P) \in Seq(Users \cap P)
    BY SlotOrder, ThoseIn
  <1>2. PostAll(k, P, s) = PostSeq(k, Those([p \in Users |-> p], P), s)
    BY DEF PostAll, InSlotOrder, PostSeq, FoldLeft, MapThenFoldSet
  <1> QED
    BY <1>1, <1>2, PostLoop

LEMMA FreeAllLoop ==
  ASSUME NEW K, NEW k \in K, NEW P,
         \A kk \in K, p \in Users \cap P : Free(kk, p) \in K
  PROVE  InSlotOrder(k, P, Free) \in K
  <1>1. Those([p \in Users |-> p], P) \in Seq(Users \cap P)
    BY SlotOrder, ThoseIn
  <1> QED
    BY <1>1, FreeLoop DEF InSlotOrder

LEMMA SwitchParentLoop ==
  ASSUME NEW K, NEW k \in K, NEW old, NEW new, NEW transferJobs,
         NEW parent, parent = LookupLive(k, new),
         parent # NULL => \A kk \in K, c \in Children(k, old) :
                            Adopted(kk, c, new, transferJobs, parent) \in K
  PROVE  SwitchParent(k, old, new, transferJobs) \in K
  <1> DEFINE P == Children(k, old)
             q == Those([p \in Users |-> p], P)
  <1>1. q \in Seq(Users \cap P)
    BY SlotOrder, ThoseIn
  <1>2. CASE parent = NULL
    BY <1>2 DEF SwitchParent
  <1>3. CASE parent # NULL
    <2>1. SwitchParent(k, old, new, transferJobs)
             = AdoptSeq(k, q, new, transferJobs, LookupLive(k, new))
      BY <1>3 DEF SwitchParent, InSlotOrder, AdoptSeq, Adopted, FoldLeft, MapThenFoldSet
    <2> QED
      BY <1>1, <1>3, <2>1, AdoptLoop
  <1> QED
    BY <1>2, <1>3

-----------------------------------------------------------------------------
(***************************************************************************)
(* What kill, exit and the signal handlers do keeps the types.             *)
(***************************************************************************)
LEMMA BlankType ==
  /\ DefHandlers \in [Known -> {"NULL", "DEFAULT", "USER"}]
  /\ NoCall \in CallOK /\ Blank \in ProcessOK /\ Blank.proxied = <<>>
  <1>1. DefHandlers \in [Known -> {"NULL", "DEFAULT", "USER"}]
    BY DEF DefHandlers
  <1>2. NoCall \in CallOK
    <2>1. 0 \in -1 .. (MaxPid + MaxSleep)
      BY KernelAssumption
    <2>2. {} \in SUBSET {"WNOHANG", "WUNTRACED"}
      OBVIOUS
    <2> QED
      BY <2>1, <2>2 DEF NoCall, CallOK, Call
  <1>3. {} \in SignalSet
    BY DEF SignalSet
  <1>4. <<>> \in Seq(CallOK)
    OBVIOUS
  <1>5. 0 \in 0 .. MaxPid /\ 0 \in -1 .. MaxPid /\ NONE \in NONE .. MaxPid /\ 0 \in 0 .. MaxSleep
    BY EventFacts, KernelAssumption
  <1> QED
    BY <1>1, <1>2, <1>3, <1>4, <1>5 DEF Blank, ProcessOK, States

LEMMA FreeType ==
  ASSUME NEW k0, NEW k \in Near(k0), NEW p \in Users
  PROVE  Free(k, p) \in Near(k0)
  <1>1. k.proc[p] \in ProcessOK /\ p \in Slots
    BY StateFacts, Sets
  <1> DEFINE r == [Blank EXCEPT !.pid = k.proc[p].pid, !.event = k.proc[p].event]
  <1>2. r \in ProcessOK /\ r.proxied = <<>>
    BY <1>1, ProcessFacts, BlankType DEF ProcessOK
  <1> HIDE DEF r
  <1>3. [k EXCEPT !.proc[p] = r] \in Near(k0)
    BY <1>1, <1>2, SetProcess
  <1> QED
    BY <1>3 DEF Free, r

LEMMA PostAllType ==
  ASSUME NEW k0, NEW k \in Near(k0), NEW P, NEW s \in Known
  PROVE  PostAll(k, P, s) \in Near(k0)
  BY PostAllLoop, PostType

LEMMA KillChildrenType ==
  ASSUME NEW k0, NEW k \in Near(k0), NEW p, NEW s \in Known
  PROVE  KillChildren(k, p, s) \in Near(k0)
  BY PostAllType DEF KillChildren

LEMMA KillAllType ==
  ASSUME NEW k0, NEW k \in Near(k0), NEW p, NEW s \in Known
  PROVE  KillAll(k, p, s) \in Near(k0)
  <1> DEFINE posted == PostAll(k, {q \in Others(k, p) : Alive(k, q)}, s)
             rogue  == {q \in Others(k, p) : k.proc[q].state = "KILLED" /\ k.proc[q].ppid # 1}
             freed  == InSlotOrder(posted, rogue, Free)
             r1     == [posted EXCEPT !.proc[1].signals = posted.proc[1].signals \cup {SIGTERM}]
             r2     == [r1 EXCEPT !.proc[Idle].signals = r1.proc[Idle].signals \cup {SIGTERM}]
  <1>1. posted \in Near(k0)
    BY PostAllType
  <1> HIDE DEF posted
  <1>2. freed \in Near(k0)
    BY <1>1, FreeAllLoop, FreeType
  <1> HIDE DEF freed
  <1>3. [freed EXCEPT !.pidNum = 2] \in Near(k0)
    BY <1>2, KernelAssumption DEF Near, KState, KRecord
  <1>4. r1 \in Near(k0)
    <2>1. posted.proc[1].signals \in SignalSet /\ 1 \in Slots
      BY <1>1, StateFacts, ProcessFacts, Sets
    <2> QED
      BY <1>1, <2>1, SetField, SignalFacts
  <1> HIDE DEF r1
  <1>5. r2 \in Near(k0)
    <2>1. r1.proc[Idle].signals \in SignalSet /\ Idle \in Slots
      BY <1>4, StateFacts, ProcessFacts, Sets
    <2> QED
      BY <1>4, <2>1, SetField, SignalFacts
  <1>6. s = SIGTERM => [posted EXCEPT !.proc[1].signals = @ \cup {s},
                                      !.proc[Idle].signals = @ \cup {s}] = r2
    BY DEF r1
  <1> HIDE DEF r2
  <1>7. KillAll(k, p, s) \in {[freed EXCEPT !.pidNum = 2], r2, posted}
    BY <1>6 DEF KillAll, posted, freed, SIGHUP, SIGTERM
  <1> QED
    BY <1>1, <1>3, <1>5, <1>7

LEMMA KillType ==
  ASSUME NEW k0, NEW k \in Near(k0), NEW p, NEW target, NEW s \in Known
  PROVE  Kill(k, p, target, s) \in Near(k0)
  <1> DEFINE t == Lookup(k, target)
  <1>1. t \in Users \cup {NULL}
    BY LookupFacts
  <1> HIDE DEF t
  <1>2. t # NULL => Post(k, t, s) \in Near(k0)
    BY <1>1, PostType
  <1>3. Kill(k, p, target, s) \in {KillAll(k, p, s), KillChildren(k, p, s), k}
                                  \cup (IF t = NULL THEN {} ELSE {Post(k, t, s)})
    BY DEF Kill, t
  <1> QED
    BY <1>2, <1>3, KillAllType, KillChildrenType

LEMMA SwitchParentType ==
  ASSUME NEW k0, NEW k \in Near(k0), NEW old, NEW new \in 0 .. MaxPid, NEW transferJobs
  PROVE  SwitchParent(k, old, new, transferJobs) \in Near(k0)
  <1> DEFINE parent == LookupLive(k, new)
  <1>1. parent \in Users \cup {NULL}
    BY LookupLiveFacts
  <1> HIDE DEF parent
  <1>2. ASSUME parent # NULL, NEW kk \in Near(k0), NEW c \in Children(k, old)
        PROVE  Adopted(kk, c, new, transferJobs, parent) \in Near(k0)
    <2> DEFINE moved == [kk EXCEPT !.proc[c].ppid = new]
               r1    == [moved EXCEPT !.proc[parent].jobs = moved.proc[parent].jobs + 1]
               r2    == [r1 EXCEPT !.proc[c].job = kk.proc[parent].jobs + 1]
    <2>1. c \in Slots /\ parent \in Slots
      BY <1>1, <1>2, Sets DEF Children
    <2>2. moved \in Near(k0)
      BY <2>1, SetField
    <2>3. moved.proc[parent].jobs + 1 \in Nat /\ kk.proc[parent].jobs + 1 \in Nat
      <3>1. moved.proc[parent] \in ProcessOK /\ kk.proc[parent] \in ProcessOK
        BY <2>1, <2>2, StateFacts
      <3> HIDE DEF moved
      <3>2. moved.proc[parent].jobs \in Nat /\ kk.proc[parent].jobs \in Nat
        BY <3>1, ProcessFacts
      <3> QED
        BY <3>2
    <2>4. Adopted(kk, c, new, transferJobs, parent) \in {moved, r2}
      BY DEF Adopted
    <2> HIDE DEF moved
    <2>5. r1 \in Near(k0)
      BY <2>1, <2>2, <2>3, SetField
    <2> HIDE DEF r1
    <2>6. r2 \in Near(k0)
      BY <2>1, <2>3, <2>5, SetField
    <2> QED
      BY <2>2, <2>4, <2>6
  <1> QED
    BY <1>2, SwitchParentLoop DEF parent

LEMMA NotifyType ==
  ASSUME NEW k0, NEW k \in Near(k0), NEW parent \in Users \cup {NULL}
  PROVE  Notify(k, parent) \in Near(k0)
  <1>1. CASE parent = NULL
    BY <1>1 DEF Notify
  <1>2. CASE parent # NULL
    <2>1. parent \in Slots /\ k.proc[parent] \in ProcessOK
      BY <1>2, StateFacts, Sets
    <2>2. k.proc[parent].signals \cup {SIGCHLD} \in SignalSet
      BY <2>1, ProcessFacts, SignalFacts
    <2>3. [k EXCEPT !.proc[parent].signals = k.proc[parent].signals \cup {SIGCHLD}] \in Near(k0)
      BY <2>1, <2>2, SetField
    <2> QED
      BY <1>2, <2>3 DEF Notify
  <1> QED
    BY <1>1, <1>2

LEMMA HandOverType ==
  ASSUME NEW k0, NEW k \in Near(k0), NEW p, NEW parent \in Users \cup {NULL}
  PROVE  HandOver(k, p, parent) \in Near(k0) /\ Yield(k, p) \in Near(k0)
  <1>1. \A q \in Users \cup {NULL} : [k EXCEPT !.fg = q] \in Near(k0)
    <2>1. k.ready \in Queue(Users)
      BY StateFacts
    <2> QED
      BY <2>1, SetList
  <1> QED
    BY <1>1 DEF HandOver, Yield

LEMMA UnpauseType ==
  ASSUME NEW k0, NEW k \in Near(k0), NEW p
  PROVE  Unpause(k, p) \in Near(k0)
  BY WakeUpType DEF Unpause

LEMMA MarkKilledType ==
  ASSUME NEW k0, NEW k \in Near(k0), NEW p \in Users
  PROVE  MarkKilled(k, p) \in Near(k0)
  <1> DEFINE r == [k EXCEPT !.proc[p].state = "KILLED"]
  <1>1. p \in Slots /\ k.proc[p] \in ProcessOK
    BY StateFacts, Sets
  <1>2. r \in Near(k0)
    BY <1>1, SetField DEF States
  <1>3. k.proc[p].pid \in NONE .. MaxPid
    BY <1>1, ProcessFacts, EventFacts
  <1>4. MarkKilled(k, p) = [r EXCEPT !.proc[p].event = k.proc[p].pid]
    BY DEF MarkKilled
  <1> HIDE DEF r
  <1> QED
    BY <1>1, <1>2, <1>3, <1>4, SetField

\* The queues of a process change.
LEMMA QueueTypes ==
  ASSUME NEW k0, NEW k \in Near(k0), NEW p \in Users
  PROVE  /\ [k EXCEPT !.ready = Unlink(k.ready, p)] \in Near(k0)
         /\ [k EXCEPT !.waiting = Unlink(k.waiting, p)] \in Near(k0)
         /\ [k EXCEPT !.suspended = Unlink(k.suspended, p)] \in Near(k0)
         /\ [k EXCEPT !.zombies = Unlink(k.zombies, p)] \in Near(k0)
         /\ [k EXCEPT !.ready = PushBack(k.ready, p)] \in Near(k0)
         /\ [k EXCEPT !.waiting = PushBack(k.waiting, p)] \in Near(k0)
         /\ [k EXCEPT !.suspended = PushBack(k.suspended, p)] \in Near(k0)
         /\ [k EXCEPT !.zombies = PushBack(k.zombies, p)] \in Near(k0)
  <1>1. \A q \in {k.ready, k.waiting, k.suspended, k.zombies} : q \in Queue(Users)
    BY StateFacts
  <1>2. \A q \in {k.ready, k.waiting, k.suspended, k.zombies} :
           Unlink(q, p) \in Queue(Users) /\ PushBack(q, p) \in Queue(Users)
    BY <1>1, UnlinkFacts, PushBackFacts
  <1>3. k.fg \in Users \cup {NULL}
    BY StateFacts
  <1> QED
    BY <1>2, <1>3, SetList

LEMMA KillJobType ==
  ASSUME NEW k0, NEW k \in Near(k0), NEW job \in Users
  PROVE  KillJob(k, job) \in Near(k0)
  <1> DEFINE killed == KillChildren(MarkKilled(k, job), job, SIGTERM)
             r      == [killed EXCEPT !.suspended = Unlink(killed.suspended, job)]
  <1>1. killed \in Near(k0)
    BY MarkKilledType, KillChildrenType, Sets
  <1>2. KillJob(k, job) = [r EXCEPT !.zombies = PushBack(r.zombies, job)]
    BY DEF KillJob
  <1> HIDE DEF killed
  <1>3. r \in Near(k0)
    BY <1>1, QueueTypes
  <1> HIDE DEF r
  <1>4. [r EXCEPT !.zombies = PushBack(r.zombies, job)] \in Near(k0)
    BY <1>3, QueueTypes
  <1> QED
    BY <1>2, <1>4

LEMMA ExitProcessType ==
  ASSUME NEW k0, NEW k \in Near(k0), NEW p \in Users
  PROVE  ExitProcess(k, p) \in Near(k0)
  <1> DEFINE me       == k.proc[p]
             parent   == LookupLive(k, me.ppid)
             marked   == MarkKilled(k, p)
             informed == IF parent # NULL THEN Notify(marked, parent)
                         ELSE [marked EXCEPT !.proc[p].ppid = 1]
             jobs     == {j \in Users : k.proc[j].state = "STOPPED" /\ k.proc[j].ppid = me.pid}
             doomed   == Those(k.suspended, jobs)
             jobless  == FoldLeft(KillJob, informed, doomed)
             orphaned == SwitchParent(jobless, me.pid, 1, TRUE)
             released == Unpause(HandOver(orphaned, p, Lookup(k, me.ppid)), p)
             buried   == [released EXCEPT !.zombies = PushBack(released.zombies, p)]
  <1>1. ExitProcess(k, p) = WakeUp(buried, STATE_CHANGE)
    BY DEF ExitProcess
  <1>2. marked \in Near(k0)
    BY MarkKilledType
  <1>3. parent \in Users \cup {NULL} /\ Lookup(k, me.ppid) \in Users \cup {NULL}
    BY LookupFacts, LookupLiveFacts
  <1> HIDE DEF marked, parent
  <1>4. informed \in Near(k0)
    BY <1>2, <1>3, NotifyType, SetField, EventFacts, Sets
  <1>5. doomed \in Seq(Users)
    <2>1. k.suspended \in Queue(Users)
      BY StateFacts
    <2> QED
      BY <2>1, ThoseFacts DEF Queue
  <1> HIDE DEF informed, doomed
  <1>6. jobless \in Near(k0)
    BY <1>4, <1>5, KillJobLoop, KillJobType
  <1> HIDE DEF jobless
  <1>7. orphaned \in Near(k0)
    BY <1>6, SwitchParentType, EventFacts, StateFacts, ProcessFacts
  <1> HIDE DEF orphaned
  <1>8. released \in Near(k0)
    BY <1>3, <1>7, HandOverType, UnpauseType
  <1> HIDE DEF released
  <1>9. buried \in Near(k0)
    BY <1>8, QueueTypes
  <1> QED
    BY <1>1, <1>9, WakeUpType

LEMMA DequeueType ==
  ASSUME NEW k0, NEW k \in Near(k0), NEW p \in Users
  PROVE  Dequeue(k, p) \in Near(k0)
  BY QueueTypes DEF Dequeue

LEMMA TerminateType ==
  ASSUME NEW k0, NEW k \in Near(k0), NEW p \in Users
  PROVE  Terminate(k, p) \in Near(k0)
  BY DequeueType, ExitProcessType DEF Terminate

LEMMA KillNowType ==
  ASSUME NEW k0, NEW k \in Near(k0), NEW p \in Users
  PROVE  KillNow(k, p) \in Near(k0)
  <1> DEFINE me       == k.proc[p]
             parent   == LookupLive(k, me.ppid)
             informed == Notify(k, parent)
             released == Unpause(HandOver(Dequeue(informed, p), p, Lookup(k, me.ppid)), p)
             removed  == IF me.state = "STOPPED"
                         THEN [informed EXCEPT !.suspended = Unlink(informed.suspended, p)]
                         ELSE released
             switched == SwitchParent(removed, me.pid, 1, FALSE)
             orphaned == KillChildren(switched, p, SIGKILL)
             marked   == MarkKilled(orphaned, p)
             r        == [marked EXCEPT !.proc[p].daemon = FALSE]
             dead     == [r EXCEPT !.zombies = PushBack(r.zombies, p)]
  <1>1. KillNow(k, p) = IF Unprivileged(k, p) THEN WakeUp(dead, STATE_CHANGE) ELSE k
    BY DEF KillNow
  <1>2. parent \in Users \cup {NULL} /\ Lookup(k, me.ppid) \in Users \cup {NULL}
    BY LookupFacts, LookupLiveFacts
  <1> HIDE DEF parent
  <1>3. informed \in Near(k0)
    BY <1>2, NotifyType
  <1> HIDE DEF informed
  <1>4. released \in Near(k0)
    BY <1>2, <1>3, DequeueType, HandOverType, UnpauseType
  <1> HIDE DEF released
  <1>5. removed \in Near(k0)
    BY <1>3, <1>4, QueueTypes
  <1> HIDE DEF removed
  <1>6. switched \in Near(k0)
    BY <1>5, SwitchParentType, EventFacts
  <1> HIDE DEF switched
  <1>7. orphaned \in Near(k0)
    BY <1>6, KillChildrenType, Sets
  <1> HIDE DEF orphaned
  <1>8. marked \in Near(k0)
    BY <1>7, MarkKilledType
  <1> HIDE DEF marked
  <1>9. r \in Near(k0)
    BY <1>8, SetField, Sets
  <1> HIDE DEF r
  <1>10. dead \in Near(k0)
    BY <1>9, QueueTypes
  <1> QED
    BY <1>1, <1>10, WakeUpType

LEMMA InformOfStopType ==
  ASSUME NEW k0, NEW k \in Near(k0), NEW p \in Users, NEW parent \in Users \cup {NULL}
  PROVE  InformOfStop(k, p, parent) \in Near(k0)
  <1>1. CASE parent = NULL
    BY <1>1 DEF InformOfStop
  <1>2. CASE parent # NULL
    <2> DEFINE noted == Notify(k, parent)
               told  == [noted EXCEPT !.proc[parent].wpid = k.proc[p].pid]
               r     == [told EXCEPT !.proc[parent].jobs = told.proc[parent].jobs + 1]
    <2>1. p \in Slots /\ parent \in Slots /\ k.proc[p] \in ProcessOK /\ k.proc[parent] \in ProcessOK
      BY <1>2, StateFacts, Sets
    <2>2. k.proc[p].pid \in -1 .. MaxPid /\ k.proc[parent].jobs + 1 \in Nat
      BY <2>1, ProcessFacts, EventFacts
    <2>3. InformOfStop(k, p, parent) = IF k.proc[p].job # 0 THEN told
                                       ELSE [r EXCEPT !.proc[p].job = k.proc[parent].jobs + 1]
      <3>1. CASE k.proc[p].job # 0
        BY <1>2, <3>1 DEF InformOfStop
      <3>2. CASE k.proc[p].job = 0
        BY <1>2, <3>2 DEF InformOfStop
      <3> QED
        BY <3>1, <3>2
    <2>4. noted \in Near(k0)
      BY <1>2, NotifyType
    <2> HIDE DEF noted
    <2>5. told \in Near(k0)
      BY <2>1, <2>2, <2>4, SetField
    <2> HIDE DEF told
    <2>6. r \in Near(k0)
      <3>1. told.proc[parent].jobs \in Nat
        BY <2>1, <2>5, StateFacts, ProcessFacts
      <3> QED
        BY <2>1, <2>5, <3>1, SetField
    <2> HIDE DEF r
    <2>7. [r EXCEPT !.proc[p].job = k.proc[parent].jobs + 1] \in Near(k0)
      BY <2>1, <2>2, <2>6, SetField
    <2> QED
      BY <2>3, <2>5, <2>7
  <1> QED
    BY <1>1, <1>2

LEMMA StopType ==
  ASSUME NEW k0, NEW k \in Near(k0), NEW p \in Users
  PROVE  Stop(k, p) \in Near(k0)
  <1> DEFINE ppid     == k.proc[p].ppid
             parent   == LookupLive(k, ppid)
             informed == InformOfStop(Dequeue(k, p), p, parent)
             released == Unpause(HandOver(informed, p, Lookup(k, ppid)), p)
             r        == [released EXCEPT !.proc[p].state = "STOPPED"]
             stopped  == [r EXCEPT !.suspended = PushBack(r.suspended, p)]
  <1>1. Stop(k, p) = IF Unprivileged(k, p) /\ k.proc[p].state # "STOPPED"
                     THEN WakeUp(stopped, STATE_CHANGE) ELSE k
    BY DEF Stop
  <1>2. parent \in Users \cup {NULL} /\ Lookup(k, ppid) \in Users \cup {NULL}
    BY LookupFacts, LookupLiveFacts
  <1> HIDE DEF parent
  <1>3. informed \in Near(k0)
    BY <1>2, DequeueType, InformOfStopType
  <1> HIDE DEF informed
  <1>4. released \in Near(k0)
    BY <1>2, <1>3, HandOverType, UnpauseType
  <1> HIDE DEF released
  <1>5. r \in Near(k0)
    BY <1>4, SetField, Sets DEF States
  <1> HIDE DEF r
  <1>6. stopped \in Near(k0)
    BY <1>5, QueueTypes
  <1> QED
    BY <1>1, <1>6, WakeUpType

LEMMA PauseForegroundType ==
  ASSUME NEW k0, NEW k \in Near(k0)
  PROVE  PauseForeground(k) \in Near(k0)
  <1> DEFINE f  == k.fg
             r1 == [k EXCEPT !.proc[f].state = "SLEEP"]
             r2 == [r1 EXCEPT !.proc[f].event = FG_PAUSED]
             r3 == [r2 EXCEPT !.ready = Unlink(r2.ready, f)]
             r4 == [r3 EXCEPT !.waiting = PushBack(r3.waiting, f)]
  <1>1. PauseForeground(k) = IF k.fg = NULL THEN k ELSE r4
    BY DEF PauseForeground
  <1>2. CASE k.fg = NULL
    BY <1>1, <1>2
  <1>3. CASE k.fg # NULL
    <2>1. f \in Users /\ f \in Slots
      BY <1>3, StateFacts, Sets
    <2> HIDE DEF f
    <2>2. r1 \in Near(k0)
      BY <2>1, SetField DEF States
    <2> HIDE DEF r1
    <2>3. r2 \in Near(k0)
      BY <2>1, <2>2, SetField, EventFacts
    <2> HIDE DEF r2
    <2>4. r3 \in Near(k0)
      BY <2>1, <2>3, QueueTypes
    <2> HIDE DEF r3
    <2>5. r4 \in Near(k0)
      BY <2>1, <2>4, QueueTypes
    <2> QED
      BY <1>1, <1>3, <2>5 DEF f
  <1> QED
    BY <1>2, <1>3

LEMMA UnsuspendType ==
  ASSUME NEW k0, NEW k \in Near(k0), NEW p \in Users
  PROVE  Unsuspend(k, p) \in Near(k0)
  <1> DEFINE me == k.proc[p]
             r  == [k EXCEPT !.suspended = Unlink(k.suspended, p)]
             a  == [r EXCEPT !.ready = PushBack(r.ready, p)]
             b1 == [r EXCEPT !.waiting = PushBack(r.waiting, p)]
             b2 == [b1 EXCEPT !.proc[p].state = "SLEEP"]
             ev == IF ~ me.daemon /\ me.event = DAEMON_INPUT THEN KEYBOARD_INPUT ELSE me.event
  <1>1. Unsuspend(k, p) = IF me.event = NONE THEN [a EXCEPT !.proc[p].state = "READY"]
                          ELSE [b2 EXCEPT !.proc[p].event = ev]
    BY Sets DEF Unsuspend
  <1>2. p \in Slots /\ ev \in NONE .. MaxPid
    <2>1. p \in Slots /\ me \in ProcessOK
      BY StateFacts, Sets
    <2> QED
      BY <2>1, ProcessFacts, EventFacts
  <1>3. r \in Near(k0)
    BY QueueTypes
  <1> HIDE DEF r, me, ev
  <1>4. a \in Near(k0) /\ b1 \in Near(k0)
    BY <1>3, QueueTypes
  <1> HIDE DEF a, b1
  <1>5. [a EXCEPT !.proc[p].state = "READY"] \in Near(k0) /\ b2 \in Near(k0)
    BY <1>2, <1>4, SetField DEF States
  <1> HIDE DEF b2
  <1>6. [b2 EXCEPT !.proc[p].event = ev] \in Near(k0)
    BY <1>2, <1>5, SetField
  <1> QED
    BY <1>1, <1>5, <1>6

LEMMA ContinueType ==
  ASSUME NEW k0, NEW k \in Near(k0), NEW p \in Users
  PROVE  Continue(k, p) \in Near(k0)
  <1> DEFINE resumed == Unsuspend(k, p)
             paused  == PauseForeground(resumed)
             shown   == IF k.proc[p].daemon THEN resumed ELSE [paused EXCEPT !.fg = p]
             parent  == LookupLive(k, k.proc[p].ppid)
  <1>1. Continue(k, p) = IF Unprivileged(k, p) /\ k.proc[p].state = "STOPPED"
                         THEN Notify(shown, parent) ELSE k
    BY DEF Continue
  <1>2. parent \in Users \cup {NULL}
    BY LookupLiveFacts
  <1> HIDE DEF parent
  <1>3. resumed \in Near(k0)
    BY UnsuspendType
  <1> HIDE DEF resumed
  <1>4. paused \in Near(k0)
    BY <1>3, PauseForegroundType
  <1> HIDE DEF paused
  <1>5. [paused EXCEPT !.fg = p] \in Near(k0)
    <2>1. paused.ready \in Queue(Users)
      BY <1>4, StateFacts
    <2> QED
      BY <1>4, <2>1, SetList
  <1>6. shown \in Near(k0)
    BY <1>3, <1>5
  <1> HIDE DEF shown
  <1> QED
    BY <1>1, <1>2, <1>6, NotifyType

LEMMA DefaultHandlerType ==
  ASSUME NEW k0, NEW k \in Near(k0), NEW p \in Users, NEW s
  PROVE  DefaultHandler(k, p, s) \in Near(k0)
  <1>1. DefaultHandler(k, p, s) \in {Terminate(k, p), KillNow(k, p), Stop(k, p), Continue(k, p), k}
    BY DEF DefaultHandler
  <1> QED
    BY <1>1, TerminateType, KillNowType, StopType, ContinueType

LEMMA RedirectType ==
  ASSUME NEW k0, NEW k \in Near(k0), NEW p \in Users, NEW s \in Known
  PROVE  Redirect(k, p, s) \in Near(k0)
  <1> DEFINE resumed == IF s = SIGCONT THEN Continue(k, p) ELSE k
             r       == [resumed EXCEPT !.proc[p].proxied =
                                              Append(resumed.proc[p].proxied, k.proc[p].call)]
             h       == [r.proc[p].handlers EXCEPT ![s] = DefHandlers[s]]
  <1>1. Redirect(k, p, s) = [r EXCEPT !.proc[p].handlers = h]
    BY DEF Redirect
  <1>2. p \in Slots /\ p # Idle /\ k.proc[p].call \in CallOK
    BY StateFacts, ProcessFacts, Sets
  <1>3. resumed \in Near(k0)
    BY ContinueType
  <1> HIDE DEF resumed
  <1>4. Append(resumed.proc[p].proxied, k.proc[p].call) \in Seq(CallOK)
    <2>1. resumed.proc[p].proxied \in Seq(CallOK)
      BY <1>2, <1>3, StateFacts, ProcessFacts
    <2> QED
      BY <1>2, <2>1
  <1>5. r \in Near(k0)
    BY <1>2, <1>3, <1>4, SetField
  <1> HIDE DEF r
  <1>6. h \in [Known -> {"NULL", "DEFAULT", "USER"}]
    <2>1. r.proc[p].handlers \in [Known -> {"NULL", "DEFAULT", "USER"}]
      BY <1>2, <1>5, StateFacts, ProcessFacts
    <2>2. DefHandlers[s] \in {"NULL", "DEFAULT", "USER"}
      BY BlankType
    <2> QED
      BY <2>1, <2>2
  <1> HIDE DEF h
  <1> QED
    BY <1>1, <1>2, <1>5, <1>6, SetField

LEMMA ResleepType ==
  ASSUME NEW k0, NEW k \in Near(k0), NEW p \in Users
  PROVE  Resleep(k, p) \in Near(k0)
  <1> DEFINE r1 == [k EXCEPT !.ready = Unlink(k.ready, p)]
             r2 == [r1 EXCEPT !.waiting = PushBack(r1.waiting, p)]
             r3 == [r2 EXCEPT !.proc[p].state = "SLEEP"]
  <1>1. Resleep(k, p) \in {r3, k}
    BY DEF Resleep
  <1>2. r1 \in Near(k0)
    BY QueueTypes
  <1> HIDE DEF r1
  <1>3. r2 \in Near(k0)
    BY <1>2, QueueTypes
  <1> HIDE DEF r2
  <1>4. r3 \in Near(k0)
    BY <1>3, SetField, Sets DEF States
  <1> QED
    BY <1>1, <1>4

LEMMA DeliverType ==
  ASSUME NEW k0, NEW k \in Near(k0), NEW p \in Users, NEW s \in Known
  PROVE  Deliver(k, p, s) \in Near(k0)
  <1> DEFINE handler == k.proc[p].handlers[s]
             handled == CASE handler = "USER"    -> Redirect(k, p, s)
                          [] handler = "DEFAULT" -> DefaultHandler(k, p, s)
                          [] OTHER               -> k
             cleared == [handled EXCEPT !.proc[p].signals = handled.proc[p].signals \ {s}]
  <1>1. handled \in Near(k0)
    BY RedirectType, DefaultHandlerType
  <1>2. Deliver(k, p, s) \in {k, cleared, Resleep(cleared, p)}
    BY DEF Deliver
  <1> HIDE DEF handled
  <1>3. cleared \in Near(k0)
    <2>1. p \in Slots /\ handled.proc[p].signals \in SignalSet
      BY <1>1, StateFacts, ProcessFacts, Sets
    <2> QED
      BY <1>1, <2>1, SetField, SignalFacts
  <1> HIDE DEF cleared
  <1> QED
    BY <1>2, <1>3, ResleepType

\* The order in which signals are handled has all the signals there are.
LEMMA SignalOrderFacts ==
  /\ SignalOrder \in Queue(Known)
  /\ \A s \in Known : Contains(SignalOrder, s)
  <1> DEFINE all == <<SIGHUP, SIGINT, SIGABRT, SIGKILL, SIGTERM, SIGCHLD, SIGCONT, SIGSTOP, SIGTSTP>>
             nine == {SIGHUP, SIGINT, SIGABRT, SIGKILL, SIGTERM, SIGCHLD, SIGCONT, SIGSTOP, SIGTSTP}
  <1>1. /\ all \in Seq(nine) /\ Len(all) = 9
        /\ all[1] = SIGHUP /\ all[2] = SIGINT /\ all[3] = SIGABRT /\ all[4] = SIGKILL
        /\ all[5] = SIGTERM /\ all[6] = SIGCHLD /\ all[7] = SIGCONT /\ all[8] = SIGSTOP
        /\ all[9] = SIGTSTP
    OBVIOUS
  <1>2. Known \subseteq nine
    BY KernelAssumption DEF Known, Default
  <1> HIDE DEF all
  <1>3. \A i \in 1 .. 9 : i \in {1, 2, 3, 4, 5, 6, 7, 8, 9}
    OBVIOUS
  <1>4. NoRepeats(all)
    BY <1>1, <1>3 DEF NoRepeats, SIGHUP, SIGINT, SIGABRT, SIGKILL, SIGTERM, SIGCHLD, SIGCONT, SIGSTOP, SIGTSTP
  <1>5. \A s \in nine : Contains(all, s)
    BY <1>1 DEF Contains
  <1>6. all \in Queue(nine) /\ SignalOrder = Those(all, Known)
    BY <1>1, <1>4 DEF Queue, SignalOrder, all
  <1> HIDE DEF nine
  <1>7. /\ SignalOrder \in Queue(nine)
        /\ \A y : Contains(SignalOrder, y) <=> Contains(all, y) /\ y \in Known
    BY <1>6, ThoseFacts
  <1>8. SignalOrder \in Queue(Known)
    BY <1>7, ElementsIn
  <1> QED
    BY <1>2, <1>5, <1>7, <1>8

LEMMA CheckPendingSignalsType ==
  ASSUME NEW k0, NEW k \in Near(k0), NEW p \in Users
  PROVE  CheckPendingSignals(k, p) \in Near(k0)
  <1>1. SignalOrder \in Seq(Known)
    BY SignalOrderFacts DEF Queue
  <1>2. DeliverSeq(k, SignalOrder, p) \in Near(k0)
    BY <1>1, DeliverLoop, DeliverType
  <1>3. CheckPendingSignals(k, p) = IF k.proc[p].signals = {} THEN k
                                    ELSE DeliverSeq(k, SignalOrder, p)
    BY DEF CheckPendingSignals, DeliverSeq, FoldLeft, MapThenFoldSet
  <1> QED
    BY <1>2, <1>3

-----------------------------------------------------------------------------
(***************************************************************************)
(* The scheduler and the system calls that block.                          *)
(***************************************************************************)
\* The CPU is not given to another process.
Kept(k) == {kk \in KState : kk.curr = k.curr}

LEMMA NearKept ==
  ASSUME NEW k0, NEW k \in Near(k0)
  PROVE  k \in Kept(k0)
  BY DEF Near, Kept

LEMMA ScheduleType ==
  ASSUME NEW k0, NEW k \in Near(k0)
  PROVE  Schedule(k) \in Kept(k0)
  BY DEF Schedule, Near, Kept, KState, KRecord, Mode

LEMMA SleepType ==
  ASSUME NEW k0, NEW k \in Near(k0), k.curr \in Users, NEW ev \in NONE .. MaxPid
  PROVE  Sleep(k, ev) \in Kept(k0)
  <1> DEFINE c  == k.curr
             r1 == [k EXCEPT !.proc[c].state = "SLEEP"]
             r2 == [r1 EXCEPT !.proc[c].event = ev]
             r3 == [r2 EXCEPT !.waiting = PushBack(r2.waiting, c)]
  <1>1. Sleep(k, ev) = Schedule(r3)
    <2>1. r3 = [k EXCEPT !.proc[k.curr].state = "SLEEP", !.proc[k.curr].event = ev,
                         !.waiting = PushBack(@, k.curr)]
      OBVIOUS
    <2> QED
      BY <2>1 DEF Sleep
  <1>2. c \in Users /\ c \in Slots
    BY Sets
  <1> HIDE DEF c
  <1>3. r1 \in Near(k0)
    BY <1>2, SetField DEF States
  <1> HIDE DEF r1
  <1>4. r2 \in Near(k0)
    BY <1>2, <1>3, SetField
  <1> HIDE DEF r2
  <1>5. r3 \in Near(k0)
    BY <1>2, <1>4, QueueTypes
  <1> HIDE DEF r3
  <1> QED
    BY <1>1, <1>5, ScheduleType

LEMMA PreemptType ==
  ASSUME NEW k0, NEW k \in Near(k0)
  PROVE  Preempt(k) \in Kept(k0)
  <1> DEFINE c  == k.curr
             r1 == [k EXCEPT !.proc[c].state = "READY"]
             r2 == [r1 EXCEPT !.ready = IF c = Idle THEN r1.ready ELSE PushBack(r1.ready, c)]
  <1>1. Preempt(k) = IF k.ready = <<>> THEN k ELSE Schedule(r2)
    <2>1. r2 = [k EXCEPT !.proc[k.curr].state = "READY",
                         !.ready = IF k.curr = Idle THEN @ ELSE PushBack(@, k.curr)]
      OBVIOUS
    <2> QED
      BY <2>1 DEF Preempt
  <1>2. c \in Slots /\ (c # Idle => c \in Users)
    BY StateFacts, Sets DEF Users, Slots, Idle
  <1> HIDE DEF c
  <1>3. r1 \in Near(k0)
    BY <1>2, SetField DEF States
  <1> HIDE DEF r1
  <1>4. r2 \in Near(k0)
    <2>1. CASE c = Idle
      <3>1. r1.ready \in Queue(Users) /\ r1.fg \in Users \cup {NULL}
        BY <1>3, StateFacts
      <3> QED
        BY <1>3, <2>1, <3>1, SetList
    <2>2. CASE c # Idle
      BY <1>2, <1>3, <2>2, QueueTypes
    <2> QED
      BY <2>1, <2>2
  <1> HIDE DEF r2
  <1> QED
    BY <1>1, <1>4, ScheduleType, NearKept

LEMMA DispatchType ==
  ASSUME NEW k0, NEW k \in Near(k0), NEW p \in Users, k.ready # <<>>
  PROVE  Dispatch(k, p) \in KState
  <1> DEFINE r1 == [k EXCEPT !.ready = Tail(k.ready)]
             r2 == [r1 EXCEPT !.proc[p].state = "RUNNING"]
             r3 == [r2 EXCEPT !.fg = IF k.fg = NULL /\ ~ k.proc[p].daemon THEN p ELSE k.fg]
  <1>1. Dispatch(k, p) = [r3 EXCEPT !.curr = p,
                                    !.mode = IF k.proc[p].inKernel THEN "kernel" ELSE "user"]
    BY DEF Dispatch
  <1>2. r1 \in Near(k0)
    <2>1. k.ready \in Queue(Users) /\ k.fg \in Users \cup {NULL}
      BY StateFacts
    <2>2. Tail(k.ready) \in Queue(Users)
      BY <2>1, TailFacts
    <2> QED
      BY <2>1, <2>2, SetList
  <1> HIDE DEF r1
  <1>3. r2 \in Near(k0)
    BY <1>2, SetField, Sets DEF States
  <1> HIDE DEF r2
  <1>4. r3 \in Near(k0)
    <2>1. r2.ready \in Queue(Users) /\ k.fg \in Users \cup {NULL}
      BY <1>3, StateFacts
    <2> QED
      BY <1>3, <2>1, SetList
  <1> HIDE DEF r3
  <1> DEFINE m == IF k.proc[p].inKernel THEN "kernel" ELSE "user"
  <1>5. p \in Slots /\ m \in Mode
    BY Sets DEF Mode
  <1>6. Dispatch(k, p) = [r3 EXCEPT !.curr = p, !.mode = m]
    BY <1>1
  <1> HIDE DEF m
  <1>7. r3 \in KRecord /\ r3.proc[Idle].proxied = <<>>
    BY <1>4, StateFacts
  <1> QED
    BY <1>5, <1>6, <1>7 DEF KState, KRecord

LEMMA EnterType ==
  ASSUME NEW k0, NEW k \in Near(k0), NEW call \in CallOK
  PROVE  Enter(k, call) \in Near(k0)
  <1> DEFINE c == k.curr
             r == [k EXCEPT !.proc[c].call = call]
  <1>1. Enter(k, call) = [r EXCEPT !.proc[c].inKernel = TRUE]
    BY DEF Enter
  <1>2. c \in Slots
    BY StateFacts
  <1> HIDE DEF c
  <1>3. r \in Near(k0)
    BY <1>2, SetField
  <1> HIDE DEF r
  <1>4. \A v \in BOOLEAN : [r EXCEPT !.proc[c].inKernel = v] \in Near(k0)
    BY <1>2, <1>3, SetField
  <1> QED
    BY <1>1, <1>4

LEMMA LeaveType ==
  ASSUME NEW k0, NEW k \in Near(k0)
  PROVE  Leave(k) \in Kept(k0)
  <1> DEFINE c  == k.curr
             r1 == [k EXCEPT !.proc[c].inKernel = FALSE]
             r2 == [r1 EXCEPT !.proc[c].call = IF "signal" \in Calls THEN r1.proc[c].call ELSE NoCall]
  <1>1. Leave(k) = [r2 EXCEPT !.mode = "user"]
    <2> DEFINE v  == IF "signal" \in Calls THEN r1.proc[c].call ELSE NoCall
               r3 == [r1 EXCEPT !.mode = "user"]
    <2>1. Leave(k) = [r3 EXCEPT !.proc[c].call = v]
      BY DEF Leave
    <2>2. r1 \in KRecord
      <3>1. r1 \in Near(k0)
        BY StateFacts, SetField
      <3> QED
        BY <3>1, StateFacts
    <2> HIDE DEF v, r1
    <2>3. [r3 EXCEPT !.proc[c].call = v] = [[r1 EXCEPT !.proc[c].call = v] EXCEPT !.mode = "user"]
      BY <2>2 DEF KRecord
    <2> QED
      BY <2>1, <2>3 DEF v
  <1>2. c \in Slots
    BY StateFacts
  <1> HIDE DEF c
  <1>3. r1 \in Near(k0)
    BY <1>2, SetField
  <1> HIDE DEF r1
  <1>4. r2 \in Near(k0)
    <2>1. r1.proc[c].call \in CallOK /\ NoCall \in CallOK
      BY <1>2, <1>3, StateFacts, ProcessFacts, BlankType
    <2> QED
      BY <1>2, <1>3, <2>1, SetField
  <1> HIDE DEF r2
  <1> QED
    BY <1>1, <1>4 DEF Near, Kept, KState, KRecord, Mode

LEMMA SleepLoopType ==
  ASSUME NEW k0, NEW k \in Near(k0), k.curr \in Users
  PROVE  SleepLoop(k) \in Kept(k0)
  BY SleepType, LeaveType, EventFacts DEF SleepLoop

LEMMA FosterType ==
  ASSUME NEW k0, NEW k \in Near(k0)
  PROVE  Foster(k) \in Near(k0)
  <1> DEFINE abandoned(z) ==
               LET parent == Lookup(k, k.proc[z].ppid)
               IN  \/ parent = NULL
                   \/ /\ k.proc[parent].wpid >= 0
                      /\ k.proc[parent].wpid # k.proc[z].pid
             taken(p) == Contains(k.zombies, p) /\ k.proc[p].ppid # 1 /\ abandoned(p)
             t == [p \in Slots |-> IF taken(p) THEN [k.proc[p] EXCEPT !.ppid = 1] ELSE k.proc[p]]
  <1>1. Foster(k) = [k EXCEPT !.proc = t]
    BY DEF Foster
  <1> HIDE DEF taken
  <1>2. k.proc \in [Slots -> ProcessOK] /\ k.proc[Idle].proxied = <<>>
    BY StateFacts
  <1>3. ASSUME NEW p \in Slots
        PROVE  /\ [k.proc[p] EXCEPT !.ppid = 1] \in ProcessOK
               /\ [k.proc[p] EXCEPT !.ppid = 1].proxied = k.proc[p].proxied
    <2>1. k.proc[p] \in ProcessOK /\ 1 \in 0 .. MaxPid
      BY <1>2, EventFacts
    <2> QED
      BY <2>1, FieldFacts, FieldKept
  <1>4. t \in [Slots -> ProcessOK] /\ t[Idle].proxied = <<>>
    BY <1>2, <1>3, Sets
  <1> HIDE DEF t
  <1>5. [k EXCEPT !.proc = t] \in Near(k0)
    BY <1>4, SetTable
  <1> QED
    BY <1>1, <1>5

LEMMA ReapType ==
  ASSUME NEW k0, NEW k \in Near(k0), NEW z \in Users
  PROVE  Reap(k, z) \in Near(k0)
  BY QueueTypes, FreeType DEF Reap

LEMMA WaitLoopType ==
  ASSUME NEW k0, NEW k \in Near(k0), k.curr \in Users, k.proc[k.curr].call.op = "wait"
  PROVE  WaitLoop(k) \in Kept(k0)
  <1> DEFINE c        == k.curr
             call     == k.proc[c].call
             known    == IF k.proc[c].wpid > 1 THEN Lookup(k, k.proc[c].wpid) ELSE NULL
             stopped  == known # NULL /\ k.proc[known].state = "STOPPED" /\ Contains(k.suspended, known)
             acked    == IF stopped THEN [k EXCEPT !.proc[c].wpid = call.arg] ELSE k
             ours     == IF k.proc[c].pid = 1 THEN Foster(acked) ELSE acked
             children == Children(ours, ours.proc[c].pid)
             dead     == {p \in children : Contains(ours.zombies, p)}
             wpid     == IF call.arg = -1 /\ dead # {} THEN ours.proc[Min(dead)].pid ELSE call.arg
             found    == Those(ours.zombies, {p \in Users : ours.proc[p].event = wpid})
             z        == Head(found)
  <1>1. \/ WaitLoop(k) \in {Leave(acked), Leave(ours), Sleep(ours, STATE_CHANGE)}
        \/ found # <<>> /\ WaitLoop(k) = Leave(Reap(ours, z))
    BY DEF WaitLoop
  <1>2. c \in Slots /\ call \in CallOK
    BY StateFacts, ProcessFacts, Sets
  <1>3. call.arg \in -1 .. MaxPid
    BY <1>2 DEF CallOK
  <1> HIDE DEF stopped, wpid
  <1>4. acked \in Near(k0)
    BY <1>2, <1>3, SetField
  <1> HIDE DEF acked
  <1>5. ours \in Near(k0)
    BY <1>4, FosterType
  <1> HIDE DEF ours
  <1>6. ours.curr \in Users
    BY <1>5, StateFacts
  <1>7. ours.zombies \in Queue(Users)
    BY <1>5, StateFacts
  <1>8. found # <<>> => z \in Users
    BY <1>7, ThoseFacts, TailFacts
  <1> HIDE DEF found
  <1>9. Leave(acked) \in Kept(k0) /\ Leave(ours) \in Kept(k0)
    BY <1>4, <1>5, LeaveType
  <1>10. Sleep(ours, STATE_CHANGE) \in Kept(k0)
    BY <1>5, <1>6, SleepType, EventFacts
  <1>11. found # <<>> => Leave(Reap(ours, z)) \in Kept(k0)
    BY <1>5, <1>8, ReapType, LeaveType
  <1> QED
    BY <1>1, <1>9, <1>10, <1>11

LEMMA StartType ==
  ASSUME NEW k0, NEW k \in Near(k0), k.curr \in Users, NEW call \in CallOK
  PROVE  Start(k, call) \in Kept(k0)
  <1> DEFINE c    == k.curr
             e    == Enter(k, call)
             slp  == [e EXCEPT !.proc[c].left = call.arg]
             wt   == [e EXCEPT !.proc[c].wpid = call.arg]
  <1>1. Start(k, call) = CASE call.op = "sleep" -> SleepLoop(slp)
                           [] call.op = "wait"  -> WaitLoop(wt)
                           [] OTHER             -> k
    BY DEF Start
  <1>2. e \in Near(k0) /\ e.curr = c /\ c \in Slots
    <2>1. e \in Near(k0) /\ c \in Slots
      BY EnterType, StateFacts
    <2> QED
      BY <2>1, StateFacts
  <1>3. k \in Kept(k0)
    BY NearKept
  <1>4. call.op = "sleep" => SleepLoop(slp) \in Kept(k0)
    <2> SUFFICES ASSUME call.op = "sleep" PROVE SleepLoop(slp) \in Kept(k0)
      OBVIOUS
    <2>1. call.arg \in 0 .. MaxSleep
      BY DEF CallOK
    <2> HIDE DEF e, c
    <2>2. slp \in Near(k0)
      BY <1>2, <2>1, SetField
    <2>3. slp.curr \in Users
      BY <1>2 DEF c
    <2> HIDE DEF slp
    <2> QED
      BY <2>2, <2>3, SleepLoopType
  <1>5. call.op = "wait" => WaitLoop(wt) \in Kept(k0)
    <2> SUFFICES ASSUME call.op = "wait" PROVE WaitLoop(wt) \in Kept(k0)
      OBVIOUS
    <2>1. call.arg \in -1 .. MaxPid
      BY DEF CallOK
    <2>2. e.proc[c].call = call
      <3>1. k \in KRecord /\ k.proc \in [Slots -> ProcessOK] /\ k.proc[c] \in ProcessOK
        BY <1>2, StateFacts
      <3> QED
        BY <1>2, <3>1 DEF Enter, KRecord, ProcessOK
    <2>3. e \in KRecord /\ e.proc[c] \in ProcessOK
      BY <1>2, StateFacts
    <2> HIDE DEF e, c
    <2>4. wt \in Near(k0)
      BY <1>2, <2>1, SetField
    <2>5. wt.curr = c /\ wt.proc[c].call = call
      BY <1>2, <2>2, <2>3 DEF KRecord, ProcessOK
    <2> HIDE DEF wt
    <2> QED
      BY <2>4, <2>5, WaitLoopType DEF c
  <1> HIDE DEF slp, wt
  <1> QED
    BY <1>1, <1>3, <1>4, <1>5

-----------------------------------------------------------------------------
(***************************************************************************)
(* The system calls that do not block.                                     *)
(***************************************************************************)
LEMMA AllocateType ==
  ASSUME NEW k0, NEW k \in Near(k0), NEW c \in Users, c = Min(FreeSlots),
         k.pidNum <= MaxPid, NEW state \in States
  PROVE  Allocate(k, state) \in Near(k0)
  <1> DEFINE y  == Yield(k, k.curr)
             r1 == [y EXCEPT !.proc[c] = Child(k.pidNum, k.proc[k.curr].pid, state)]
             r2 == [r1 EXCEPT !.zombies = CutAfter(r1.zombies, c)]
  <1>1. y \in Near(k0) /\ y.pidNum = k.pidNum
    <2>1. y \in Near(k0)
      BY HandOverType
    <2>2. k \in KRecord
      BY StateFacts
    <2> QED
      BY <2>1, <2>2 DEF Yield, KRecord
  <1>2. Allocate(k, state) = [r2 EXCEPT !.pidNum = r2.pidNum + 1]
    BY DEF Allocate
  <1>3. Child(k.pidNum, k.proc[k.curr].pid, state) \in ProcessOK
    <2>1. k.pidNum \in 0 .. MaxPid
      BY StateFacts
    <2>2. k.proc[k.curr].pid \in 0 .. MaxPid
      BY StateFacts, ProcessFacts
    <2> QED
      BY <2>1, <2>2, BlankType DEF Child, ProcessOK
  <1>4. c \in Slots /\ c # Idle
    BY Sets
  <1> HIDE DEF y
  <1>5. r1 \in Near(k0) /\ r1.pidNum = k.pidNum
    <2>1. r1 \in Near(k0)
      BY <1>1, <1>3, <1>4, SetProcess
    <2>2. y \in KRecord
      BY <1>1, StateFacts
    <2> QED
      BY <1>1, <2>1, <2>2 DEF KRecord
  <1> HIDE DEF r1
  <1>6. r2 \in Near(k0) /\ r2.pidNum = k.pidNum
    <2>1. r1.zombies \in Queue(Users) /\ r1.fg \in Users \cup {NULL} /\ r1 \in KRecord
      BY <1>5, StateFacts
    <2>2. CutAfter(r1.zombies, c) \in Queue(Users)
      BY <2>1, CutAfterFacts DEF Queue
    <2>3. r2 \in Near(k0)
      BY <1>5, <2>1, <2>2, SetList
    <2> QED
      BY <1>5, <2>1, <2>3 DEF KRecord
  <1> HIDE DEF r2
  <1>7. k.pidNum + 1 \in 1 .. MaxPid + 1
    BY StateFacts, KernelAssumption
  <1> QED
    BY <1>2, <1>6, <1>7 DEF Near, KState, KRecord

LEMMA BackgroundType ==
  ASSUME NEW k0, NEW k \in Near(k0), NEW p \in Users
  PROVE  Background(k, p) \in Near(k0)
  <1> DEFINE parent == LookupLive(k, k.proc[p].ppid)
             y      == Yield(k, p)
             daemon == [y EXCEPT !.proc[p].daemon = TRUE]
             r      == [daemon EXCEPT !.proc[parent].jobs = daemon.proc[parent].jobs + 1]
  <1>1. Background(k, p) = IF parent = NULL THEN daemon
                           ELSE [r EXCEPT !.proc[p].job = k.proc[parent].jobs + 1]
    BY DEF Background
  <1>2. parent \in Users \cup {NULL} /\ p \in Slots
    BY LookupLiveFacts, Sets
  <1> HIDE DEF parent
  <1>3. y \in Near(k0)
    BY HandOverType
  <1> HIDE DEF y
  <1>4. \A v \in BOOLEAN : [y EXCEPT !.proc[p].daemon = v] \in Near(k0)
    BY <1>2, <1>3, SetField
  <1>5. daemon \in Near(k0)
    BY <1>4
  <1> HIDE DEF daemon
  <1>6. ASSUME parent # NULL
        PROVE  [r EXCEPT !.proc[p].job = k.proc[parent].jobs + 1] \in Near(k0)
    <2>1. parent \in Slots
      BY <1>2, <1>6, Sets
    <2>2. daemon.proc[parent].jobs \in Nat /\ k.proc[parent].jobs \in Nat
      BY <1>5, <2>1, StateFacts, ProcessFacts
    <2>3. \A v \in Nat : [daemon EXCEPT !.proc[parent].jobs = v] \in Near(k0)
      BY <1>5, <2>1, SetField
    <2>4. r \in Near(k0)
      BY <2>2, <2>3
    <2> HIDE DEF r
    <2>5. \A v \in Nat : [r EXCEPT !.proc[p].job = v] \in Near(k0)
      BY <1>2, <2>4, SetField
    <2> QED
      BY <2>2, <2>5
  <1> QED
    BY <1>1, <1>5, <1>6

LEMMA InitHandlersType ==
  ASSUME NEW k0, NEW k \in Near(k0), NEW p \in Users
  PROVE  [InitHandlers(k, p) EXCEPT !.proc[p].proxied = <<>>] \in Near(k0)
  <1> DEFINE r1 == [k EXCEPT !.proc[p].signals = {}]
             r2 == [r1 EXCEPT !.proc[p].handlers = DefHandlers]
  <1>1. InitHandlers(k, p) = r2
    BY DEF InitHandlers
  <1>2. p \in Slots /\ p # Idle /\ {} \in SignalSet /\ <<>> \in Seq(CallOK)
    BY Sets DEF SignalSet
  <1>3. r1 \in Near(k0)
    BY <1>2, SetField
  <1> HIDE DEF r1
  <1>4. r2 \in Near(k0)
    BY <1>2, <1>3, SetField, BlankType
  <1> HIDE DEF r2
  <1> QED
    BY <1>1, <1>2, <1>4, SetField

LEMMA MoveToForeType ==
  ASSUME NEW k0, NEW k \in Near(k0), NEW p \in Users
  PROVE  MoveToFore(k, p) \in Near(k0)
  <1> DEFINE ev    == IF k.proc[p].event = DAEMON_INPUT THEN KEYBOARD_INPUT ELSE k.proc[p].event
             input == [k EXCEPT !.proc[p].event = ev]
             r1    == [input EXCEPT !.waiting = Unlink(input.waiting, p)]
             r2    == [r1 EXCEPT !.proc[p].state = "READY"]
             awake == IF k.proc[p].state # "SLEEP" THEN input ELSE r2
             d     == [awake EXCEPT !.proc[p].daemon = FALSE]
             e     == [d EXCEPT !.fg = p]
             f     == [e EXCEPT !.ready = IF Contains(e.ready, p) THEN e.ready ELSE PushBack(e.ready, p)]
  <1>1. MoveToFore(k, p) = IF k.proc[p].state = "STOPPED"
                           THEN [k EXCEPT !.proc[p].daemon = FALSE] ELSE f
    <2>1. input = [k EXCEPT !.proc[p].event = IF @ = DAEMON_INPUT THEN KEYBOARD_INPUT ELSE @]
      OBVIOUS
    <2>2. awake = LET in == [k EXCEPT !.proc[p].event = IF @ = DAEMON_INPUT THEN KEYBOARD_INPUT ELSE @]
                  IN  IF k.proc[p].state # "SLEEP" THEN in
                      ELSE [in EXCEPT !.waiting = Unlink(@, p), !.proc[p].state = "READY"]
      BY <2>1
    <2> QED
      BY <2>2 DEF MoveToFore
  <1>2. p \in Slots /\ k.proc[p] \in ProcessOK
    BY StateFacts, Sets
  <1>3. ev \in NONE .. MaxPid
    BY <1>2, ProcessFacts, EventFacts
  <1> HIDE DEF ev
  <1>4. input \in Near(k0)
    BY <1>2, <1>3, SetField
  <1> HIDE DEF input
  <1>5. r1 \in Near(k0)
    BY <1>4, QueueTypes
  <1> HIDE DEF r1
  <1>6. r2 \in Near(k0)
    BY <1>2, <1>5, SetField DEF States
  <1>7. awake \in Near(k0)
    BY <1>4, <1>6
  <1> HIDE DEF awake
  <1>8. \A kk \in Near(k0) : [kk EXCEPT !.proc[p].daemon = FALSE] \in Near(k0)
    <2> SUFFICES ASSUME NEW kk \in Near(k0)
                 PROVE  [kk EXCEPT !.proc[p].daemon = FALSE] \in Near(k0)
      OBVIOUS
    <2>1. \A v \in BOOLEAN : [kk EXCEPT !.proc[p].daemon = v] \in Near(k0)
      BY <1>2, SetField
    <2> QED
      BY <2>1
  <1>9. d \in Near(k0)
    BY <1>7, <1>8
  <1> HIDE DEF d
  <1>10. e \in Near(k0) /\ e.ready \in Queue(Users)
    <2>1. d.ready \in Queue(Users)
      BY <1>9, StateFacts
    <2>2. e \in Near(k0)
      BY <1>9, <2>1, SetList
    <2> QED
      BY <2>2, StateFacts
  <1> HIDE DEF e
  <1>11. f \in Near(k0)
    BY <1>10, PushBackFacts, SetList, StateFacts
  <1> QED
    BY <1>1, <1>8, <1>11

LEMMA MoveToBackType ==
  ASSUME NEW k0, NEW k \in Near(k0), NEW p \in Users
  PROVE  MoveToBack(k, p) \in Near(k0)
  <1> DEFINE d  == [k EXCEPT !.proc[p].daemon = TRUE]
             ev == IF d.proc[p].event \in {KEYBOARD_INPUT, FG_PAUSED} THEN DAEMON_INPUT
                   ELSE d.proc[p].event
             e  == [d EXCEPT !.proc[p].event = ev]
  <1>1. MoveToBack(k, p) = IF k.proc[p].state # "STOPPED" THEN k ELSE e
    <2>1. e = [k EXCEPT !.proc[p].daemon = TRUE,
                        !.proc[p].event = IF @ \in {KEYBOARD_INPUT, FG_PAUSED} THEN DAEMON_INPUT ELSE @]
      OBVIOUS
    <2> QED
      BY <2>1 DEF MoveToBack
  <1>2. p \in Slots
    BY Sets
  <1>3. \A v \in BOOLEAN : [k EXCEPT !.proc[p].daemon = v] \in Near(k0)
    BY <1>2, SetField
  <1>4. d \in Near(k0)
    BY <1>3
  <1> HIDE DEF d
  <1>5. ev \in NONE .. MaxPid
    BY <1>2, <1>4, StateFacts, ProcessFacts, EventFacts
  <1> HIDE DEF ev
  <1>6. e \in Near(k0)
    BY <1>2, <1>4, <1>5, SetField
  <1> QED
    BY <1>1, <1>6

-----------------------------------------------------------------------------
(***************************************************************************)
(* The steps of the system.                                                *)
(***************************************************************************)
TypeInv == Now \in KState

LEMMA BecomeFacts ==
  ASSUME NEW k \in KState, Become(k)
  PROVE  Now' = k
  BY DEF Become, Now, KState, KRecord

LEMMA NowFacts ==
  ASSUME TypeInv
  PROVE  /\ Now \in Near(Now) /\ Now \in Kept(Now)
         /\ Now.proc = proc /\ Now.ready = ready /\ Now.suspended = suspended
         /\ Now.curr = curr /\ Now.mode = mode /\ Now.pidNum = pidNum
  BY DEF TypeInv, Near, Kept, Now

\* The CPU changes hands only where schedule has chosen.
Regular == Now' \in KState /\ (curr' # curr => mode = "choose" /\ mode' # "choose")

LEMMA KeptRegular ==
  ASSUME TypeInv, NEW k \in Kept(Now), Become(k)
  PROVE  Regular
  <1>1. k \in KState /\ k.curr = curr
    BY NowFacts DEF Kept
  <1>2. Now' = k
    BY <1>1, BecomeFacts
  <1>3. (Now').curr = curr'
    BY DEF Now
  <1> QED
    BY <1>1, <1>2, <1>3 DEF Regular

LEMMA NearRegular ==
  ASSUME TypeInv, NEW k \in Near(Now), Become(k)
  PROVE  Regular
  BY KeptRegular, NearKept

LEMMA UserFacts ==
  ASSUME TypeInv, curr # Idle
  PROVE  curr \in Users
  <1>1. curr \in Slots
    BY DEF TypeInv, KState, KRecord, Now
  <1> QED
    BY <1>1 DEF Users, Slots, Idle

LEMMA TickRegular ==
  ASSUME TypeInv, Tick
  PROVE  Regular
  <1> DEFINE t     == [p \in Slots |-> [proc[p] EXCEPT !.left = IF @ > 0 THEN @ - 1 ELSE 0]]
             later == [Now EXCEPT !.proc = t]
  <1>1. Become(Preempt(WakeUp(later, SLEEP_SYSCALL)))
    BY DEF Tick
  <1>2. proc \in [Slots -> ProcessOK] /\ proc[Idle].proxied = <<>>
    BY NowFacts, StateFacts
  <1>3. ASSUME NEW p \in Slots
        PROVE  /\ [proc[p] EXCEPT !.left = IF @ > 0 THEN @ - 1 ELSE 0] \in ProcessOK
               /\ [proc[p] EXCEPT !.left = IF @ > 0 THEN @ - 1 ELSE 0].proxied = proc[p].proxied
    <2>1. proc[p] \in ProcessOK /\ proc[p].left \in 0 .. MaxSleep
      BY <1>2, ProcessFacts
    <2>2. (IF proc[p].left > 0 THEN proc[p].left - 1 ELSE 0) \in 0 .. MaxSleep
      BY <2>1, KernelAssumption
    <2>3. \A v \in 0 .. MaxSleep : [proc[p] EXCEPT !.left = v] \in ProcessOK
      BY <2>1, FieldFacts
    <2>4. \A v : [proc[p] EXCEPT !.left = v].proxied = proc[p].proxied
      BY <2>1, FieldKept
    <2> QED
      BY <2>2, <2>3, <2>4
  <1>4. t \in [Slots -> ProcessOK] /\ t[Idle].proxied = <<>>
    BY <1>2, <1>3, Sets
  <1> HIDE DEF t
  <1>5. later \in Near(Now)
    BY <1>4, NowFacts, SetTable
  <1> HIDE DEF later
  <1>6. Preempt(WakeUp(later, SLEEP_SYSCALL)) \in Kept(Now)
    BY <1>5, WakeUpType, PreemptType
  <1> QED
    BY <1>1, <1>6, KeptRegular

LEMMA ScanSuspendedRegular ==
  ASSUME TypeInv, ScanSuspended
  PROVE  Regular
  <1> DEFINE k == FoldLeft(CheckPendingSignals, Now, suspended)
             r == [k EXCEPT !.mode = "choose"]
  <1>1. Become(r)
    BY DEF ScanSuspended
  <1>2. suspended \in Seq(Users)
    BY NowFacts, StateFacts DEF Queue
  <1>3. k \in Near(Now)
    BY <1>2, NowFacts, ScanLoop, CheckPendingSignalsType
  <1> HIDE DEF k
  <1>4. r \in Kept(Now)
    BY <1>3 DEF Near, Kept, KState, KRecord, Mode
  <1> QED
    BY <1>1, <1>4, KeptRegular

LEMMA ConsiderHeadRegular ==
  ASSUME TypeInv, ConsiderHead
  PROVE  Regular
  <1> DEFINE p == Head(ready)
             k == CheckPendingSignals(Now, p)
  <1>1. /\ mode = "choose" /\ ready # <<>>
        /\ Become(IF k.ready # <<>> /\ Head(k.ready) = p THEN Dispatch(k, p) ELSE k)
    BY DEF ConsiderHead
  <1>2. p \in Users
    <2>1. ready \in Queue(Users)
      BY NowFacts, StateFacts
    <2> QED
      BY <1>1, <2>1, TailFacts
  <1> HIDE DEF p
  <1>3. k \in Near(Now)
    BY <1>2, NowFacts, CheckPendingSignalsType
  <1> HIDE DEF k
  <1>4. CASE k.ready # <<>> /\ Head(k.ready) = p
    <2>1. Dispatch(k, p) \in KState
      BY <1>2, <1>3, <1>4, DispatchType
    <2>2. Now' = Dispatch(k, p)
      BY <1>1, <1>4, <2>1, BecomeFacts
    <2>3. Dispatch(k, p).mode # "choose"
      <3>1. k \in KRecord
        BY <1>3, StateFacts
      <3> QED
        BY <3>1 DEF Dispatch, KRecord
    <2>4. (Now').mode = mode'
      BY DEF Now
    <2> QED
      BY <1>1, <2>1, <2>2, <2>3, <2>4 DEF Regular
  <1>5. CASE ~ (k.ready # <<>> /\ Head(k.ready) = p)
    BY <1>1, <1>3, <1>5, NearRegular
  <1> QED
    BY <1>4, <1>5

\* Idle takes the CPU in one step or in two.
LEMMA IdleTakes ==
  ASSUME NEW m
  PROVE  [[Now EXCEPT !.proc[Idle].state = "RUNNING"] EXCEPT !.curr = Idle, !.mode = m]
           = [Now EXCEPT !.curr = Idle, !.proc[Idle].state = "RUNNING", !.mode = m]
  <1> DEFINE t == [proc EXCEPT ![Idle] = [proc[Idle] EXCEPT !.state = "RUNNING"]]
  <1>1. Now.proc = proc
    BY DEF Now
  <1>2. [Now EXCEPT !.proc[Idle].state = "RUNNING"] = [Now EXCEPT !.proc = t]
    BY <1>1
  <1>3. [Now EXCEPT !.curr = Idle, !.proc[Idle].state = "RUNNING", !.mode = m]
           = [Now EXCEPT !.curr = Idle, !.proc = t, !.mode = m]
    BY <1>1
  <1> HIDE DEF t
  <1>4. [[Now EXCEPT !.proc = t] EXCEPT !.curr = Idle, !.mode = m]
           = [Now EXCEPT !.curr = Idle, !.proc = t, !.mode = m]
    BY DEF Now
  <1> QED
    BY <1>2, <1>3, <1>4

LEMMA RunIdleRegular ==
  ASSUME TypeInv, RunIdle
  PROVE  Regular
  <1> DEFINE r == [Now EXCEPT !.proc[Idle].state = "RUNNING"]
             m == IF waiting = <<>> /\ SIGTERM \in proc[Idle].signals THEN "halt" ELSE "user"
             k == [r EXCEPT !.curr = Idle, !.mode = m]
  <1>1. Become(k) /\ mode = "choose"
    <2>1. k = [Now EXCEPT !.curr = Idle, !.proc[Idle].state = "RUNNING", !.mode = m]
      BY IdleTakes
    <2> QED
      BY <2>1 DEF RunIdle
  <1>2. r \in Near(Now)
    BY NowFacts, SetField, Sets DEF States
  <1> HIDE DEF r
  <1>3. k \in KState /\ k.mode # "choose"
    BY <1>2, Sets DEF Near, KState, KRecord, Mode
  <1>4. Now' = k
    BY <1>1, <1>3, BecomeFacts
  <1>5. (Now').mode = mode'
    BY DEF Now
  <1> QED
    BY <1>1, <1>3, <1>4, <1>5 DEF Regular

LEMMA ResumeRegular ==
  ASSUME TypeInv, Resume
  PROVE  Regular
  <1>1. Now \in Near(Now) /\ Now.curr \in Users
    BY NowFacts, StateFacts DEF Resume
  <1>2. \/ Become(SleepLoop(Now))
        \/ Now.proc[Now.curr].call.op = "wait" /\ Become(WaitLoop(Now))
    BY NowFacts DEF Resume
  <1> QED
    BY <1>1, <1>2, SleepLoopType, WaitLoopType, KeptRegular

LEMMA CallFacts ==
  ASSUME TypeInv
  PROVE  /\ \A n \in 0 .. MaxSleep : [op |-> "sleep", arg |-> n, opts |-> {}] \in CallOK
         /\ \A pid \in {-1} \cup 2 .. pidNum - 1, opts \in WaitOptions :
               [op |-> "wait", arg |-> pid, opts |-> opts] \in CallOK
  <1>1. pidNum \in 1 .. MaxPid + 1
    BY NowFacts, StateFacts
  <1>2. WaitOptions \subseteq SUBSET {"WNOHANG", "WUNTRACED"} /\ MaxPid \in Nat /\ MaxSleep \in Nat
    BY KernelAssumption
  <1>3. ASSUME NEW n \in 0 .. MaxSleep
        PROVE  [op |-> "sleep", arg |-> n, opts |-> {}] \in CallOK
    <2>1. n \in -1 .. (MaxPid + MaxSleep)
      BY <1>2
    <2> QED
      BY <2>1 DEF CallOK, Call
  <1>4. ASSUME NEW pid \in {-1} \cup 2 .. pidNum - 1, NEW opts \in WaitOptions
        PROVE  [op |-> "wait", arg |-> pid, opts |-> opts] \in CallOK
    <2>1. pid \in -1 .. MaxPid /\ pid \in -1 .. (MaxPid + MaxSleep)
      BY <1>1, <1>2
    <2>2. opts \in SUBSET {"WNOHANG", "WUNTRACED"}
      BY <1>2
    <2> QED
      BY <2>1, <2>2 DEF CallOK, Call
  <1> QED
    BY <1>3, <1>4

\* The call in the context frame matters to nothing but a call made again.
LEMMA CalledNear ==
  ASSUME TypeInv
  PROVE  Called \in Near(Now)
  <1>1. curr \in Slots /\ Now \in Near(Now)
    BY NowFacts, StateFacts
  <1> QED
    BY <1>1, SetField, BlankType DEF Called

LEMMA ForkRegular ==
  ASSUME TypeInv, SysFork \/ SysForkFails
  PROVE  Regular
  <1> DEFINE c == Min(FreeSlots)
             a == Allocate(Called, "READY")
  <1>1. FreeSlots # {} /\ pidNum <= MaxPid
    BY DEF SysFork, SysForkFails
  <1>2. c \in Users
    <2>1. FreeSlots \subseteq Users
      BY DEF FreeSlots
    <2> QED
      BY <1>1, <2>1, MinFacts, Sets
  <1>3. \A st \in {"READY", "INIT"} : Allocate(Called, st) \in Near(Now)
    <2>1. Called.pidNum = pidNum
      BY DEF Called, Now
    <2> QED
      BY <1>1, <1>2, <2>1, CalledNear, AllocateType DEF States
  <1>4. CASE SysForkFails
    BY <1>3, <1>4, NearRegular DEF SysForkFails
  <1>5. CASE SysFork
    <2>1. Become([a EXCEPT !.ready = PushBack(a.ready, c)])
      BY <1>5 DEF SysFork
    <2>2. a \in Near(Now)
      BY <1>3
    <2> HIDE DEF a, c
    <2>3. [a EXCEPT !.ready = PushBack(a.ready, c)] \in Near(Now)
      BY <1>2, <2>2, QueueTypes
    <2> QED
      BY <2>1, <2>3, NearRegular
  <1> QED
    BY <1>4, <1>5

LEMMA SysExecRegular ==
  ASSUME TypeInv, SysExec
  PROVE  Regular
  <1>1. curr \in Users
    BY UserFacts DEF SysExec, InUserCode
  <1>2. PICK background \in BOOLEAN, readable \in BOOLEAN :
           LET named == IF background THEN Background(Called, curr) ELSE Called
           IN  Become(IF readable
                      THEN [InitHandlers(named, curr) EXCEPT !.proc[curr].proxied = <<>>]
                      ELSE Schedule(ExitProcess(named, curr)))
    BY DEF SysExec
  <1> DEFINE named == IF background THEN Background(Called, curr) ELSE Called
  <1>3. \/ Become([InitHandlers(named, curr) EXCEPT !.proc[curr].proxied = <<>>])
        \/ Become(Schedule(ExitProcess(named, curr)))
    BY <1>2
  <1>4. named \in Near(Now)
    BY <1>1, CalledNear, BackgroundType
  <1> HIDE DEF named
  <1>5. [InitHandlers(named, curr) EXCEPT !.proc[curr].proxied = <<>>] \in Kept(Now)
    BY <1>1, <1>4, InitHandlersType, NearKept
  <1>6. Schedule(ExitProcess(named, curr)) \in Kept(Now)
    BY <1>1, <1>4, ExitProcessType, ScheduleType
  <1> QED
    BY <1>3, <1>5, <1>6, KeptRegular

LEMMA SysExitRegular ==
  ASSUME TypeInv, SysExit
  PROVE  Regular
  <1>1. curr \in Users
    BY UserFacts DEF SysExit, InUserCode
  <1>2. Become(Schedule(ExitProcess(Now, curr)))
    BY DEF SysExit
  <1>3. Schedule(ExitProcess(Now, curr)) \in Kept(Now)
    BY <1>1, NowFacts, ExitProcessType, ScheduleType
  <1> QED
    BY <1>2, <1>3, KeptRegular

LEMMA BlockingRegular ==
  ASSUME TypeInv, SysWait \/ SysSleep
  PROVE  Regular
  <1>1. curr \in Users
    BY UserFacts DEF SysWait, SysSleep, InUserCode
  <1>2. \E call \in CallOK : Become(Start(Now, call))
    <2>1. CASE SysSleep
      BY <2>1, CallFacts DEF SysSleep
    <2>2. CASE SysWait
      BY <2>2, CallFacts DEF SysWait
    <2> QED
      BY <2>1, <2>2
  <1> QED
    BY <1>1, <1>2, NowFacts, StartType, KeptRegular

LEMMA SysKillRegular ==
  ASSUME TypeInv, SysKill
  PROVE  Regular
  <1>1. PICK s \in Sendable, target \in Targets \cup 2 .. pidNum - 1 :
           Become(Kill(Called, curr, target, s))
    BY DEF SysKill
  <1> QED
    BY <1>1, CalledNear, KillType, NearRegular DEF Known

LEMMA SysSignalRegular ==
  ASSUME TypeInv, SysSignal
  PROVE  Regular
  <1>1. PICK s \in Sendable \ {SIGKILL, SIGSTOP}, handler \in {"NULL", "DEFAULT", "USER"} :
           Become([Called EXCEPT !.proc[curr].handlers[s] = handler])
    BY DEF SysSignal
  <1> DEFINE h == [Called.proc[curr].handlers EXCEPT ![s] = handler]
  <1>2. Become([Called EXCEPT !.proc[curr].handlers = h])
    BY <1>1
  <1>3. curr \in Slots /\ h \in [Known -> {"NULL", "DEFAULT", "USER"}]
    <2>1. curr \in Slots /\ Called.proc[curr] \in ProcessOK
      BY CalledNear, NowFacts, StateFacts
    <2>2. Called.proc[curr].handlers \in [Known -> {"NULL", "DEFAULT", "USER"}]
      BY <2>1, ProcessFacts
    <2> QED
      BY <2>1, <2>2
  <1> HIDE DEF h
  <1>4. [Called EXCEPT !.proc[curr].handlers = h] \in Near(Now)
    BY <1>3, CalledNear, SetField
  <1> QED
    BY <1>2, <1>4, NearRegular

LEMMA SigProxyRestoreRegular ==
  ASSUME TypeInv, SigProxyRestore
  PROVE  Regular
  <1> DEFINE q == Now.proc[curr].proxied
             j == [Now EXCEPT !.proc[curr].proxied = Front(q)]
             k == [j EXCEPT !.proc[curr].call = Last(q)]
  <1>1. q # <<>> /\ (Become(Start(k, Last(q))) \/ Become(k))
    <2>1. proc[curr].proxied = q
      BY NowFacts
    <2> QED
      BY <2>1 DEF SigProxyRestore
  <1>2. curr # Idle /\ curr \in Users /\ curr \in Slots
    BY <1>1, UserFacts, NowFacts, StateFacts
  <1>3. q \in Seq(CallOK)
    BY <1>2, NowFacts, StateFacts, ProcessFacts
  <1> HIDE DEF q
  <1>4. Front(q) \in Seq(CallOK) /\ Last(q) \in CallOK
    BY <1>1, <1>3, FrontLastFacts
  <1>5. k \in Near(Now)
    <2>1. j \in Near(Now)
      BY <1>2, <1>4, NowFacts, SetField
    <2> HIDE DEF j
    <2> QED
      BY <1>2, <1>4, <2>1, SetField
  <1>6. k.curr \in Users
    BY <1>2, <1>5, NowFacts, StateFacts
  <1> HIDE DEF k
  <1>7. Start(k, Last(q)) \in Kept(Now) /\ k \in Kept(Now)
    BY <1>4, <1>5, <1>6, StartType, NearKept
  <1> QED
    BY <1>1, <1>7, KeptRegular

LEMMA SysPctrlRegular ==
  ASSUME TypeInv, SysPctrl
  PROVE  Regular
  <1>1. PICK p \in Users : Become(MoveToFore(Called, p)) \/ Become(MoveToBack(Called, p))
    BY LookupJobFacts DEF SysPctrl
  <1> QED
    BY <1>1, CalledNear, MoveToForeType, MoveToBackType, NearRegular

\* Every step keeps the types.
LEMMA StepRegular ==
  ASSUME TypeInv, [Next]_vars
  PROVE  Regular
  <1>1. CASE UNCHANGED vars
    BY <1>1 DEF vars, Now, TypeInv, Regular
  <1>2. CASE Halted
    BY <1>2 DEF Halted, vars, Now, TypeInv, Regular
  <1> QED
    BY <1>1, <1>2, TickRegular, ScanSuspendedRegular, ConsiderHeadRegular, RunIdleRegular,
       ResumeRegular, ForkRegular, SysExecRegular, SysExitRegular, BlockingRegular,
       SysKillRegular, SysSignalRegular, SigProxyRestoreRegular, SysPctrlRegular DEF Next

LEMMA InitTypes ==
  Init => TypeInv
  <1> SUFFICES ASSUME Init PROVE TypeInv
    OBVIOUS
  <1>1. \A p \in Slots : proc[p] \in ProcessOK /\ proc[p].proxied = <<>>
    <2> SUFFICES ASSUME NEW p \in Slots
                 PROVE  proc[p] \in ProcessOK /\ proc[p].proxied = <<>>
      OBVIOUS
    <2>1. CASE p = Idle
      <3>1. proc[p] = [Blank EXCEPT !.state = "RUNNING", !.daemon = TRUE]
        BY <2>1 DEF Init, Idle
      <3> QED
        BY <3>1, BlankType DEF ProcessOK, States
    <2>2. CASE p = 1
      <3>1. proc[p] = [Blank EXCEPT !.pid = 1, !.ppid = 0, !.state = "READY", !.daemon = TRUE]
        BY <2>2 DEF Init, Child, Idle
      <3>2. Blank \in ProcessOK /\ Blank.proxied = <<>>
        BY BlankType
      <3>3. 0 \in 0 .. MaxPid /\ 1 \in 0 .. MaxPid /\ "READY" \in States
        BY EventFacts DEF States
      <3> HIDE DEF Blank
      <3> DEFINE named == [Blank EXCEPT !.pid = 1]
                 child == [named EXCEPT !.ppid = 0]
                 made == [child EXCEPT !.state = "READY"]
      <3>4. named \in ProcessOK /\ named.proxied = <<>>
        BY <3>2, <3>3 DEF ProcessOK
      <3>5. proc[p] = [made EXCEPT !.daemon = TRUE]
        BY <3>1
      <3> HIDE DEF named
      <3>6. child \in ProcessOK /\ child.proxied = <<>>
        BY <3>3, <3>4, FieldFacts, FieldKept
      <3> HIDE DEF child
      <3>7. made \in ProcessOK /\ made.proxied = <<>>
        BY <3>3, <3>6, FieldFacts, FieldKept
      <3> HIDE DEF made
      <3>8. [made EXCEPT !.daemon = TRUE] \in ProcessOK
        BY <3>7, FieldFacts
      <3>9. [made EXCEPT !.daemon = TRUE].proxied = <<>>
        BY <3>7, FieldKept
      <3> QED
        BY <3>5, <3>8, <3>9
    <2>3. CASE p # Idle /\ p # 1
      BY <2>3, BlankType DEF Init
    <2> QED
      BY <2>1, <2>2, <2>3
  <1>2. proc \in [Slots -> ProcessOK]
    <2>1. proc = [p \in Slots |-> proc[p]]
      BY DEF Init
    <2> QED
      BY <1>1, <2>1
  <1>3. <<1>> \in Queue(Users) /\ <<>> \in Queue(Users)
    <2>1. <<1>> \in Seq(Users)
      BY Sets
    <2> QED
      BY <2>1, EmptyQueue DEF Queue, NoRepeats
  <1>4. curr \in Slots /\ fg \in Users \cup {NULL} /\ pidNum \in 1 .. MaxPid + 1 /\ mode = "user"
    BY Sets, KernelAssumption DEF Init
  <1>5. proc[Idle].proxied = <<>>
    BY <1>1, Sets
  <1> QED
    BY <1>2, <1>3, <1>4, <1>5 DEF TypeInv, Now, KState, KRecord, Init, Mode

-----------------------------------------------------------------------------
(***************************************************************************)
(* Theorems.                                                               *)
(***************************************************************************)
LEMMA TypesKept == Spec => []TypeInv
  <1>1. TypeInv /\ [Next]_vars => TypeInv'
    BY StepRegular DEF Regular, TypeInv
  <1> QED
    BY InitTypes, <1>1, PTL DEF Spec

\* Every variable keeps its type: lists hold slots of user processes, nobody but
\* a user process is in the foreground, PIDs and events stay within their bounds.
THEOREM Typed == Spec => []TypeOK
  <1>1. TypeInv => TypeOK
    <2> SUFFICES ASSUME TypeInv PROVE TypeOK
      OBVIOUS
    <2>1. CallOK \subseteq Call /\ SignalSet \subseteq SUBSET Known
      BY DEF CallOK, SignalSet
    <2>2. ProcessOK \subseteq Process
      <3>1. \A q \in Seq(CallOK) : q \in Seq(Call)
        BY <2>1
      <3> QED
        BY <2>1, <3>1 DEF ProcessOK, Process
    <2>3. proc \in [Slots -> Process]
      BY <2>2 DEF TypeInv, KState, KRecord, Now
    <2>4. {ready, waiting, suspended, zombies} \subseteq Seq(Users)
      BY DEF TypeInv, KState, KRecord, Now, Queue
    <2>5. curr \in Slots /\ fg \in Users \cup {NULL} /\ pidNum \in 1 .. MaxPid + 1 /\ mode \in Mode
      BY DEF TypeInv, KState, KRecord, Now
    <2> QED
      BY <2>3, <2>4, <2>5 DEF TypeOK, Mode
  <1> QED
    BY TypesKept, <1>1, PTL

-----------------------------------------------------------------------------
\* Everybody but the process on the CPU has left its stack where swap will
\* find it.
Saved == \A p \in Slots : p # curr => sp[p] = at[p]

\* A process that gets the CPU goes on where it stopped: swap loads the stack
\* pointer that its last call of swap, or its creation, has stored.
THEOREM Resumes == SwitchSpec => OthersResume
  <1>1. SwitchInit => TypeInv /\ Saved
    BY InitTypes DEF SwitchInit, Saved
  <1>2. TypeInv /\ Saved /\ [SwitchNext]_<<vars, switch>> =>
           /\ TypeInv' /\ Saved'
           /\ [Switches /\ curr' # curr => sp[curr'] = at[curr']]_<<vars, switch>>
    <2> SUFFICES ASSUME TypeInv, Saved, [SwitchNext]_<<vars, switch>>
                 PROVE  /\ TypeInv' /\ Saved'
                        /\ Switches /\ curr' # curr => sp[curr'] = at[curr']
      OBVIOUS
    <2>1. [Next]_vars
      BY DEF SwitchNext
    <2>2. Now' \in KState /\ (curr' # curr => mode = "choose" /\ mode' # "choose")
      BY <2>1, StepRegular DEF Regular
    <2>3. TypeInv' /\ curr' \in Slots
      BY <2>2 DEF TypeInv, KState, KRecord, Now
    <2>4. Switches /\ curr' # curr => sp[curr'] = at[curr']
      BY <2>3 DEF Saved
    <2>5. CASE UNCHANGED <<vars, switch>>
      BY <2>3, <2>4, <2>5 DEF vars, switch, Saved
    <2>6. CASE SwitchNext
      <3> SUFFICES ASSUME NEW p \in Slots, p # curr' PROVE sp'[p] = at'[p]
        BY <2>3, <2>4 DEF Saved
      <3>1. /\ at'[p] = IF NewProcess(p) THEN <<"first">>
                        ELSE IF p = curr /\ Schedules THEN Entered ELSE at[p]
            /\ sp'[p] = IF NewProcess(p) THEN <<"first">>
                        ELSE IF p = curr /\ Switches THEN at[p] ELSE sp[p]
        BY <2>6 DEF SwitchNext, StackPointers
      <3>2. CASE NewProcess(p)
        BY <3>1, <3>2
      <3>3. CASE ~ NewProcess(p) /\ p # curr
        BY <3>1, <3>3 DEF Saved
      <3>4. CASE ~ NewProcess(p) /\ p = curr
        <4>1. Switches /\ ~ Schedules
          BY <2>2, <3>4 DEF Switches, Schedules
        <4> QED
          BY <3>1, <3>4, <4>1
      <3> QED
        BY <3>2, <3>3, <3>4
    <2> QED
      BY <2>3, <2>4, <2>5, <2>6
  <1> QED
    BY <1>1, <1>2, PTL DEF SwitchSpec, OthersResume
=============================================================================
