---------------------------- MODULE TotalsProofs ----------------------------
(***************************************************************************)
(* Facts about Total for every number of amounts.  The induction over that *)
(* number is by a least counterexample: the order of the naturals is well  *)
(* founded, so a non-empty set of them has a least element.                *)
(***************************************************************************)
EXTENDS Totals, Integers, FiniteSets, FiniteSetsExt, Functions,
        FiniteSetTheorems, SequenceTheorems, WellFoundedInduction, TLAPS

LessThan == {ss \in Nat \X Nat : ss[1] < ss[2]}

(* A non-empty set of natural numbers has a least element. *)
LEMMA LeastNatural ==
  ASSUME NEW S \in SUBSET Nat, S # {}
  PROVE  \E x \in S : \A y \in S : x <= y
<1>1. IsWellFoundedOn(LessThan, Nat)
  BY NatLessThanWellFounded DEF OpToRel, LessThan
<1>2. PICK x \in S : \A y \in S : ~ (<<y, x>> \in LessThan)
  BY <1>1, WFMin
<1>3. \A y \in S : ~ (y < x)
  BY <1>2 DEF LessThan
<1> QED BY <1>3

(* A set of naturals that holds 0 and the successor of each of its members *)
(* holds every natural.                                                    *)
LEMMA NaturalsFromZero ==
  ASSUME NEW S \in SUBSET Nat, 0 \in S, \A n \in S : n + 1 \in S
  PROVE  S = Nat
<1> SUFFICES ASSUME Nat \ S # {} PROVE FALSE
  OBVIOUS
<1>1. PICK x \in Nat \ S : \A y \in Nat \ S : x <= y
  BY LeastNatural
<1>2. x - 1 \in Nat /\ (x - 1) + 1 = x
  OBVIOUS
<1>3. x - 1 \in S
  BY <1>1, <1>2
<1> QED BY <1>2, <1>3

-----------------------------------------------------------------------------
(* The functions that satisfy the recursion RunningTotal is defined by. *)
IsRunningTotal(sum, amount, n) ==
    /\ sum \in [0 .. n -> Nat]
    /\ \A k \in 0 .. n : sum[k] = IF k = 0 THEN 0 ELSE sum[k - 1] + amount[k]

LEMMA RunningTotalExists ==
  ASSUME NEW n \in Nat, NEW amount \in [1 .. n -> Nat]
  PROVE  \E sum : IsRunningTotal(sum, amount, n)
<1> DEFINE Good == {k \in Nat : k <= n => \E sum : IsRunningTotal(sum, amount, k)}
<1>1. 0 \in Good
  <2>1. IsRunningTotal([k \in 0 .. 0 |-> 0], amount, 0)
    BY DEF IsRunningTotal
  <2> QED BY <2>1
<1>2. ASSUME NEW k \in Good PROVE k + 1 \in Good
  <2> SUFFICES ASSUME k + 1 <= n
               PROVE  \E sum : IsRunningTotal(sum, amount, k + 1)
    OBVIOUS
  <2>1. PICK old : IsRunningTotal(old, amount, k)
    OBVIOUS
  <2> DEFINE new == [i \in 0 .. k + 1 |-> IF i = k + 1 THEN old[k] + amount[k + 1]
                                                       ELSE old[i]]
  <2>2. new \in [0 .. k + 1 -> Nat]
    BY <2>1 DEF IsRunningTotal
  <2>3. ASSUME NEW i \in 0 .. k + 1
        PROVE  new[i] = IF i = 0 THEN 0 ELSE new[i - 1] + amount[i]
    <3>1. CASE i = k + 1
      <4>1. i - 1 = k /\ k \in 0 .. k + 1 /\ k # k + 1 /\ i # 0
        BY <3>1
      <4> QED BY <3>1, <4>1
    <3>2. CASE i # k + 1
      <4>1. i \in 0 .. k
        BY <3>2
      <4>2. new[i] = IF i = 0 THEN 0 ELSE old[i - 1] + amount[i]
        BY <2>1, <3>2, <4>1 DEF IsRunningTotal
      <4>3. i # 0 => new[i - 1] = old[i - 1]
        BY <4>1
      <4> QED BY <4>2, <4>3
    <3> QED BY <3>1, <3>2
  <2>4. IsRunningTotal(new, amount, k + 1)
    <3> HIDE DEF new
    <3> QED BY <2>2, <2>3 DEF IsRunningTotal
  <2> QED BY <2>4
<1>3. Good \in SUBSET Nat
  OBVIOUS
<1>4. n \in Good
  <2> HIDE DEF Good
  <2>1. Good = Nat
    BY <1>1, <1>2, <1>3, NaturalsFromZero
  <2> QED BY <2>1
<1> QED BY <1>4

LEMMA RunningTotalRecursion ==
  ASSUME NEW n \in Nat, NEW amount \in [1 .. n -> Nat]
  PROVE  IsRunningTotal(RunningTotal(amount, n), amount, n)
<1>1. PICK sum : IsRunningTotal(sum, amount, n)
  BY RunningTotalExists
<1>2. sum = [k \in 0 .. n |-> IF k = 0 THEN 0 ELSE sum[k - 1] + amount[k]]
  BY <1>1 DEF IsRunningTotal
<1>3. RunningTotal(amount, n)
        = [k \in 0 .. n |-> IF k = 0 THEN 0
                            ELSE RunningTotal(amount, n)[k - 1] + amount[k]]
  BY <1>2, Zenon DEF RunningTotal
<1> DEFINE total == RunningTotal(amount, n)
<1>4. total = [k \in 0 .. n |-> IF k = 0 THEN 0 ELSE total[k - 1] + amount[k]]
  BY <1>3
<1> HIDE DEF total
<1>5. \A k \in 0 .. n : total[k] = IF k = 0 THEN 0 ELSE total[k - 1] + amount[k]
  BY <1>4
<1>6. total \in [0 .. n -> Nat]
  <2> DEFINE Good == {k \in Nat : k <= n => total[k] \in Nat}
  <2>1. 0 \in Good
    BY <1>5
  <2>2. ASSUME NEW k \in Good PROVE k + 1 \in Good
    <3> SUFFICES ASSUME k + 1 <= n PROVE total[k + 1] \in Nat
      OBVIOUS
    <3>1. k + 1 \in 0 .. n /\ k + 1 # 0 /\ (k + 1) - 1 = k
      OBVIOUS
    <3>2. total[k + 1] = total[k] + amount[k + 1]
      BY <1>5, <3>1
    <3>3. amount[k + 1] \in Nat /\ total[k] \in Nat
      OBVIOUS
    <3> QED BY <3>2, <3>3
  <2>3. Good = Nat
    <3>1. Good \in SUBSET Nat
      OBVIOUS
    <3> HIDE DEF Good
    <3> QED BY <2>1, <2>2, <3>1, NaturalsFromZero
  <2>4. \A k \in 0 .. n : total[k] \in Nat
    BY <2>3
  <2> QED BY <1>4, <2>4
<1> QED BY <1>5, <1>6 DEF IsRunningTotal, total

-----------------------------------------------------------------------------
LEMMA TotalIsNatural ==
  ASSUME NEW n \in Nat, NEW amount \in [1 .. n -> Nat]
  PROVE  Total(amount, n) \in Nat
BY RunningTotalRecursion DEF Total, IsRunningTotal

LEMMA TotalOfNothing ==
  ASSUME NEW n \in Nat, NEW amount \in [1 .. n -> Nat],
         \A i \in 1 .. n : amount[i] = 0
  PROVE  Total(amount, n) = 0
<1> DEFINE sum == RunningTotal(amount, n)
           Good == {k \in Nat : k <= n => sum[k] = 0}
<1> HIDE DEF sum
<1>1. IsRunningTotal(sum, amount, n)
  BY RunningTotalRecursion DEF sum
<1>2. 0 \in Good
  BY <1>1 DEF IsRunningTotal
<1>3. ASSUME NEW k \in Good PROVE k + 1 \in Good
  <2> SUFFICES ASSUME k + 1 <= n PROVE sum[k + 1] = 0
    OBVIOUS
  <2>1. k + 1 \in 0 .. n /\ k + 1 # 0 /\ (k + 1) - 1 = k /\ k + 1 \in 1 .. n
    OBVIOUS
  <2> QED BY <1>1, <2>1 DEF IsRunningTotal
<1>4. Good = Nat
  <2>1. Good \in SUBSET Nat
    OBVIOUS
  <2> HIDE DEF Good
  <2> QED BY <1>2, <1>3, <2>1, NaturalsFromZero
<1>5. sum[n] = 0
  <2>1. n \in Good /\ n <= n
    BY <1>4
  <2> QED BY <2>1
<1> QED BY <1>5 DEF Total, sum

(* Changing one amount changes the total by as much. *)
LEMMA TotalOfOneChange ==
  ASSUME NEW n \in Nat, NEW a \in [1 .. n -> Nat], NEW b \in [1 .. n -> Nat],
         NEW c \in 1 .. n, \A i \in 1 .. n : i # c => b[i] = a[i]
  PROVE  Total(b, n) + a[c] = Total(a, n) + b[c]
<1> DEFINE sumA == RunningTotal(a, n)
           sumB == RunningTotal(b, n)
           Good == {k \in Nat : k <= n =>
                       IF k < c THEN sumB[k] = sumA[k]
                                ELSE sumB[k] + a[c] = sumA[k] + b[c]}
<1> HIDE DEF sumA, sumB
<1>1. IsRunningTotal(sumA, a, n) /\ IsRunningTotal(sumB, b, n)
  BY RunningTotalRecursion DEF sumA, sumB
<1>2. 0 \in Good
  BY <1>1 DEF IsRunningTotal
<1>3. ASSUME NEW k \in Good PROVE k + 1 \in Good
  <2> SUFFICES ASSUME k + 1 <= n
               PROVE  IF k + 1 < c THEN sumB[k + 1] = sumA[k + 1]
                                   ELSE sumB[k + 1] + a[c] = sumA[k + 1] + b[c]
    OBVIOUS
  <2>1. /\ k + 1 \in 0 .. n /\ k \in 0 .. n /\ k + 1 # 0 /\ (k + 1) - 1 = k
        /\ k + 1 \in 1 .. n
    OBVIOUS
  <2>2. /\ sumA[k + 1] = sumA[k] + a[k + 1]
        /\ sumB[k + 1] = sumB[k] + b[k + 1]
    BY <1>1, <2>1 DEF IsRunningTotal
  <2>3. /\ sumA[k] \in Nat /\ sumB[k] \in Nat
        /\ a[k + 1] \in Nat /\ b[k + 1] \in Nat /\ a[c] \in Nat /\ b[c] \in Nat
    BY <1>1, <2>1 DEF IsRunningTotal
  <2>4. IF k < c THEN sumB[k] = sumA[k] ELSE sumB[k] + a[c] = sumA[k] + b[c]
    BY <2>1
  <2>5. k + 1 # c => b[k + 1] = a[k + 1]
    BY <2>1
  <2>6. k \in Nat /\ c \in Nat /\ sumA[k + 1] \in Nat /\ sumB[k + 1] \in Nat
    <3>1. k \in Nat
      BY <2>1
    <3>2. c \in Nat
      OBVIOUS
    <3>3. sumA \in [0 .. n -> Nat] /\ sumB \in [0 .. n -> Nat]
      BY <1>1 DEF IsRunningTotal
    <3> HIDE DEF Good
    <3>4. sumA[k + 1] \in Nat /\ sumB[k + 1] \in Nat
      BY <2>1, <3>3
    <3> QED BY <3>1, <3>2, <3>4
  <2> HIDE DEF Good
  <2>7. CASE k + 1 < c
    BY <2>2, <2>3, <2>4, <2>5, <2>6, <2>7
  <2>8. CASE k + 1 = c
    <3>1. sumB[k] = sumA[k]
      BY <2>4, <2>6, <2>8
    <3>2. a[k + 1] = a[c] /\ b[k + 1] = b[c]
      BY <2>8
    <3>3. ~ (k + 1 < c)
      BY <2>6, <2>8
    <3>4. sumB[k + 1] + a[c] = sumA[k + 1] + b[c]
      BY <2>2, <2>3, <3>1, <3>2
    <3> QED BY <3>3, <3>4
  <2>9. CASE k + 1 > c
    <3>1. sumB[k] + a[c] = sumA[k] + b[c]
      BY <2>4, <2>6, <2>9
    <3>2. b[k + 1] = a[k + 1]
      BY <2>5, <2>6, <2>9
    <3>3. sumB[k + 1] + a[c] = (sumB[k] + a[k + 1]) + a[c]
      BY <2>2, <3>2
    <3>4. (sumB[k] + a[k + 1]) + a[c] = (sumB[k] + a[c]) + a[k + 1]
      BY <2>3
    <3>5. (sumA[k] + b[c]) + a[k + 1] = (sumA[k] + a[k + 1]) + b[c]
      BY <2>3
    <3> QED BY <2>2, <2>6, <2>9, <3>1, <3>3, <3>4, <3>5
  <2> QED BY <2>6, <2>7, <2>8, <2>9
<1>4. Good = Nat
  <2>1. Good \in SUBSET Nat
    OBVIOUS
  <2> HIDE DEF Good
  <2> QED BY <1>2, <1>3, <2>1, NaturalsFromZero
<1>5. sumB[n] + a[c] = sumA[n] + b[c]
  <2>1. n \in Good /\ n <= n /\ ~(n < c)
    BY <1>4
  <2> QED BY <2>1
<1> QED BY <1>5 DEF Total, sumA, sumB

(* A family that is nowhere larger has no larger a total. *)
LEMMA TotalIsMonotone ==
  ASSUME NEW n \in Nat, NEW a \in [1 .. n -> Nat], NEW b \in [1 .. n -> Nat],
         \A i \in 1 .. n : a[i] <= b[i]
  PROVE  Total(a, n) <= Total(b, n)
<1> DEFINE sumA == RunningTotal(a, n)
           sumB == RunningTotal(b, n)
           Good == {k \in Nat : k <= n => sumA[k] <= sumB[k]}
<1> HIDE DEF sumA, sumB
<1>1. IsRunningTotal(sumA, a, n) /\ IsRunningTotal(sumB, b, n)
  BY RunningTotalRecursion DEF sumA, sumB
<1>2. 0 \in Good
  BY <1>1 DEF IsRunningTotal
<1>3. ASSUME NEW k \in Good PROVE k + 1 \in Good
  <2> SUFFICES ASSUME k + 1 <= n PROVE sumA[k + 1] <= sumB[k + 1]
    OBVIOUS
  <2>1. /\ k + 1 \in 0 .. n /\ k \in 0 .. n /\ k + 1 # 0 /\ (k + 1) - 1 = k
        /\ k + 1 \in 1 .. n
    OBVIOUS
  <2>2. /\ sumA[k + 1] = sumA[k] + a[k + 1]
        /\ sumB[k + 1] = sumB[k] + b[k + 1]
    BY <1>1, <2>1 DEF IsRunningTotal
  <2>3. sumA \in [0 .. n -> Nat] /\ sumB \in [0 .. n -> Nat]
    BY <1>1 DEF IsRunningTotal
  <2>4. sumA[k] \in Nat /\ sumB[k] \in Nat
    BY <2>1, <2>3
  <2>5. sumA[k] <= sumB[k]
    BY <2>1
  <2>6. a[k + 1] \in Nat /\ b[k + 1] \in Nat /\ a[k + 1] <= b[k + 1]
    BY <2>1
  <2> QED BY <2>2, <2>4, <2>5, <2>6
<1>4. Good = Nat
  <2>1. Good \in SUBSET Nat
    OBVIOUS
  <2> HIDE DEF Good
  <2> QED BY <1>2, <1>3, <2>1, NaturalsFromZero
<1>5. sumA[n] <= sumB[n]
  <2>1. n \in Good /\ n <= n
    BY <1>4
  <2> QED BY <2>1
<1> QED BY <1>5 DEF Total, sumA, sumB
-----------------------------------------------------------------------------
(* Sums over a finite set of indices.  The library's sums are one recursion*)
(* over sets that takes out a chosen member at a time; what they add up to *)
(* does not depend on the choices.                                         *)

Chosen(s) == CHOOSE x \in s : TRUE
SumStep(f, g, s) == IF s = {} THEN 0 ELSE f[Chosen(s)] + g[s \ {Chosen(s)}]

SumOver(f, S) ==
    LET iter[s \in SUBSET S] == SumStep(f, iter, s)
    IN  iter[S]

LEMMA MapThenSumIsSumOver ==
  ASSUME NEW S, NEW f
  PROVE  MapThenSumSet(LAMBDA x : f[x], S) = SumOver(f, S)
BY DEF MapThenSumSet, MapThenFoldSet, SumOver, SumStep, Chosen

LEMMA SumFunctionIsSumOver ==
  ASSUME NEW f
  PROVE  SumFunction(f) = SumOver(f, DOMAIN f)
BY DEF SumFunction, SumFunctionOnSet, FoldFunctionOnSet, MapThenFoldSet,
       SumOver, SumStep, Chosen

LEMMA FoldFunctionIsSumOver ==
  ASSUME NEW f
  PROVE  FoldFunction(+, 0, f) = SumOver(f, DOMAIN f)
BY DEF FoldFunction, FoldFunctionOnSet, MapThenFoldSet, SumOver, SumStep, Chosen

(* A family of sets that has the empty set, and with a set each that has   *)
(* one member more, has every finite set.                                  *)
LEMMA FiniteSetInduction ==
  ASSUME NEW S, IsFiniteSet(S), NEW Good \in SUBSET SUBSET S, {} \in Good,
         \A T \in Good, x \in S : x \notin T => T \cup {x} \in Good
  PROVE  S \in Good
<1> DEFINE Small == {n \in Nat : \A T \in SUBSET S : Cardinality(T) = n => T \in Good}
<1>1. \A T \in SUBSET S : IsFiniteSet(T) /\ Cardinality(T) \in Nat
  BY FS_Subset, FS_CardinalityType
<1>2. 0 \in Small
  BY <1>1, FS_EmptySet
<1>3. ASSUME NEW n \in Small PROVE n + 1 \in Small
  <2> SUFFICES ASSUME NEW T \in SUBSET S, Cardinality(T) = n + 1 PROVE T \in Good
    OBVIOUS
  <2>1. T # {}
    BY FS_EmptySet
  <2>2. PICK x \in T : TRUE
    BY <2>1
  <2>3. Cardinality(T \ {x}) = n
    BY <1>1, <2>2, FS_RemoveElement
  <2>4. T \ {x} \in Good /\ x \in S
    BY <2>2, <2>3
  <2>5. (T \ {x}) \cup {x} = T
    BY <2>2
  <2> QED BY <2>4, <2>5
<1>4. Small = Nat
  <2>1. Small \in SUBSET Nat
    OBVIOUS
  <2> HIDE DEF Small
  <2> QED BY <1>2, <1>3, <2>1, NaturalsFromZero
<1> QED BY <1>1, <1>4

IsSum(f, g, S) == g = [s \in SUBSET S |-> SumStep(f, g, s)]

LEMMA ChosenIsMember ==
  ASSUME NEW s, s # {}
  PROVE  Chosen(s) \in s
BY DEF Chosen

LEMMA WithoutChosen ==
  ASSUME NEW s, IsFiniteSet(s), s # {}
  PROVE  /\ Chosen(s) \in s /\ IsFiniteSet(s \ {Chosen(s)})
         /\ Cardinality(s \ {Chosen(s)}) = Cardinality(s) - 1
<1>1. Chosen(s) \in s
  BY ChosenIsMember
<1> QED BY <1>1, FS_RemoveElement

LEMMA SumExists ==
  ASSUME NEW f, NEW S, IsFiniteSet(S)
  PROVE  \E g : IsSum(f, g, S)
<1> DEFINE Upto(n) == {s \in SUBSET S : Cardinality(s) <= n}
           Done(n) == \E g : g = [s \in Upto(n) |-> SumStep(f, g, s)]
           Good == {n \in Nat : Done(n)}
<1>1. \A s \in SUBSET S : IsFiniteSet(s) /\ Cardinality(s) \in Nat
                          /\ Cardinality(s) <= Cardinality(S)
  BY FS_Subset, FS_CardinalityType
<1>2. \A s \in SUBSET S : s # {} =>
         /\ s \ {Chosen(s)} \in SUBSET S
         /\ Cardinality(s \ {Chosen(s)}) = Cardinality(s) - 1
  BY <1>1, WithoutChosen
<1>3. 0 \in Good
  <2> DEFINE g == [s \in Upto(0) |-> 0]
  <2>1. \A s \in Upto(0) : s = {}
    BY <1>1, FS_EmptySet
  <2>2. g = [s \in Upto(0) |-> SumStep(f, g, s)]
    BY <2>1 DEF SumStep
  <2> QED BY <2>2
<1>4. ASSUME NEW n \in Good PROVE n + 1 \in Good
  <2>1. PICK old : old = [s \in Upto(n) |-> SumStep(f, old, s)]
    OBVIOUS
  <2> DEFINE new == [s \in Upto(n + 1) |-> SumStep(f, old, s)]
  <2>2. ASSUME NEW s \in Upto(n) PROVE s \in Upto(n + 1) /\ new[s] = old[s]
    <3>1. s \in Upto(n + 1)
      BY <1>1
    <3> QED BY <2>1, <3>1
  <2>3. ASSUME NEW s \in Upto(n + 1) PROVE SumStep(f, old, s) = SumStep(f, new, s)
    <3>1. s # {} => s \ {Chosen(s)} \in Upto(n)
      BY <1>1, <1>2
    <3> HIDE DEF new, Upto
    <3> QED BY <2>2, <3>1 DEF SumStep
  <2>4. new = [s \in Upto(n + 1) |-> SumStep(f, new, s)]
    BY <2>3
  <2> HIDE DEF new
  <2>5. Done(n + 1)
    BY <2>4
  <2> HIDE DEF Done
  <2> QED BY <2>5
<1>5. Cardinality(S) \in Good
  <2>1. Good \in SUBSET Nat
    OBVIOUS
  <2>2. Good = Nat
    <3> HIDE DEF Good
    <3> QED BY <1>3, <1>4, <2>1, NaturalsFromZero
  <2> QED BY <1>1, <2>2
<1>6. Upto(Cardinality(S)) = SUBSET S
  BY <1>1
<1> QED BY <1>5, <1>6 DEF IsSum

LEMMA SumIsUnique ==
  ASSUME NEW f, NEW S, NEW T \in SUBSET S, IsFiniteSet(T),
         NEW g, IsSum(f, g, S), NEW h, IsSum(f, h, T)
  PROVE  g[T] = h[T]
<1> DEFINE Good == {n \in Nat : \A s \in SUBSET T : Cardinality(s) = n => g[s] = h[s]}
<1>1. \A s \in SUBSET T : IsFiniteSet(s) /\ Cardinality(s) \in Nat
  BY FS_Subset, FS_CardinalityType
<1>2. \A s \in SUBSET T : g[s] = SumStep(f, g, s) /\ h[s] = SumStep(f, h, s)
  BY DEF IsSum
<1>3. 0 \in Good
  BY <1>1, <1>2, FS_EmptySet DEF SumStep
<1>4. ASSUME NEW n \in Good PROVE n + 1 \in Good
  <2> SUFFICES ASSUME NEW s \in SUBSET T, Cardinality(s) = n + 1 PROVE g[s] = h[s]
    OBVIOUS
  <2>1. s # {}
    BY FS_EmptySet
  <2>2. s \ {Chosen(s)} \in SUBSET T /\ Cardinality(s \ {Chosen(s)}) = n
    BY <1>1, <2>1, WithoutChosen
  <2>3. g[s \ {Chosen(s)}] = h[s \ {Chosen(s)}]
    BY <2>2
  <2> QED BY <1>2, <2>1, <2>3 DEF SumStep
<1>5. Good = Nat
  <2>1. Good \in SUBSET Nat
    OBVIOUS
  <2> HIDE DEF Good
  <2> QED BY <1>3, <1>4, <2>1, NaturalsFromZero
<1> QED BY <1>1, <1>5

(* The recursion that a sum over a finite set satisfies. *)
LEMMA SumOverRecursion ==
  ASSUME NEW f, NEW S, IsFiniteSet(S)
  PROVE  /\ S = {} => SumOver(f, S) = 0
         /\ S # {} => SumOver(f, S) = f[Chosen(S)] + SumOver(f, S \ {Chosen(S)})
<1> DEFINE Iter(T) == CHOOSE g : IsSum(f, g, T)
<1>1. \A T \in SUBSET S : IsSum(f, Iter(T), T) /\ SumOver(f, T) = Iter(T)[T]
  <2> SUFFICES ASSUME NEW T \in SUBSET S
               PROVE  IsSum(f, Iter(T), T) /\ SumOver(f, T) = Iter(T)[T]
    OBVIOUS
  <2>1. \E g : IsSum(f, g, T)
    BY SumExists, FS_Subset
  <2>2. IsSum(f, Iter(T), T)
    BY <2>1, Zenon
  <2>3. SumOver(f, T) = Iter(T)[T]
    BY DEF SumOver, IsSum
  <2> QED BY <2>2, <2>3
<1>2. SumOver(f, S) = SumStep(f, Iter(S), S)
  <2> HIDE DEF Iter
  <2> QED BY <1>1 DEF IsSum
<1>3. S # {} => Iter(S)[S \ {Chosen(S)}] = SumOver(f, S \ {Chosen(S)})
  <2> DEFINE T == S \ {Chosen(S)}
  <2>1. T \in SUBSET S /\ IsFiniteSet(T)
    BY FS_Subset
  <2>2. IsSum(f, Iter(S), S) /\ IsSum(f, Iter(T), T) /\ SumOver(f, T) = Iter(T)[T]
    BY <1>1, <2>1
  <2> HIDE DEF T, Iter
  <2>3. Iter(S)[T] = Iter(T)[T]
    BY <2>1, <2>2, SumIsUnique
  <2> QED BY <2>2, <2>3 DEF T
<1> QED BY <1>2, <1>3 DEF SumStep

(* What is summed decides the sum; whole numbers have a whole sum.         *)
LEMMA SumOverType ==
  ASSUME NEW f, NEW S, IsFiniteSet(S), \A x \in S : f[x] \in Int
  PROVE  SumOver(f, S) \in Int
<1> DEFINE Good == {n \in Nat : \A T \in SUBSET S : Cardinality(T) = n => SumOver(f, T) \in Int}
<1>1. \A T \in SUBSET S : IsFiniteSet(T) /\ Cardinality(T) \in Nat
  BY FS_Subset, FS_CardinalityType
<1>2. 0 \in Good
  <2>1. SumOver(f, {}) = 0 /\ \A T \in SUBSET S : Cardinality(T) = 0 => T = {}
    BY <1>1, SumOverRecursion, FS_EmptySet
  <2> QED BY <2>1
<1>3. ASSUME NEW n \in Good PROVE n + 1 \in Good
  <2> SUFFICES ASSUME NEW T \in SUBSET S, Cardinality(T) = n + 1 PROVE SumOver(f, T) \in Int
    OBVIOUS
  <2>1. T # {}
    BY FS_EmptySet
  <2>2. /\ T \ {Chosen(T)} \in SUBSET S /\ Cardinality(T \ {Chosen(T)}) = n
        /\ Chosen(T) \in S
    BY <1>1, <2>1, WithoutChosen
  <2>3. SumOver(f, T \ {Chosen(T)}) \in Int
    BY <2>2
  <2>4. SumOver(f, T) = f[Chosen(T)] + SumOver(f, T \ {Chosen(T)})
    BY <1>1, <2>1, SumOverRecursion
  <2> QED BY <2>2, <2>3, <2>4
<1>4. Good = Nat
  <2>1. Good \in SUBSET Nat
    OBVIOUS
  <2> HIDE DEF Good
  <2> QED BY <1>2, <1>3, <2>1, NaturalsFromZero
<1> QED BY <1>1, <1>4

(* Any member may be taken out first. *)
LEMMA SumOverRemove ==
  ASSUME NEW f, NEW S, IsFiniteSet(S), \A x \in S : f[x] \in Int, NEW a \in S
  PROVE  SumOver(f, S) = f[a] + SumOver(f, S \ {a})
<1> DEFINE Good == {n \in Nat : \A T \in SUBSET S : Cardinality(T) = n =>
                      \A b \in T : SumOver(f, T) = f[b] + SumOver(f, T \ {b})}
<1>1. \A T \in SUBSET S : IsFiniteSet(T) /\ Cardinality(T) \in Nat
  BY FS_Subset, FS_CardinalityType
<1>2. 0 \in Good
  BY <1>1, FS_EmptySet
<1>3. ASSUME NEW n \in Good PROVE n + 1 \in Good
  <2> SUFFICES ASSUME NEW T \in SUBSET S, Cardinality(T) = n + 1, NEW b \in T
               PROVE  SumOver(f, T) = f[b] + SumOver(f, T \ {b})
    OBVIOUS
  <2> DEFINE c == Chosen(T)
  <2>1. c \in T
    BY ChosenIsMember
  <2>2. SumOver(f, T) = f[c] + SumOver(f, T \ {c})
    BY <1>1, SumOverRecursion
  <2> HIDE DEF c
  <2>3. CASE b = c
    BY <2>2, <2>3
  <2>4. CASE b # c
    <3>1. \A x \in T : T \ {x} \in SUBSET S /\ Cardinality(T \ {x}) = n
      BY <1>1, FS_RemoveElement
    <3>2. SumOver(f, T \ {c}) = f[b] + SumOver(f, (T \ {c}) \ {b})
      BY <2>1, <2>4, <3>1
    <3>3. SumOver(f, T \ {b}) = f[c] + SumOver(f, (T \ {b}) \ {c})
      BY <2>1, <2>4, <3>1
    <3>4. (T \ {c}) \ {b} = (T \ {b}) \ {c}
      OBVIOUS
    <3>5. f[b] \in Int /\ f[c] \in Int /\ SumOver(f, (T \ {b}) \ {c}) \in Int
      <4>1. (T \ {b}) \ {c} \in SUBSET S /\ b \in S /\ c \in S
        BY <2>1
      <4> QED BY <1>1, <4>1, SumOverType
    <3> DEFINE rest == SumOver(f, (T \ {b}) \ {c})
    <3>6. SumOver(f, T \ {c}) = f[b] + rest /\ SumOver(f, T \ {b}) = f[c] + rest
      BY <3>2, <3>3, <3>4
    <3>7. rest \in Int
      BY <3>5
    <3> HIDE DEF rest, Good
    <3> QED BY <2>2, <3>5, <3>6, <3>7
  <2> QED BY <2>3, <2>4
<1>4. Good = Nat
  <2>1. Good \in SUBSET Nat
    OBVIOUS
  <2> HIDE DEF Good
  <2> QED BY <1>2, <1>3, <2>1, NaturalsFromZero
<1> QED BY <1>1, <1>4

LEMMA SumOverAdd ==
  ASSUME NEW f, NEW S, IsFiniteSet(S), NEW a, a \notin S, f[a] \in Int,
         \A x \in S : f[x] \in Int
  PROVE  SumOver(f, S \cup {a}) = f[a] + SumOver(f, S)
<1>1. IsFiniteSet(S \cup {a}) /\ (S \cup {a}) \ {a} = S
  BY FS_AddElement
<1> QED BY <1>1, SumOverRemove

(* Families that agree have equal sums. *)
LEMMA SumOverSame ==
  ASSUME NEW f, NEW g, NEW S, IsFiniteSet(S), \A x \in S : g[x] = f[x]
  PROVE  SumOver(g, S) = SumOver(f, S)
<1> DEFINE Good == {n \in Nat : \A T \in SUBSET S : Cardinality(T) = n =>
                      SumOver(g, T) = SumOver(f, T)}
<1>1. \A T \in SUBSET S : IsFiniteSet(T) /\ Cardinality(T) \in Nat
  BY FS_Subset, FS_CardinalityType
<1>2. 0 \in Good
  BY <1>1, SumOverRecursion, FS_EmptySet
<1>3. ASSUME NEW n \in Good PROVE n + 1 \in Good
  <2> SUFFICES ASSUME NEW T \in SUBSET S, Cardinality(T) = n + 1
               PROVE  SumOver(g, T) = SumOver(f, T)
    OBVIOUS
  <2>1. T # {}
    BY FS_EmptySet
  <2>2. /\ T \ {Chosen(T)} \in SUBSET S /\ Cardinality(T \ {Chosen(T)}) = n
        /\ Chosen(T) \in S
    BY <1>1, <2>1, WithoutChosen
  <2>3. /\ SumOver(f, T) = f[Chosen(T)] + SumOver(f, T \ {Chosen(T)})
        /\ SumOver(g, T) = g[Chosen(T)] + SumOver(g, T \ {Chosen(T)})
    BY <1>1, <2>1, SumOverRecursion
  <2>4. SumOver(g, T \ {Chosen(T)}) = SumOver(f, T \ {Chosen(T)})
    BY <2>2
  <2> QED BY <2>2, <2>3, <2>4
<1>4. Good = Nat
  <2>1. Good \in SUBSET Nat
    OBVIOUS
  <2> HIDE DEF Good
  <2> QED BY <1>2, <1>3, <2>1, NaturalsFromZero
<1> QED BY <1>1, <1>4

(* Changing one term changes the sum by as much. *)
LEMMA SumOverOneChange ==
  ASSUME NEW f, NEW g, NEW S, IsFiniteSet(S), NEW a \in S,
         \A x \in S : f[x] \in Int /\ g[x] \in Int,
         \A x \in S : x # a => g[x] = f[x]
  PROVE  SumOver(g, S) = SumOver(f, S) + g[a] - f[a]
<1>1. IsFiniteSet(S \ {a})
  BY FS_Subset
<1>2. SumOver(f, S) = f[a] + SumOver(f, S \ {a}) /\ SumOver(g, S) = g[a] + SumOver(g, S \ {a})
  BY SumOverRemove
<1>3. SumOver(g, S \ {a}) = SumOver(f, S \ {a})
  BY <1>1, SumOverSame
<1>4. SumOver(f, S \ {a}) \in Int
  BY <1>1, SumOverType
<1> QED BY <1>2, <1>3, <1>4

LEMMA SumOverNothing ==
  ASSUME NEW f, NEW S, IsFiniteSet(S), \A x \in S : f[x] = 0
  PROVE  SumOver(f, S) = 0
<1> DEFINE Good == {T \in SUBSET S : SumOver(f, T) = 0}
<1>1. {} \in Good
  BY SumOverRecursion, FS_EmptySet
<1>2. ASSUME NEW T \in Good, NEW x \in S, x \notin T PROVE T \cup {x} \in Good
  <2>1. IsFiniteSet(T) /\ \A y \in T : f[y] \in Int
    BY FS_Subset
  <2>2. f[x] \in Int
    OBVIOUS
  <2>3. SumOver(f, T \cup {x}) = f[x] + SumOver(f, T)
    BY <1>2, <2>1, <2>2, SumOverAdd
  <2> QED BY <2>3
<1>3. Good \in SUBSET SUBSET S
  OBVIOUS
<1>4. S \in Good
  <2> HIDE DEF Good
  <2> QED BY <1>1, <1>2, <1>3, FiniteSetInduction
<1> QED BY <1>4

LEMMA SumOverEmpty == \A f : SumOver(f, {}) = 0
BY SumOverRecursion, FS_EmptySet

(* Two sums are added term by term. *)
LEMMA SumOverPlus ==
  ASSUME NEW f, NEW g, NEW h, NEW S, IsFiniteSet(S),
         \A x \in S : f[x] \in Int /\ g[x] \in Int /\ h[x] = f[x] + g[x]
  PROVE  SumOver(h, S) = SumOver(f, S) + SumOver(g, S)
<1> DEFINE Good == {T \in SUBSET S : SumOver(h, T) = SumOver(f, T) + SumOver(g, T)}
<1>1. {} \in Good
  BY SumOverEmpty
<1>2. ASSUME NEW T \in Good, NEW x \in S, x \notin T PROVE T \cup {x} \in Good
  <2>1. IsFiniteSet(T) /\ T \in SUBSET S
    BY FS_Subset
  <2>2. f[x] \in Int /\ g[x] \in Int /\ h[x] \in Int
    OBVIOUS
  <2>3. \A y \in T : f[y] \in Int /\ g[y] \in Int /\ h[y] \in Int
    OBVIOUS
  <2>4. SumOver(f, T) \in Int /\ SumOver(g, T) \in Int
    BY <2>1, <2>3, SumOverType
  <2>5. /\ SumOver(f, T \cup {x}) = f[x] + SumOver(f, T)
        /\ SumOver(g, T \cup {x}) = g[x] + SumOver(g, T)
        /\ SumOver(h, T \cup {x}) = h[x] + SumOver(h, T)
    BY <1>2, <2>1, <2>2, <2>3, SumOverAdd
  <2>6. SumOver(h, T) = SumOver(f, T) + SumOver(g, T) /\ h[x] = f[x] + g[x]
    OBVIOUS
  <2> QED BY <2>1, <2>2, <2>4, <2>5, <2>6
<1>3. Good \in SUBSET SUBSET S
  OBVIOUS
<1>4. S \in Good
  <2> HIDE DEF Good
  <2> QED BY <1>1, <1>2, <1>3, FiniteSetInduction
<1> QED BY <1>4

LEMMA SumOverMinus ==
  ASSUME NEW f, NEW g, NEW h, NEW S, IsFiniteSet(S),
         \A x \in S : f[x] \in Int /\ g[x] \in Int /\ h[x] = f[x] - g[x]
  PROVE  SumOver(h, S) = SumOver(f, S) - SumOver(g, S)
<1>1. \A x \in S : h[x] \in Int /\ f[x] = h[x] + g[x]
  OBVIOUS
<1>2. SumOver(f, S) = SumOver(h, S) + SumOver(g, S)
  BY <1>1, SumOverPlus
<1>3. SumOver(f, S) \in Int /\ SumOver(g, S) \in Int /\ SumOver(h, S) \in Int
  BY <1>1, SumOverType
<1> QED BY <1>2, <1>3

(* A constant comes out of a sum. *)
LEMMA SumOverTimes ==
  ASSUME NEW f, NEW h, NEW c \in Int, NEW S, IsFiniteSet(S),
         \A x \in S : f[x] \in Int /\ h[x] = c * f[x]
  PROVE  SumOver(h, S) = c * SumOver(f, S)
<1> DEFINE Good == {T \in SUBSET S : SumOver(h, T) = c * SumOver(f, T)}
<1>1. {} \in Good
  BY SumOverEmpty
<1>2. ASSUME NEW T \in Good, NEW x \in S, x \notin T PROVE T \cup {x} \in Good
  <2>1. IsFiniteSet(T) /\ T \in SUBSET S
    BY FS_Subset
  <2>2. f[x] \in Int /\ h[x] \in Int /\ \A y \in T : f[y] \in Int /\ h[y] \in Int
    OBVIOUS
  <2>3. /\ SumOver(f, T \cup {x}) = f[x] + SumOver(f, T)
        /\ SumOver(h, T \cup {x}) = h[x] + SumOver(h, T)
        /\ SumOver(f, T) \in Int
    BY <1>2, <2>1, <2>2, SumOverAdd, SumOverType
  <2>4. SumOver(h, T) = c * SumOver(f, T) /\ h[x] = c * f[x]
    OBVIOUS
  <2>5. \A i, j \in Int : c * (i + j) = c * i + c * j
    OBVIOUS
  <2> QED BY <2>1, <2>2, <2>3, <2>4, <2>5
<1>3. Good \in SUBSET SUBSET S
  OBVIOUS
<1> HIDE DEF Good
<1>4. S \in Good
  BY <1>1, <1>2, <1>3, FiniteSetInduction
<1> QED BY <1>4 DEF Good

(* Terms of natural numbers have a natural sum, and larger terms no        *)
(* smaller a one.                                                          *)
LEMMA SumOverNatural ==
  ASSUME NEW f, NEW S, IsFiniteSet(S), \A x \in S : f[x] \in Nat
  PROVE  SumOver(f, S) \in Nat
<1> DEFINE Good == {T \in SUBSET S : SumOver(f, T) \in Nat}
<1>1. {} \in Good
  BY SumOverEmpty
<1>2. ASSUME NEW T \in Good, NEW x \in S, x \notin T PROVE T \cup {x} \in Good
  <2>1. IsFiniteSet(T) /\ (\A y \in T : f[y] \in Int) /\ f[x] \in Int /\ f[x] \in Nat
    BY FS_Subset
  <2>2. SumOver(f, T \cup {x}) = f[x] + SumOver(f, T)
    BY <1>2, <2>1, SumOverAdd
  <2>3. SumOver(f, T) \in Nat
    OBVIOUS
  <2> QED BY <2>1, <2>2, <2>3
<1>3. Good \in SUBSET SUBSET S
  OBVIOUS
<1>4. S \in Good
  <2> HIDE DEF Good
  <2> QED BY <1>1, <1>2, <1>3, FiniteSetInduction
<1> QED BY <1>4

LEMMA SumOverMonotone ==
  ASSUME NEW f, NEW g, NEW S, IsFiniteSet(S),
         \A x \in S : f[x] \in Int /\ g[x] \in Int /\ f[x] <= g[x]
  PROVE  SumOver(f, S) <= SumOver(g, S)
<1> DEFINE d == [x \in S |-> g[x] - f[x]]
<1>1. \A x \in S : d[x] \in Nat /\ d[x] \in Int /\ g[x] = f[x] + d[x]
  OBVIOUS
<1> HIDE DEF d
<1>2. SumOver(g, S) = SumOver(f, S) + SumOver(d, S)
  BY <1>1, SumOverPlus
<1>3. SumOver(d, S) \in Nat /\ SumOver(f, S) \in Int
  BY <1>1, SumOverNatural, SumOverType
<1> QED BY <1>2, <1>3

(* Terms that are nothing may be left out. *)
LEMMA SumOverSome ==
  ASSUME NEW f, NEW S, IsFiniteSet(S), \A x \in S : f[x] \in Int,
         NEW T \in SUBSET S, \A x \in S : x \notin T => f[x] = 0
  PROVE  SumOver(f, S) = SumOver(f, T)
<1> DEFINE Good == {U \in SUBSET (S \ T) : SumOver(f, T \cup U) = SumOver(f, T)}
<1>1. {} \in Good
  <2>1. T \cup {} = T
    OBVIOUS
  <2> QED BY <2>1
<1>2. ASSUME NEW U \in Good, NEW x \in S \ T, x \notin U PROVE U \cup {x} \in Good
  <2>1. /\ IsFiniteSet(T \cup U) /\ T \cup U \in SUBSET S /\ x \notin T \cup U
        /\ T \cup (U \cup {x}) = (T \cup U) \cup {x}
    BY <1>2, FS_Subset
  <2>2. f[x] = 0 /\ f[x] \in Int /\ \A y \in T \cup U : f[y] \in Int
    BY <2>1
  <2>3. SumOver(f, (T \cup U) \cup {x}) = f[x] + SumOver(f, T \cup U)
    BY <2>1, <2>2, SumOverAdd
  <2>4. SumOver(f, T \cup U) \in Int /\ SumOver(f, T \cup U) = SumOver(f, T)
    BY <2>1, <2>2, SumOverType
  <2>5. SumOver(f, (T \cup U) \cup {x}) = SumOver(f, T)
    BY <2>2, <2>3, <2>4
  <2> QED BY <2>1, <2>5
<1>3. Good \in SUBSET SUBSET (S \ T) /\ IsFiniteSet(S \ T)
  BY FS_Subset
<1>4. S \ T \in Good
  <2> HIDE DEF Good
  <2> QED BY <1>1, <1>2, <1>3, FiniteSetInduction
<1>5. T \cup (S \ T) = S
  OBVIOUS
<1> QED BY <1>4, <1>5

(* A table, by rows and by columns, and what its rows add up to. *)
Transposed(F, G, S, T) == \A x \in S, y \in T : F[x][y] \in Int /\ G[y][x] = F[x][y]
AddUp(sums, F, S, T) == \A x \in S : sums[x] = SumOver(F[x], T)

(* A sum of sums may be added up the other way round. *)
LEMMA SumOverExchange ==
  ASSUME NEW F, NEW G, NEW S, NEW T, IsFiniteSet(S), IsFiniteSet(T), Transposed(F, G, S, T),
         NEW rows, AddUp(rows, F, S, T),
         NEW columns, AddUp(columns, G, T, S)
  PROVE  SumOver(rows, S) = SumOver(columns, T)
<1> USE DEF Transposed, AddUp
<1> DEFINE Upto(A) == [y \in T |-> SumOver(G[y], A)]
           Good == {A \in SUBSET S : SumOver(rows, A) = SumOver(Upto(A), T)}
<1>1. {} \in Good
  <2>1. \A y \in T : Upto({})[y] = 0
    BY SumOverRecursion, FS_EmptySet
  <2>2. SumOver(Upto({}), T) = 0
    <3> HIDE DEF Upto
    <3> QED BY <2>1, SumOverNothing
  <2>3. SumOver(rows, {}) = 0
    BY SumOverRecursion, FS_EmptySet
  <2> QED BY <2>2, <2>3
<1>2. ASSUME NEW A \in Good, NEW a \in S, a \notin A PROVE A \cup {a} \in Good
  <2>1. IsFiniteSet(A) /\ A \in SUBSET S
    BY FS_Subset
  <2>2. \A x \in S : rows[x] \in Int
    <3>1. \A x \in S : SumOver(F[x], T) \in Int
      BY SumOverType
    <3> QED BY <3>1
  <2>3. SumOver(rows, A \cup {a}) = rows[a] + SumOver(rows, A)
    BY <1>2, <2>1, <2>2, SumOverAdd
  <2>4. \A y \in T : Upto(A \cup {a})[y] = F[a][y] + Upto(A)[y] /\ Upto(A)[y] \in Int
    <3>1. SUFFICES ASSUME NEW y \in T
                   PROVE  Upto(A \cup {a})[y] = F[a][y] + Upto(A)[y] /\ Upto(A)[y] \in Int
      OBVIOUS
    <3> DEFINE column == G[y]
    <3>2. column[a] = F[a][y] /\ \A x \in S : column[x] \in Int
      OBVIOUS
    <3> HIDE DEF column
    <3>3. SumOver(column, A \cup {a}) = column[a] + SumOver(column, A)
          /\ SumOver(column, A) \in Int
      BY <1>2, <2>1, <3>2, SumOverAdd, SumOverType
    <3>4. Upto(A \cup {a})[y] = SumOver(column, A \cup {a}) /\ Upto(A)[y] = SumOver(column, A)
      BY DEF column
    <3> HIDE DEF Upto
    <3> QED BY <3>2, <3>3, <3>4
  <2>5. SumOver(Upto(A \cup {a}), T) = SumOver(F[a], T) + SumOver(Upto(A), T)
    <3> DEFINE old == Upto(A)
               new == Upto(A \cup {a})
               row == F[a]
    <3>1. \A y \in T : row[y] \in Int /\ old[y] \in Int /\ new[y] = row[y] + old[y]
      <4> HIDE DEF Upto
      <4> QED BY <2>4
    <3> HIDE DEF old, new, row
    <3>2. SumOver(new, T) = SumOver(row, T) + SumOver(old, T)
      BY <3>1, SumOverPlus
    <3> QED BY <3>2 DEF old, new, row
  <2>6. rows[a] = SumOver(F[a], T) /\ SumOver(rows, A) = SumOver(Upto(A), T)
    OBVIOUS
  <2> HIDE DEF Upto
  <2> QED BY <2>1, <2>3, <2>5, <2>6
<1>3. Good \in SUBSET SUBSET S
  OBVIOUS
<1>4. S \in Good
  <2> HIDE DEF Good
  <2> QED BY <1>1, <1>2, <1>3, FiniteSetInduction
<1>5. SumOver(columns, T) = SumOver(Upto(S), T)
  <2>1. \A y \in T : columns[y] = Upto(S)[y]
    OBVIOUS
  <2> HIDE DEF Upto
  <2> QED BY <2>1, SumOverSame
<1> HIDE DEF Upto
<1> QED BY <1>4, <1>5

(* Counting is adding up ones. *)
LEMMA CountIsSum ==
  ASSUME NEW S, IsFiniteSet(S), NEW T \in SUBSET S, NEW f,
         \A x \in S : f[x] = IF x \in T THEN 1 ELSE 0
  PROVE  SumOver(f, S) = Cardinality(T)
<1> DEFINE Good == {U \in SUBSET S : SumOver(f, U) = Cardinality(U \cap T)}
<1>1. {} \in Good
  <2>1. {} \cap T = {}
    OBVIOUS
  <2> QED BY <2>1, SumOverRecursion, FS_EmptySet
<1>2. ASSUME NEW U \in Good, NEW x \in S, x \notin U PROVE U \cup {x} \in Good
  <2>1. IsFiniteSet(U) /\ U \in SUBSET S /\ IsFiniteSet(U \cap T) /\ Cardinality(U \cap T) \in Nat
    BY FS_Subset, FS_CardinalityType
  <2>2. f[x] = (IF x \in T THEN 1 ELSE 0) /\ f[x] \in Int /\ \A y \in U : f[y] \in Int
    OBVIOUS
  <2>3. SumOver(f, U \cup {x}) = f[x] + SumOver(f, U)
    BY <1>2, <2>1, <2>2, SumOverAdd
  <2>4. CASE x \in T
    <3>1. (U \cup {x}) \cap T = (U \cap T) \cup {x} /\ x \notin U \cap T
      BY <1>2, <2>4
    <3>2. Cardinality((U \cap T) \cup {x}) = Cardinality(U \cap T) + 1
      BY <2>1, <3>1, FS_AddElement
    <3>3. f[x] = 1 /\ SumOver(f, U) = Cardinality(U \cap T)
      BY <2>2, <2>4
    <3>4. SumOver(f, U \cup {x}) = Cardinality(U \cap T) + 1
      BY <2>1, <2>3, <3>3
    <3> QED BY <3>1, <3>2, <3>4
  <2>5. CASE x \notin T
    <3>1. (U \cup {x}) \cap T = U \cap T
      BY <2>5
    <3>2. f[x] = 0 /\ SumOver(f, U) = Cardinality(U \cap T)
      BY <2>2, <2>5
    <3>3. SumOver(f, U \cup {x}) = Cardinality(U \cap T)
      BY <2>1, <2>3, <3>2
    <3> QED BY <3>1, <3>3
  <2> QED BY <2>4, <2>5
<1>3. Good \in SUBSET SUBSET S
  OBVIOUS
<1>4. S \in Good
  <2> HIDE DEF Good
  <2> QED BY <1>1, <1>2, <1>3, FiniteSetInduction
<1>5. S \cap T = T
  OBVIOUS
<1> QED BY <1>4, <1>5

(* A total is the sum over its numbers. *)
LEMMA TotalIsSum ==
  ASSUME NEW n \in Nat, NEW a \in [1 .. n -> Nat]
  PROVE  Total(a, n) = SumOver(a, 1 .. n)
<1> DEFINE sum == RunningTotal(a, n)
           Good == {k \in Nat : k <= n => sum[k] = SumOver(a, 1 .. k)}
<1> HIDE DEF sum
<1>1. IsRunningTotal(sum, a, n)
  BY RunningTotalRecursion DEF sum
<1>2. 0 \in Good
  <2>1. 1 .. 0 = {}
    OBVIOUS
  <2>2. sum[0] = 0
    BY <1>1 DEF IsRunningTotal
  <2> QED BY <2>1, <2>2, SumOverRecursion, FS_EmptySet
<1>3. ASSUME NEW k \in Good PROVE k + 1 \in Good
  <2> SUFFICES ASSUME k + 1 <= n PROVE sum[k + 1] = SumOver(a, 1 .. k + 1)
    OBVIOUS
  <2>1. /\ k + 1 \in 0 .. n /\ k \in 0 .. n /\ k + 1 # 0 /\ (k + 1) - 1 = k
        /\ k + 1 \in 1 .. n
    OBVIOUS
  <2>2. sum[k + 1] = sum[k] + a[k + 1]
    BY <1>1, <2>1 DEF IsRunningTotal
  <2>3. sum[k] = SumOver(a, 1 .. k) /\ sum[k] \in Nat
    BY <1>1, <2>1 DEF IsRunningTotal
  <2>4. 1 .. k + 1 = (1 .. k) \cup {k + 1} /\ k + 1 \notin 1 .. k
    OBVIOUS
  <2>5. IsFiniteSet(1 .. k)
    <3>1. 1 \in Int /\ k \in Int
      OBVIOUS
    <3> HIDE DEF Good
    <3> QED BY <3>1, FS_Interval
  <2>6. a[k + 1] \in Nat /\ a[k + 1] \in Int /\ \A x \in 1 .. k : a[x] \in Int
    BY <2>1
  <2>7. SumOver(a, (1 .. k) \cup {k + 1}) = a[k + 1] + SumOver(a, 1 .. k)
    BY <2>4, <2>5, <2>6, SumOverAdd
  <2>8. SumOver(a, 1 .. k + 1) = a[k + 1] + SumOver(a, 1 .. k)
    BY <2>4, <2>7
  <2> QED BY <2>2, <2>3, <2>6, <2>8
<1>4. Good = Nat
  <2>1. Good \in SUBSET Nat
    OBVIOUS
  <2> HIDE DEF Good
  <2> QED BY <1>2, <1>3, <2>1, NaturalsFromZero
<1>5. sum[n] = SumOver(a, 1 .. n)
  <2>1. n \in Good /\ n <= n
    BY <1>4
  <2> QED BY <2>1
<1> QED BY <1>5 DEF Total, sum

(* Only one term is anything. *)
LEMMA SumOverOne ==
  ASSUME NEW f, NEW S, IsFiniteSet(S), NEW a \in S, f[a] \in Int,
         \A x \in S : x # a => f[x] = 0
  PROVE  SumOver(f, S) = f[a]
<1>1. \A x \in S : f[x] \in Int
  OBVIOUS
<1>2. SumOver(f, S) = f[a] + SumOver(f, S \ {a})
  BY <1>1, SumOverRemove
<1>3. IsFiniteSet(S \ {a}) /\ \A x \in S \ {a} : f[x] = 0
  BY FS_Subset
<1>4. SumOver(f, S \ {a}) = 0
  BY <1>3, SumOverNothing
<1> QED BY <1>2, <1>4

-----------------------------------------------------------------------------
(***************************************************************************)
(* Rows in order, and the pages a reader makes of them.  The order is the  *)
(* set Before of pairs; the place of a row is how many come before it.     *)
(***************************************************************************)
Place(Before, S, r) == Cardinality({s \in S : <<s, r>> \in Before})

TellsApart(Before, S) ==
    /\ \A r \in S : <<r, r>> \notin Before
    /\ \A r, s \in S : r # s => <<r, s>> \in Before \/ <<s, r>> \in Before
    /\ \A r, s, t \in S : <<r, s>> \in Before /\ <<s, t>> \in Before => <<r, t>> \in Before

(* As Ordered of QueryWindows puts them. *)
InOrder(Before, S) ==
    [n \in 1 .. Cardinality(S) |-> CHOOSE r \in S : Place(Before, S, r) = n - 1]

LEMMA PlaceBounds ==
  ASSUME NEW Before, NEW S, IsFiniteSet(S), TellsApart(Before, S), NEW r \in S
  PROVE  Place(Before, S, r) \in Nat /\ Place(Before, S, r) < Cardinality(S)
<1> DEFINE P == {s \in S : <<s, r>> \in Before}
<1>1. P \in SUBSET S /\ r \notin P
  BY DEF TellsApart
<1> HIDE DEF P
<1>2. IsFiniteSet(P) /\ Cardinality(P) \in Nat /\ Cardinality(S) \in Nat
      /\ Cardinality(P) <= Cardinality(S)
      /\ (Cardinality(P) = Cardinality(S) => P = S)
  BY <1>1, FS_Subset, FS_CardinalityType
<1> QED BY <1>1, <1>2 DEF Place, P

LEMMA PlacesFollow ==
  ASSUME NEW Before, NEW S, IsFiniteSet(S), TellsApart(Before, S),
         NEW r \in S, NEW t \in S, <<r, t>> \in Before
  PROVE  Place(Before, S, r) < Place(Before, S, t)
<1> DEFINE P == {s \in S : <<s, r>> \in Before}
           Q == {s \in S : <<s, t>> \in Before}
<1>1. P \in SUBSET Q /\ Q \in SUBSET S /\ r \in Q /\ r \notin P
  BY DEF TellsApart
<1> HIDE DEF P, Q
<1>2. IsFiniteSet(Q)
  BY <1>1, FS_Subset
<1>3. Cardinality(P) \in Nat /\ Cardinality(Q) \in Nat /\ Cardinality(P) <= Cardinality(Q)
      /\ (Cardinality(P) = Cardinality(Q) => P = Q)
  BY <1>1, <1>2, FS_Subset, FS_CardinalityType
<1> QED BY <1>1, <1>3 DEF Place, P, Q

LEMMA PlacesDiffer ==
  ASSUME NEW Before, NEW S, IsFiniteSet(S), TellsApart(Before, S),
         NEW r \in S, NEW t \in S, Place(Before, S, r) = Place(Before, S, t)
  PROVE  r = t
<1>1. SUFFICES ASSUME r # t PROVE FALSE
  OBVIOUS
<1>2. <<r, t>> \in Before \/ <<t, r>> \in Before
  BY <1>1 DEF TellsApart
<1> QED BY <1>2, PlacesFollow, PlaceBounds

(* Each row stands at its place. *)
LEMMA StandsAtItsPlace ==
  ASSUME NEW Before, NEW S, IsFiniteSet(S), TellsApart(Before, S), NEW r \in S
  PROVE  /\ Place(Before, S, r) + 1 \in 1 .. Cardinality(S)
         /\ InOrder(Before, S)[Place(Before, S, r) + 1] = r
<1> DEFINE n == Place(Before, S, r) + 1
           c == CHOOSE x \in S : Place(Before, S, x) = n - 1
<1>1. n \in 1 .. Cardinality(S) /\ n - 1 = Place(Before, S, r)
  BY PlaceBounds, FS_CardinalityType
<1>2. c \in S /\ Place(Before, S, c) = n - 1
  BY <1>1
<1>3. c = r
  <2> HIDE DEF c, n
  <2> QED BY <1>1, <1>2, PlacesDiffer
<1>4. InOrder(Before, S)[n] = c
  BY <1>1 DEF InOrder
<1> QED BY <1>1, <1>3, <1>4

(* Every place is taken: the rows are all there, and nothing else is. *)
LEMMA EveryPlaceIsTaken ==
  ASSUME NEW Before, NEW S, IsFiniteSet(S), TellsApart(Before, S),
         NEW n \in 1 .. Cardinality(S)
  PROVE  /\ \E r \in S : Place(Before, S, r) = n - 1
         /\ InOrder(Before, S)[n] \in S
         /\ Place(Before, S, InOrder(Before, S)[n]) = n - 1
<1> DEFINE k == Cardinality(S)
           f == [r \in S |-> Place(Before, S, r)]
<1>1. k \in Nat /\ IsFiniteSet(0 .. k - 1) /\ Cardinality(0 .. k - 1) = k
  <2>1. k \in Nat
    BY FS_CardinalityType
  <2>2. 0 \in Int /\ k - 1 \in Int
    BY <2>1
  <2> HIDE DEF k
  <2> QED BY <2>1, <2>2, FS_Interval
<1>2. f \in Injection(S, 0 .. k - 1)
  <2>1. \A r \in S : Place(Before, S, r) \in 0 .. k - 1
    BY <1>1, PlaceBounds
  <2>2. \A r, t \in S : Place(Before, S, r) = Place(Before, S, t) => r = t
    BY PlacesDiffer
  <2> QED BY <2>1, <2>2 DEF Injection, IsInjective
<1>3. f \in Surjection(S, 0 .. k - 1)
  BY <1>1, <1>2, FS_Injection
<1>4. \E r \in S : Place(Before, S, r) = n - 1
  <2>1. n - 1 \in 0 .. k - 1
    BY <1>1
  <2>2. \E r \in S : f[r] = n - 1
    BY <1>3, <2>1 DEF Surjection
  <2> QED BY <2>2
<1>5. InOrder(Before, S)[n] = CHOOSE r \in S : Place(Before, S, r) = n - 1
  BY DEF InOrder
<1> QED BY <1>4, <1>5

(* A row that more rows may come to stand before only moves back. *)
LEMMA PlacesOnlyGrow ==
  ASSUME NEW Before, NEW S, NEW After, NEW T, IsFiniteSet(T), NEW r,
         \A s \in S : <<s, r>> \in Before => s \in T /\ <<s, r>> \in After
  PROVE  /\ Place(Before, S, r) \in Nat /\ Place(After, T, r) \in Nat
         /\ Place(Before, S, r) <= Place(After, T, r)
<1> DEFINE P == {s \in S : <<s, r>> \in Before}
           Q == {s \in T : <<s, r>> \in After}
<1>1. P \in SUBSET Q /\ Q \in SUBSET T
  OBVIOUS
<1> HIDE DEF P, Q
<1>2. IsFiniteSet(Q)
  BY <1>1, FS_Subset
<1>3. Cardinality(P) \in Nat /\ Cardinality(Q) \in Nat /\ Cardinality(P) <= Cardinality(Q)
  BY <1>1, <1>2, FS_Subset, FS_CardinalityType
<1> QED BY <1>3 DEF Place, P, Q

(* The page of a reader who reads so many rows at a time. *)
PageIn(seq, size, page) ==
    SubSeq(seq, (page - 1) * size + 1, IF page * size < Len(seq) THEN page * size ELSE Len(seq))

LEMMA OnItsPage ==
  ASSUME NEW Before, NEW S, IsFiniteSet(S), TellsApart(Before, S), NEW r \in S,
         NEW size \in Nat \ {0}, NEW page \in Nat \ {0},
         Place(Before, S, r) >= (page - 1) * size, Place(Before, S, r) < page * size
  PROVE  LET here == PageIn(InOrder(Before, S), size, page)
         IN  \E i \in DOMAIN here : here[i] = r
<1> DEFINE seq == InOrder(Before, S)
           k == Cardinality(S)
           R == {seq[n] : n \in 1 .. k}
           from == (page - 1) * size + 1
           to == IF page * size < k THEN page * size ELSE k
           place == Place(Before, S, r) + 1
           i == place - from + 1
<1>1. k \in Nat
  BY FS_CardinalityType
<1>2. place \in 1 .. k /\ seq[place] = r
  BY StandsAtItsPlace
<1>3. seq \in [1 .. k -> R] /\ Len(seq) = k /\ seq \in Seq(R)
  <2>1. seq \in [1 .. k -> R]
    BY DEF InOrder
  <2> HIDE DEF R, seq
  <2> QED BY <1>1, <2>1
<1>4. page * size \in Nat /\ (page - 1) * size \in Nat
  <2>1. page - 1 \in Nat /\ \A a, b \in Nat : a * b \in Nat
    OBVIOUS
  <2> QED BY <2>1
<1>5. from \in 1 .. k + 1 /\ to \in 0 .. k /\ from <= place /\ place <= to
  <2> HIDE DEF seq, R, k
  <2>1. place - 1 = Place(Before, S, r) /\ place - 1 \in Nat
    BY PlaceBounds
  <2> HIDE DEF place
  <2> QED BY <1>1, <1>2, <1>4, <2>1
<1> DEFINE here == SubSeq(seq, from, to)
<1>6. /\ here \in Seq(R) /\ Len(here) = IF from <= to THEN to - from + 1 ELSE 0
      /\ \A j \in 1 .. to - from + 1 : here[j] = seq[from + j - 1]
  <2>1. \A j \in from .. to : seq[j] \in R
    <3> HIDE DEF seq, R, from, to
    <3> QED BY <1>1, <1>3, <1>5
  <2>2. from \in Int /\ to \in Int
    <3> HIDE DEF seq, R, from, to
    <3> QED BY <1>1, <1>5
  <2> HIDE DEF seq, R, from, to
  <2>3. /\ SubSeq(seq, from, to) \in Seq(R)
        /\ Len(SubSeq(seq, from, to)) = IF from <= to THEN to - from + 1 ELSE 0
        /\ \A j \in 1 .. to - from + 1 : SubSeq(seq, from, to)[j] = seq[from + j - 1]
    BY <2>1, <2>2, SubSeqProperties
  <2> QED BY <2>3
<1>7. DOMAIN here = 1 .. to - from + 1 /\ i \in 1 .. to - from + 1 /\ from + i - 1 = place
  <2> HIDE DEF seq, R, from, to, place, here
  <2> QED BY <1>1, <1>2, <1>5, <1>6
<1>8. i \in DOMAIN here /\ here[i] = r
  <2> HIDE DEF seq, R, from, to, place, i, here
  <2> QED BY <1>2, <1>6, <1>7
<1>9. PageIn(seq, size, page) = here
  BY <1>3 DEF PageIn
<1> QED BY <1>8, <1>9

(* The first row has none before it. *)
LEMMA SomeRowIsFirst ==
  ASSUME NEW Before, NEW S, IsFiniteSet(S), S # {}, TellsApart(Before, S)
  PROVE  \E r \in S : \A s \in S : <<s, r>> \notin Before
<1> DEFINE Good == {T \in SUBSET S : T = {} \/ \E r \in T : \A s \in T : <<s, r>> \notin Before}
<1>1. {} \in Good
  OBVIOUS
<1>2. ASSUME NEW T \in Good, NEW x \in S, x \notin T PROVE T \cup {x} \in Good
  <2>1. T \cup {x} \in SUBSET S
    OBVIOUS
  <2>2. CASE T = {}
    BY <2>1, <2>2 DEF TellsApart
  <2>3. CASE T # {}
    <3>1. PICK r \in T : \A s \in T : <<s, r>> \notin Before
      BY <2>3
    <3>2. CASE <<x, r>> \in Before
      <4>1. \A s \in T \cup {x} : <<s, x>> \notin Before
        BY <3>1, <3>2 DEF TellsApart
      <4> QED BY <2>1, <4>1
    <3>3. CASE <<x, r>> \notin Before
      BY <2>1, <3>1, <3>3
    <3> QED BY <3>2, <3>3
  <2> QED BY <2>2, <2>3
<1>3. S \in Good
  <2>1. Good \in SUBSET SUBSET S
    OBVIOUS
  <2> HIDE DEF Good
  <2> QED BY <1>1, <1>2, <2>1, FiniteSetInduction
<1> QED BY <1>3

LEMMA FirstInOrder ==
  ASSUME NEW Before, NEW S, IsFiniteSet(S), S # {}, TellsApart(Before, S)
  PROVE  /\ InOrder(Before, S)[1] \in S
         /\ \A s \in S : <<s, InOrder(Before, S)[1]>> \notin Before
<1>1. PICK r \in S : \A s \in S : <<s, r>> \notin Before
  BY SomeRowIsFirst
<1>2. {s \in S : <<s, r>> \in Before} = {}
  BY <1>1
<1>3. Place(Before, S, r) = 0
  BY <1>2, FS_EmptySet DEF Place
<1> QED BY <1>1, <1>3, StandsAtItsPlace

-----------------------------------------------------------------------------
(* shares[s] is what the members of C on side s amount to. *)
Shares(shares, amount, side, C, S) ==
    /\ \A x \in C : amount[x] \in Int /\ side[x] \in S
    /\ \A s \in S : shares[s] = SumOver(amount, {x \in C : side[x] = s})

(* Divided by a side each of them has one of, amounts add up to what they  *)
(* amounted to.                                                            *)
LEMMA SharesAddUp ==
  ASSUME NEW C, NEW S, IsFiniteSet(C), IsFiniteSet(S), NEW shares, NEW amount, NEW side,
         Shares(shares, amount, side, C, S)
  PROVE  SumOver(shares, S) = SumOver(amount, C)
<1> DEFINE F == [x \in C |-> [s \in S |-> IF side[x] = s THEN amount[x] ELSE 0]]
           G == [s \in S |-> [x \in C |-> IF side[x] = s THEN amount[x] ELSE 0]]
<1>1. \A x \in C, s \in S : F[x][s] = IF side[x] = s THEN amount[x] ELSE 0
  OBVIOUS
<1>2. \A s \in S, x \in C : G[s][x] = IF side[x] = s THEN amount[x] ELSE 0
  OBVIOUS
<1>3. \A x \in C : amount[x] \in Int /\ side[x] \in S
  BY DEF Shares
<1> HIDE DEF F, G
<1>4. Transposed(F, G, C, S)
  BY <1>1, <1>2, <1>3 DEF Transposed
<1>5. ASSUME NEW x \in C PROVE amount[x] = SumOver(F[x], S)
  <2> DEFINE f == F[x]
  <2>1. side[x] \in S /\ f[side[x]] = amount[x] /\ f[side[x]] \in Int
    BY <1>1, <1>3
  <2>2. \A s \in S : s # side[x] => f[s] = 0
    BY <1>1
  <2> HIDE DEF f
  <2>3. SumOver(f, S) = f[side[x]]
    BY <2>1, <2>2, SumOverOne
  <2> QED BY <2>1, <2>3 DEF f
<1>6. ASSUME NEW s \in S PROVE shares[s] = SumOver(G[s], C)
  <2> DEFINE g == G[s]
             part == {x \in C : side[x] = s}
  <2>1. \A x \in C : g[x] \in Int /\ (x \notin part => g[x] = 0)
    BY <1>2, <1>3
  <2>2. \A x \in part : amount[x] = g[x]
    BY <1>2
  <2>3. part \in SUBSET C /\ shares[s] = SumOver(amount, part)
    BY DEF Shares
  <2> HIDE DEF g, part
  <2>4. SumOver(g, C) = SumOver(g, part)
    BY <2>1, <2>3, SumOverSome
  <2>5. SumOver(amount, part) = SumOver(g, part)
    <3>1. IsFiniteSet(part)
      BY <2>3, FS_Subset
    <3> QED BY <2>2, <3>1, SumOverSame
  <2> QED BY <2>3, <2>4, <2>5 DEF g
<1>7. AddUp(amount, F, C, S) /\ AddUp(shares, G, S, C)
  BY <1>5, <1>6 DEF AddUp
<1> QED BY <1>4, <1>7, SumOverExchange

(* The same of how many there are. *)
CountShares(shares, side, C, S) ==
    /\ \A x \in C : side[x] \in S
    /\ \A s \in S : shares[s] = Cardinality({x \in C : side[x] = s})

LEMMA CountsAddUp ==
  ASSUME NEW C, NEW S, IsFiniteSet(C), IsFiniteSet(S), NEW shares, NEW side,
         CountShares(shares, side, C, S)
  PROVE  SumOver(shares, S) = Cardinality(C)
<1> DEFINE one == [x \in C |-> 1]
<1>1. \A T \in SUBSET C : SumOver(one, T) = Cardinality(T)
  <2> SUFFICES ASSUME NEW T \in SUBSET C PROVE SumOver(one, T) = Cardinality(T)
    OBVIOUS
  <2>1. IsFiniteSet(T) /\ T \in SUBSET T
    BY FS_Subset
  <2>2. \A x \in T : one[x] = IF x \in T THEN 1 ELSE 0
    OBVIOUS
  <2> HIDE DEF one
  <2> QED BY <2>1, <2>2, CountIsSum
<1>2. \A x \in C : one[x] \in Int
  OBVIOUS
<1> HIDE DEF one
<1>3. \A s \in S : shares[s] = SumOver(one, {x \in C : side[x] = s})
  BY <1>1 DEF CountShares
<1>4. Shares(shares, one, side, C, S)
  BY <1>2, <1>3 DEF Shares, CountShares
<1>5. SumOver(shares, S) = SumOver(one, C)
  BY <1>4, SharesAddUp
<1> QED BY <1>1, <1>5

LEMMA ImageIsFinite ==
  ASSUME NEW S, IsFiniteSet(S), NEW f
  PROVE  IsFiniteSet({f[x] : x \in S})
<1> DEFINE T == {f[x] : x \in S}
           g == [x \in S |-> f[x]]
<1>1. g \in Surjection(S, T)
  BY DEF Surjection
<1> HIDE DEF T, g
<1>2. IsFiniteSet(T)
  BY <1>1, FS_Surjection
<1> QED BY <1>2 DEF T
=============================================================================
