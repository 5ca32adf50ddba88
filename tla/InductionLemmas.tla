-------------------------- MODULE InductionLemmas --------------------------
(***************************************************************************)
(* Induction over the natural numbers, with a set in the place of the      *)
(* formula: what holds for 0 and for n + 1 whenever for n is a set that    *)
(* contains 0 and n + 1 whenever n. In the same way a step of a recursion  *)
(* is a function, and not an operator. Every recursive function of the     *)
(* models is an instance. With them, two facts on tables with a limit.     *)
(***************************************************************************)
EXTENDS Sums, FiniteSetTheorems, WellFoundedInduction, TLAPS

(* A set of natural numbers that is not empty has a least member.          *)
LEMMA LeastMember ==
    ASSUME NEW T \in SUBSET Nat, T # {}
    PROVE  \E x \in T : \A y \in T : x <= y
<1> DEFINE R == {ss \in Nat \X Nat : ss[1] < ss[2]}
<1>1. IsWellFoundedOn(R, Nat)
  BY NatLessThanWellFounded DEF OpToRel
<1>2. PICK x \in T : \A y \in T : ~(<<y, x>> \in R)
  <2> HIDE DEF R
  <2> QED BY <1>1, WFMin
<1>3. ASSUME NEW y \in T PROVE x <= y
  <2>1. <<y, x>> \in Nat \X Nat /\ <<y, x>>[1] = y /\ <<y, x>>[2] = x
    OBVIOUS
  <2>2. ~(y < x)
    BY <1>2, <2>1
  <2> QED BY <2>2
<1> QED BY <1>3

(* A set that contains 0 and with every number the next contains all.      *)
LEMMA SetInduction ==
    ASSUME NEW T, 0 \in T, \A n \in Nat : n \in T => n + 1 \in T
    PROVE  Nat \subseteq T
<1> SUFFICES ASSUME Nat \ T # {} PROVE FALSE
  OBVIOUS
<1>1. PICK x \in Nat \ T : \A y \in Nat \ T : x <= y
  BY LeastMember
<1> QED BY <1>1

(* The same for the numbers up to a bound.                                 *)
LEMMA BoundedInduction ==
    ASSUME NEW m \in Nat, NEW T, 0 \in T, \A n \in 0 .. m - 1 : n \in T => n + 1 \in T
    PROVE  0 .. m \subseteq T
<1> DEFINE U == {n \in Nat : n <= m => n \in T}
<1>1. 0 \in U
  OBVIOUS
<1>2. \A n \in Nat : n \in U => n + 1 \in U
  OBVIOUS
<1>3. Nat \subseteq U
  <2> HIDE DEF U
  <2> QED BY <1>1, <1>2, SetInduction
<1> QED BY <1>3

(* A function that is given by its first value and by its steps.           *)
Recurs(f, m, first, step) ==
    f[0] = first /\ \A n \in 1 .. m : f[n] = step[n][f[n - 1]]

LEMMA RecursionExists ==
    ASSUME NEW S, NEW first \in S, NEW m \in Nat, NEW step \in [1 .. m -> [S -> S]]
    PROVE  \E f \in [0 .. m -> S] : Recurs(f, m, first, step)
<1> DEFINE T == {n \in 0 .. m : \E f \in [0 .. n -> S] : Recurs(f, n, first, step)}
<1>1. 0 \in T
  <2> DEFINE f == [i \in 0 .. 0 |-> first]
  <2>1. f \in [0 .. 0 -> S] /\ Recurs(f, 0, first, step)
    BY DEF Recurs
  <2> QED BY <2>1
<1>2. ASSUME NEW n \in 0 .. m - 1, n \in T PROVE n + 1 \in T
  <2>1. PICK f \in [0 .. n -> S] : Recurs(f, n, first, step)
    BY <1>2
  <2> DEFINE g == [i \in 0 .. n + 1 |-> IF i = n + 1 THEN step[n + 1][f[n]] ELSE f[i]]
  <2>2. n + 1 \in 1 .. m /\ f[n] \in S
    OBVIOUS
  <2>3. g \in [0 .. n + 1 -> S]
    BY <2>2
  <2>4. ASSUME NEW i \in 1 .. n + 1 PROVE g[i] = step[i][g[i - 1]]
    <3>1. CASE i = n + 1
      BY <3>1
    <3>2. CASE i # n + 1
      <4>1. i \in 1 .. n /\ g[i] = f[i] /\ g[i - 1] = f[i - 1]
        BY <3>2
      <4> QED BY <2>1, <4>1 DEF Recurs
    <3> QED BY <3>1, <3>2
  <2>5. g[0] = first
    BY <2>1 DEF Recurs
  <2>6. Recurs(g, n + 1, first, step)
    BY <2>4, <2>5 DEF Recurs
  <2> QED BY <2>2, <2>3, <2>6
<1>3. 0 .. m \subseteq T
  <2> HIDE DEF T
  <2> QED BY <1>1, <1>2, BoundedInduction
<1>4. m \in T
  BY <1>3
<1> QED BY <1>4

(* There is one such function only.                                        *)
LEMMA RecursionUnique ==
    ASSUME NEW m \in Nat, NEW first, NEW step, NEW f, NEW g,
           Recurs(f, m, first, step), Recurs(g, m, first, step)
    PROVE  \A n \in 0 .. m : f[n] = g[n]
<1> DEFINE T == {n \in 0 .. m : f[n] = g[n]}
<1>1. 0 \in T
  BY DEF Recurs
<1>2. ASSUME NEW n \in 0 .. m - 1, n \in T PROVE n + 1 \in T
  <2>1. n + 1 \in 1 .. m /\ (n + 1) - 1 = n
    OBVIOUS
  <2> QED BY <1>2, <2>1 DEF Recurs
<1>3. 0 .. m \subseteq T
  <2> HIDE DEF T
  <2> QED BY <1>1, <1>2, BoundedInduction
<1> QED BY <1>3

-----------------------------------------------------------------------------
(* What a sum is: the value at its end of a function that adds up.         *)
Adds(f, sizes) == f[0] = 0 /\ \A n \in 1 .. Len(sizes) : f[n] = f[n - 1] + sizes[n]

LEMMA TotalAdds ==
    ASSUME NEW sizes \in Seq(Nat)
    PROVE  \E f \in [0 .. Len(sizes) -> Nat] : Adds(f, sizes) /\ Total(sizes) = f[Len(sizes)]
<1> DEFINE m == Len(sizes)
           step == [n \in 1 .. m |-> [x \in Nat |-> x + sizes[n]]]
           Def(f) == f = [n \in 0 .. m |-> IF n = 0 THEN 0 ELSE f[n - 1] + sizes[n]]
           u == CHOOSE f : Def(f)
<1>1. m \in Nat /\ \A n \in 1 .. m : sizes[n] \in Nat
  OBVIOUS
<1>2. step \in [1 .. m -> [Nat -> Nat]]
  BY <1>1
<1>3. PICK f \in [0 .. m -> Nat] : Recurs(f, m, 0, step)
  <2> HIDE DEF m, step
  <2> QED BY <1>1, <1>2, RecursionExists
<1>4. ASSUME NEW n \in 1 .. m PROVE f[n] = f[n - 1] + sizes[n]
  <2>1. n - 1 \in 0 .. m
    BY <1>1
  <2>2. f[n - 1] \in Nat
    BY <1>3, <2>1
  <2>3. f[n] = step[n][f[n - 1]]
    <3> HIDE DEF step
    <3> QED BY <1>3 DEF Recurs
  <2> QED BY <2>2, <2>3
<1>5. Def(f)
  BY <1>1, <1>3, <1>4 DEF Recurs
<1>6. Def(u)
  <2> HIDE DEF Def
  <2> QED BY <1>5, Zenon
<1>7. Total(sizes) = u[m]
  BY DEF Total
<1> HIDE DEF u, step
<1>8. u[0] = 0 /\ \A n \in 1 .. m : u[n] = u[n - 1] + sizes[n]
  BY <1>1, <1>6
<1>9. \A n \in 0 .. m : u[n] \in Nat
  <2> DEFINE T == {n \in 0 .. m : u[n] \in Nat}
  <2>1. 0 \in T
    BY <1>1, <1>8
  <2>2. ASSUME NEW n \in 0 .. m - 1, n \in T PROVE n + 1 \in T
    <3>1. n + 1 \in 1 .. m /\ (n + 1) - 1 = n /\ n \in Nat
      BY <1>1
    <3>2. u[n + 1] = u[n] + sizes[n + 1]
      BY <1>8, <3>1
    <3> QED BY <1>1, <2>2, <3>1, <3>2
  <2>3. 0 .. m \subseteq T
    <3> HIDE DEF T, m
    <3> QED BY <1>1, <2>1, <2>2, BoundedInduction
  <2> QED BY <2>3
<1>10. u \in [0 .. m -> Nat]
  BY <1>6, <1>9
<1> QED BY <1>7, <1>8, <1>10 DEF Adds

LEMMA AddsOnce ==
    ASSUME NEW sizes \in Seq(Nat), NEW m \in 0 .. Len(sizes), NEW f, NEW g,
           Adds(f, sizes), g[0] = 0, \A n \in 1 .. m : g[n] = g[n - 1] + sizes[n]
    PROVE  f[m] = g[m]
<1> DEFINE T == {n \in 0 .. m : f[n] = g[n]}
<1>1. 0 \in T
  BY DEF Adds
<1>2. ASSUME NEW n \in 0 .. m - 1, n \in T PROVE n + 1 \in T
  <2>1. n + 1 \in 1 .. m /\ n + 1 \in 1 .. Len(sizes) /\ (n + 1) - 1 = n
    OBVIOUS
  <2> QED BY <1>2, <2>1 DEF Adds
<1>3. 0 .. m \subseteq T
  <2>1. m \in Nat
    OBVIOUS
  <2> HIDE DEF T
  <2> QED BY <1>1, <1>2, <2>1, BoundedInduction
<1> QED BY <1>3

(* A sum with one number more.                                             *)
LEMMA TotalAppend ==
    ASSUME NEW sizes \in Seq(Nat), NEW x \in Nat
    PROVE  Total(Append(sizes, x)) = Total(sizes) + x
<1> DEFINE longer == Append(sizes, x)
           m == Len(sizes)
<1>1. /\ longer \in Seq(Nat) /\ Len(longer) = m + 1 /\ m \in Nat
      /\ longer[m + 1] = x /\ \A n \in 1 .. m : longer[n] = sizes[n]
  OBVIOUS
<1>2. PICK f \in [0 .. m -> Nat] : Adds(f, sizes) /\ Total(sizes) = f[m]
  BY TotalAdds
<1>3. PICK g \in [0 .. m + 1 -> Nat] : Adds(g, longer) /\ Total(longer) = g[m + 1]
  <2> HIDE DEF longer
  <2> QED BY <1>1, TotalAdds
<1> HIDE DEF longer
<1>4. g[0] = 0 /\ (\A n \in 1 .. m : g[n] = g[n - 1] + sizes[n]) /\ g[m + 1] = g[m] + x
  <2>1. g[0] = 0 /\ \A n \in 1 .. m + 1 : g[n] = g[n - 1] + longer[n]
    BY <1>1, <1>3 DEF Adds
  <2>2. m + 1 \in 1 .. m + 1 /\ (m + 1) - 1 = m /\ 1 .. m \subseteq 1 .. m + 1
    BY <1>1
  <2>3. g[m + 1] = g[m] + x
    BY <1>1, <2>1, <2>2
  <2>4. ASSUME NEW n \in 1 .. m PROVE g[n] = g[n - 1] + sizes[n]
    BY <1>1, <2>1, <2>2
  <2> QED BY <2>1, <2>3, <2>4
<1>5. f[m] = g[m]
  <2>1. m \in 0 .. Len(sizes)
    BY <1>1
  <2> HIDE DEF m
  <2> QED BY <1>2, <1>4, <2>1, AddsOnce
<1> QED BY <1>2, <1>3, <1>4, <1>5 DEF longer

LEMMA TotalFacts ==
    /\ Total(<<>>) = 0
    /\ \A x \in Nat : Total(<<x>>) = x
    /\ \A sizes \in Seq(Nat) : Total(sizes) \in Nat
<1>1. Total(<<>>) = 0
  <2>1. <<>> \in Seq(Nat) /\ Len(<<>>) = 0
    OBVIOUS
  <2> QED BY <2>1, TotalAdds DEF Adds
<1>2. ASSUME NEW x \in Nat PROVE Total(<<x>>) = x
  <2>1. <<>> \in Seq(Nat) /\ <<x>> = Append(<<>>, x)
    OBVIOUS
  <2>2. Total(<<x>>) = Total(<<>>) + x
    BY <2>1, TotalAppend
  <2> QED BY <1>1, <2>2
<1>3. ASSUME NEW sizes \in Seq(Nat) PROVE Total(sizes) \in Nat
  <2>1. PICK f \in [0 .. Len(sizes) -> Nat] : Total(sizes) = f[Len(sizes)]
    BY TotalAdds
  <2>2. Len(sizes) \in 0 .. Len(sizes)
    OBVIOUS
  <2> QED BY <2>1, <2>2
<1> QED BY <1>1, <1>2, <1>3

-----------------------------------------------------------------------------
(* A table with a limit.                                                   *)

(* What a table within its limit keeps is within the limit.                *)
LEMMA NoLarger ==
    ASSUME NEW T, IsFiniteSet(T), NEW n \in Nat, Cardinality(T) <= n, NEW S \in SUBSET T
    PROVE  IsFiniteSet(S) /\ Cardinality(S) <= n
<1>1. IsFiniteSet(S) /\ Cardinality(S) <= Cardinality(T)
  BY FS_Subset
<1>2. Cardinality(S) \in Nat /\ Cardinality(T) \in Nat
  BY <1>1, FS_CardinalityType
<1> QED BY <1>1, <1>2

(* A table below its limit has room for one more.                          *)
LEMMA OneLarger ==
    ASSUME NEW T, IsFiniteSet(T), NEW n \in Nat, Cardinality(T) < n, NEW x,
           NEW S \in SUBSET (T \cup {x})
    PROVE  IsFiniteSet(S) /\ Cardinality(S) <= n
<1>1. Cardinality(T) \in Nat
  BY FS_CardinalityType
<1>2. /\ IsFiniteSet(T \cup {x})
      /\ Cardinality(T \cup {x}) = IF x \in T THEN Cardinality(T) ELSE Cardinality(T) + 1
  BY FS_AddElement
<1>3. Cardinality(T \cup {x}) <= n
  BY <1>1, <1>2
<1> QED BY <1>2, <1>3, NoLarger
=============================================================================
