---------------------------- MODULE BoundedInduction ----------------------------
(***************************************************************************)
(* Induction, recursion and counting up to a bound, stated about sets and   *)
(* functions: the induction hypothesis is a set of numbers, a recursive     *)
(* definition's step a function.  All of it rests on the order of the       *)
(* numbers being well founded.                                             *)
(***************************************************************************)
EXTENDS Integers, FiniteSets, NaturalsInduction, WellFoundedInduction,
        FiniteSetTheorems, TLAPS

\* A set of numbers that is not empty has a least one.
LEMMA NatLeast ==
  ASSUME NEW S \in SUBSET Nat, S # {}
  PROVE  \E x \in S : \A y \in S : x <= y
<1>1. \E x \in S : \A y \in S : ~ (<<y, x>> \in OpToRel(<, Nat))
  <2> DEFINE R == OpToRel(<, Nat)
  <2>1. IsWellFoundedOn(R, Nat)
    BY NatLessThanWellFounded
  <2> HIDE DEF R
  <2>2. \E x \in S : \A y \in S : ~ (<<y, x>> \in R)
    BY <2>1, WFMin
  <2>3. QED BY <2>2 DEF R
<1>2. PICK x \in S : \A y \in S : ~ (<<y, x>> \in OpToRel(<, Nat))
  BY <1>1
<1>3. \A y \in S : x <= y
  <2>1. TAKE y \in S
  <2>2. <<y, x>> \in OpToRel(<, Nat) <=> y < x
    BY DEF OpToRel
  <2>3. ~ (y < x)
    BY <1>2, <2>2
  <2>4. x \in Nat /\ y \in Nat
    OBVIOUS
  <2>5. QED BY <2>3, <2>4
<1>4. QED BY <1>3

\* A set of numbers below a bound that is not empty has a greatest one.
LEMMA Greatest ==
  ASSUME NEW n \in Nat, NEW S \in SUBSET (0..n), S # {}
  PROVE  \E m \in S : \A i \in S : i <= m
<1> DEFINE D == { n - i : i \in S }
<1>1. D \in SUBSET Nat
  <2>1. \A i \in S : n - i \in Nat
    OBVIOUS
  <2>2. QED BY <2>1
<1>2. D # {}
  OBVIOUS
<1>3. PICK d \in D : \A e \in D : d <= e
  BY <1>1, <1>2, NatLeast
<1>4. PICK m \in S : d = n - m
  OBVIOUS
<1>5. \A i \in S : n - m <= n - i
  BY <1>3, <1>4
<1>6. QED BY <1>4, <1>5

\* Induction: a set that has 0 and with each number below n the next has all.
LEMMA Induction ==
  ASSUME NEW n \in Nat, NEW P,
         0 \in P, \A i \in 1..n : i - 1 \in P => i \in P
  PROVE  \A i \in 0..n : i \in P
<1> DEFINE Bad == { i \in 0..n : i \notin P }
<1>1. SUFFICES ASSUME Bad # {} PROVE FALSE
  OBVIOUS
<1>2. PICK b \in Bad : \A i \in Bad : b <= i
  <2>1. Bad \in SUBSET Nat
    OBVIOUS
  <2> HIDE DEF Bad
  <2>2. QED BY <1>1, <2>1, NatLeast
<1>3. b \in 1..n /\ b - 1 \in 0..n
  OBVIOUS
<1>4. b - 1 \in P
  BY <1>2, <1>3
<1>5. QED BY <1>3, <1>4

\* f is what a recursive definition with this first value and step says.
Unfolds(f, n, first, step) ==
  f[0] = first /\ \A i \in 1..n : f[i] = step[i][f[i - 1]]

\* Recursion: there is a function with a given first value and a given step.
LEMMA Recursion ==
  ASSUME NEW n \in Nat, NEW S, NEW first \in S,
         NEW step \in [1..n -> [S -> S]]
  PROVE  \E f \in [0..n -> S] : Unfolds(f, n, first, step)
<1> DEFINE P == { k \in 0..n :
                   \E f \in [0..k -> S] : Unfolds(f, k, first, step) }
<1>1. 0 \in P
  <2> DEFINE f == [i \in 0..0 |-> first]
  <2>1. f \in [0..0 -> S] /\ Unfolds(f, 0, first, step)
    BY DEF Unfolds
  <2> HIDE DEF f
  <2>2. QED BY <2>1
<1>2. ASSUME NEW k \in 1..n, k - 1 \in P PROVE k \in P
  <2>1. PICK f \in [0..(k - 1) -> S] : Unfolds(f, k - 1, first, step)
    BY <1>2
  <2>2. f[0] = first /\ \A i \in 1..(k - 1) : f[i] = step[i][f[i - 1]]
    BY <2>1 DEF Unfolds
  <2> DEFINE g == [i \in 0..k |-> IF i = k THEN step[k][f[k - 1]] ELSE f[i]]
  <2>3. f[k - 1] \in S /\ step[k][f[k - 1]] \in S
    OBVIOUS
  <2>4. g \in [0..k -> S]
    <3>1. \A i \in 0..k : i # k => i \in 0..(k - 1)
      OBVIOUS
    <3>2. QED BY <2>3, <3>1
  <2>5. g[0] = first
    BY <2>2
  <2>6. \A i \in 1..k : g[i] = step[i][g[i - 1]]
    <3>1. TAKE i \in 1..k
    <3>2. CASE i = k
      BY <3>2
    <3>3. CASE i # k
      <4>1. i \in 1..(k - 1) /\ i - 1 \in 0..k /\ i - 1 # k /\ i \in 0..k
        BY <3>3
      <4>2. QED BY <2>2, <3>3, <4>1
    <3>4. QED BY <3>2, <3>3
  <2> HIDE DEF g
  <2>7. Unfolds(g, k, first, step)
    BY <2>5, <2>6 DEF Unfolds
  <2>8. QED BY <2>4, <2>7
<1> HIDE DEF P
<1>3. \A k \in 1..n : k - 1 \in P => k \in P
  BY <1>2
<1>4. \A k \in 0..n : k \in P
  BY <1>1, <1>3, Induction
<1>5. QED BY <1>4 DEF P

--------------------------------------------------------------------------------
(***************************************************************************)
(* Counting.                                                               *)
(***************************************************************************)
Below(F, i) == { j \in F : j < i }

\* How many of a set of numbers lie below another.
LEMMA CountBelow ==
  ASSUME NEW n \in Nat, NEW F, \A j \in F : j \in Int /\ 1 <= j /\ j <= n
  PROVE  /\ Cardinality(F) \in 0..n
         /\ Cardinality(Below(F, 1)) = 0
         /\ Cardinality(Below(F, n + 1)) = Cardinality(F)
         /\ \A i \in 1..(n + 1) : Cardinality(Below(F, i)) \in 0..(i - 1)
         /\ \A i \in 1..n : Cardinality(Below(F, i + 1)) =
              IF i \in F THEN Cardinality(Below(F, i)) + 1
                         ELSE Cardinality(Below(F, i))
         /\ \A i, j \in 1..(n + 1) :
              i <= j => Cardinality(Below(F, i)) <= Cardinality(Below(F, j))
<1>1. ASSUME NEW i \in 1..(n + 1)
      PROVE  IsFiniteSet(Below(F, i)) /\ Cardinality(Below(F, i)) \in 0..(i - 1)
  <2>1. Below(F, i) \in SUBSET (1..(i - 1)) /\ i - 1 \in Nat
    BY DEF Below
  <2>2. IsFiniteSet(1..(i - 1)) /\ Cardinality(1..(i - 1)) = i - 1
    <3>1. 1 \in Int /\ i - 1 \in Int
      OBVIOUS
    <3>2. /\ IsFiniteSet(1..(i - 1))
          /\ Cardinality(1..(i - 1)) = IF 1 > i - 1 THEN 0 ELSE (i - 1) - 1 + 1
      BY <3>1, FS_Interval
    <3>3. QED BY <3>2
  <2>3. IsFiniteSet(Below(F, i)) /\ Cardinality(Below(F, i)) <= i - 1
    BY <2>1, <2>2, FS_Subset
  <2>4. Cardinality(Below(F, i)) \in Nat
    BY <2>3, FS_CardinalityType
  <2>5. QED BY <2>1, <2>3, <2>4
<1>2. Below(F, n + 1) = F /\ Below(F, 1) = {}
  BY DEF Below
<1>3. Cardinality(F) \in 0..n
  BY <1>1, <1>2
<1>4. ASSUME NEW i \in 1..n
      PROVE  Cardinality(Below(F, i + 1)) =
               IF i \in F THEN Cardinality(Below(F, i)) + 1
                          ELSE Cardinality(Below(F, i))
  <2>1. Below(F, i + 1) = IF i \in F THEN Below(F, i) \cup {i} ELSE Below(F, i)
    BY DEF Below
  <2>2. i \notin Below(F, i) /\ IsFiniteSet(Below(F, i))
    BY <1>1 DEF Below
  <2>3. QED BY <2>1, <2>2, FS_AddElement
<1>5. ASSUME NEW i \in 1..(n + 1), NEW j \in 1..(n + 1), i <= j
      PROVE  Cardinality(Below(F, i)) <= Cardinality(Below(F, j))
  <2>1. Below(F, i) \in SUBSET Below(F, j)
    BY <1>5 DEF Below
  <2>2. IsFiniteSet(Below(F, j))
    BY <1>1
  <2>3. QED BY <2>1, <2>2, FS_Subset
<1>6. Cardinality(Below(F, 1)) = 0 /\ Cardinality(Below(F, n + 1)) = Cardinality(F)
  BY <1>2, FS_EmptySet
<1>7. QED BY <1>1, <1>3, <1>4, <1>5, <1>6

\* Counting from below gives every number up to the size of the set to one
\* member alone.
LEMMA EveryPlaceOnce ==
  ASSUME NEW n \in Nat, NEW F, \A j \in F : j \in Int /\ 1 <= j /\ j <= n
  PROVE  /\ \A i, j \in F :
              Cardinality(Below(F, i)) = Cardinality(Below(F, j)) => i = j
         /\ \A i \in F : Cardinality(Below(F, i)) \in 0..(Cardinality(F) - 1)
         /\ \A k \in 0..(Cardinality(F) - 1) :
              \E i \in F : Cardinality(Below(F, i)) = k
<1> DEFINE e == [i \in 1..(n + 1) |-> Cardinality(Below(F, i))]
           c == Cardinality(F)
<1>1. \A i \in F : i \in 1..n /\ i \in 1..(n + 1)
  OBVIOUS
<1>2. /\ c \in 0..n /\ e[1] = 0 /\ e[n + 1] = c
      /\ e \in [1..(n + 1) -> Nat]
      /\ \A i \in 1..n : e[i + 1] = IF i \in F THEN e[i] + 1 ELSE e[i]
      /\ \A i, j \in 1..(n + 1) : i <= j => e[i] <= e[j]
  <2>1. \A i \in 1..(n + 1) : Cardinality(Below(F, i)) \in Nat
    <3>1. \A i \in 1..(n + 1) : Cardinality(Below(F, i)) \in 0..(i - 1)
      BY CountBelow
    <3>2. QED BY <3>1
  <2>2. 1 \in 1..(n + 1) /\ n + 1 \in 1..(n + 1)
        /\ \A i \in 1..n : i \in 1..(n + 1) /\ i + 1 \in 1..(n + 1)
    OBVIOUS
  <2>3. QED BY <2>1, <2>2, CountBelow
<1>3. \A i \in F : e[i] = Cardinality(Below(F, i))
  BY <1>1
<1> HIDE DEF e, c
<1>4. ASSUME NEW i \in F, NEW j \in 1..(n + 1), i < j
      PROVE  e[i] < e[j]
  <2>1. i \in 1..n /\ i + 1 \in 1..(n + 1) /\ i \in 1..(n + 1) /\ i + 1 <= j
    BY <1>1, <1>4
  <2>2. e[i + 1] = e[i] + 1 /\ e[i + 1] <= e[j]
    BY <1>2, <2>1
  <2>3. e[i] \in Nat /\ e[j] \in Nat
    BY <1>2, <2>1
  <2>4. QED BY <2>2, <2>3
<1>5. ASSUME NEW i \in F, NEW j \in F, e[i] = e[j] PROVE i = j
  <2>1. i \in 1..(n + 1) /\ j \in 1..(n + 1)
    BY <1>1
  <2>2. e[i] \in Nat /\ e[j] \in Nat
    BY <1>2, <2>1
  <2>3. ~(i < j) /\ ~(j < i)
    BY <1>4, <1>5, <2>1, <2>2
  <2>4. QED BY <2>1, <2>3
<1>6. ASSUME NEW i \in F PROVE e[i] \in 0..(c - 1)
  <2>1. i \in 1..(n + 1) /\ n + 1 \in 1..(n + 1) /\ i < n + 1
    BY <1>1
  <2>2. e[i] \in Nat /\ e[i] < e[n + 1]
    BY <1>2, <1>4, <2>1
  <2>3. QED BY <1>2, <2>2
<1>7. ASSUME NEW k \in 0..(c - 1) PROVE \E i \in F : e[i] = k
  <2> DEFINE S == { i \in 1..(n + 1) : e[i] <= k }
  <2>1. 1 \in S /\ S \in SUBSET (0..(n + 1)) /\ n + 1 \in Nat
    BY <1>2
  <2>2. PICK m \in S : \A i \in S : i <= m
    <3> HIDE DEF S
    <3>1. S # {}
      BY <2>1
    <3>2. QED BY <2>1, <3>1, Greatest
  <2>3. m # n + 1
    BY <1>2
  <2>4. m \in 1..n /\ m + 1 \in 1..(n + 1) /\ m \in 1..(n + 1)
    BY <2>3
  <2>5. ~(m + 1 <= m) /\ m + 1 \notin S
    BY <2>2, <2>4
  <2>6. ~(e[m + 1] <= k) /\ e[m] <= k
    BY <2>4, <2>5
  <2>7. e[m] \in Nat /\ e[m + 1] \in Nat /\ k \in Nat
    BY <1>2, <2>4
  <2>8. m \in F /\ e[m] = k
    <3>1. e[m + 1] = IF m \in F THEN e[m] + 1 ELSE e[m]
      BY <1>2, <2>4
    <3>2. QED BY <2>6, <2>7, <3>1
  <2>9. QED BY <2>8
<1>8. QED BY <1>3, <1>5, <1>6, <1>7 DEF c
===============================================================================
