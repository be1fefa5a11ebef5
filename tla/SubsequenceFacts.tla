-------------------------- MODULE SubsequenceFacts --------------------------
(***************************************************************************)
(* What Subsequence (module Subsequences) returns, for every sequence.     *)
(* A claim about a recursive function is proved by looking at the least    *)
(* number at which it would fail.                                          *)
(***************************************************************************)
EXTENDS Subsequences, NaturalsInduction, WellFoundedInduction, TLAPS

\* Every nonempty set of numbers has a least element.
LEMMA LeastNumber ==
  ASSUME NEW T, T \in SUBSET Nat, T # {}
  PROVE  \E x \in T : \A y \in T : x <= y
<1>1. PICK x \in T : \A y \in T : ~(<<y, x>> \in OpToRel(<, Nat))
  BY WFMin, NatLessThanWellFounded, Zenon
<1>2. \A y \in T : ~(y < x)
  BY <1>1, Zenon DEF OpToRel
<1> QED
  BY <1>2

\* f agrees with the recursion in the definition of Subsequence on 0..n.
IsKept(f, s, positions, n) ==
  f = [i \in 0..n |->
         IF i = 0 THEN << >>
         ELSE IF i \in positions THEN Append(f[i - 1], s[i]) ELSE f[i - 1]]

\* The recursion has a solution up to any bound.
LEMMA KeptExists ==
  ASSUME NEW s, NEW positions
  PROVE  \A n \in Nat : \E f : IsKept(f, s, positions, n)
<1> DEFINE Bad == {n \in Nat : ~ \E f : IsKept(f, s, positions, n)}
<1> SUFFICES ASSUME Bad # {} PROVE FALSE
  OBVIOUS
<1>1. PICK n \in Bad : \A m \in Bad : n <= m
  BY LeastNumber
<1>2. n # 0
  <2>1. IsKept([i \in 0..0 |-> << >>], s, positions, 0)
    BY DEF IsKept
  <2> QED
    BY <2>1
<1>3. PICK g : IsKept(g, s, positions, n - 1)
  BY <1>1, <1>2
<1> DEFINE v == IF n \in positions THEN Append(g[n - 1], s[n]) ELSE g[n - 1]
           f == [i \in 0..n |-> IF i = n THEN v ELSE g[i]]
<1>4. \A i \in 0..n : f[i] = IF i = 0 THEN << >>
                             ELSE IF i \in positions THEN Append(f[i - 1], s[i]) ELSE f[i - 1]
  <2> SUFFICES ASSUME NEW i \in 0..n
               PROVE  f[i] = IF i = 0 THEN << >>
                             ELSE IF i \in positions THEN Append(f[i - 1], s[i]) ELSE f[i - 1]
    OBVIOUS
  <2>0. /\ n \in Nat
        /\ g = [k \in 0..(n - 1) |->
                  IF k = 0 THEN << >>
                  ELSE IF k \in positions THEN Append(g[k - 1], s[k]) ELSE g[k - 1]]
    BY <1>3 DEF IsKept
  <2>1. CASE i = n
    <3>1. f[n] = v /\ f[n - 1] = g[n - 1]
      BY <2>0, <1>2
    <3> QED
      BY <3>1, <2>1, <1>2
  <2>2. CASE i # n
    <3>1. i \in 0..(n - 1) /\ f[i] = g[i]
      BY <2>2, <2>0
    <3>2. i # 0 => f[i - 1] = g[i - 1]
      BY <3>1, <2>0
    <3> QED
      BY <3>1, <3>2, <2>0
  <2> QED
    BY <2>1, <2>2
<1>5. IsKept(f, s, positions, n)
  BY <1>4 DEF IsKept
<1> QED
  BY <1>1, <1>5

\* Subsequence is the last value of a function that satisfies the recursion.
LEMMA SubsequenceRecursion ==
  ASSUME NEW S, NEW s \in Seq(S), NEW positions
  PROVE  \E K : /\ Subsequence(s, positions) = K[Len(s)]
               /\ \A i \in 0..Len(s) :
                    K[i] = IF i = 0 THEN << >>
                           ELSE IF i \in positions THEN Append(K[i - 1], s[i]) ELSE K[i - 1]
<1> DEFINE K == CHOOSE f : IsKept(f, s, positions, Len(s))
<1>1. IsKept(K, s, positions, Len(s))
  BY KeptExists
<1>2. Subsequence(s, positions) = K[Len(s)]
  BY DEF Subsequence, IsKept
<1>3. \A i \in 0..Len(s) : K[i] = IF i = 0 THEN << >>
                                  ELSE IF i \in positions THEN Append(K[i - 1], s[i]) ELSE K[i - 1]
  BY <1>1 DEF IsKept
<1> HIDE DEF K
<1> QED
  BY <1>2, <1>3

\* What the first n elements of a sequence leave in a list: all those at a
\* position kept, nothing else, and none twice if none is twice in the sequence.
Holds(list, s, positions, n) ==
  /\ list \in Seq({s[i] : i \in positions \cap (1..n)})
  /\ \A i \in positions \cap (1..n) : \E k \in 1..Len(list) : list[k] = s[i]
  /\ (\A i, k \in 1..n : s[i] = s[k] => i = k)
       => \A i, k \in 1..Len(list) : list[i] = list[k] => i = k

LEMMA HoldsStep ==
  ASSUME NEW s, NEW positions, NEW n \in Nat \ {0}, NEW list, Holds(list, s, positions, n - 1)
  PROVE  Holds(IF n \in positions THEN Append(list, s[n]) ELSE list, s, positions, n)
<1> DEFINE T(m) == {s[i] : i \in positions \cap (1..m)}
<1>0. list \in Seq(T(n - 1)) /\ T(n - 1) \subseteq T(n)
  BY DEF Holds
<1>1. CASE n \notin positions
  <2>1. \A i \in positions \cap (1..n) : i \in positions \cap (1..(n - 1))
    BY <1>1
  <2>2. \A i, k \in 1..(n - 1) : i \in 1..n /\ k \in 1..n
    OBVIOUS
  <2>3. list \in Seq(T(n))
    BY <1>0
  <2> QED
    BY <1>1, <2>1, <2>2, <2>3 DEF Holds
<1>2. CASE n \in positions
  <2> DEFINE longer == Append(list, s[n])
  <2>1. s[n] \in T(n)
    BY <1>2
  <2>2. list \in Seq(T(n))
    BY <1>0
  <2> HIDE DEF T
  <2>3. /\ longer \in Seq(T(n)) /\ Len(longer) = Len(list) + 1 /\ Len(list) \in Nat
        /\ longer[Len(list) + 1] = s[n]
        /\ \A k \in 1..Len(list) : longer[k] = list[k]
    BY <2>1, <2>2
  <2> HIDE DEF longer
  <2>4. ASSUME NEW i \in positions \cap (1..n)
        PROVE  \E k \in 1..Len(longer) : longer[k] = s[i]
    <3>1. CASE i = n
      BY <3>1, <2>3
    <3>2. CASE i # n
      <4>1. i \in positions \cap (1..(n - 1))
        BY <3>2
      <4>2. PICK k \in 1..Len(list) : list[k] = s[i]
        BY <4>1 DEF Holds
      <4> QED
        BY <4>2, <2>3
    <3> QED
      BY <3>1, <3>2
  <2>5. ASSUME \A i, k \in 1..n : s[i] = s[k] => i = k
        PROVE  \A i, k \in 1..Len(longer) : longer[i] = longer[k] => i = k
    <3>1. \A i, k \in 1..Len(list) : list[i] = list[k] => i = k
      <4>1. \A i, k \in 1..(n - 1) : s[i] = s[k] => i = k
        BY <2>5
      <4> QED
        BY <4>1 DEF Holds
    <3>2. ASSUME NEW k \in 1..Len(list) PROVE list[k] # s[n]
      <4>1. list[k] \in T(n - 1)
        BY <1>0
      <4>2. PICK i \in 1..(n - 1) : list[k] = s[i]
        BY <4>1 DEF T
      <4> QED
        BY <4>2, <2>5
    <3> QED
      BY <3>1, <3>2, <2>3
  <2>6. Holds(longer, s, positions, n)
    BY <2>3, <2>4, <2>5, Zenon DEF Holds, T
  <2> QED
    BY <2>6, <1>2 DEF longer
<1> QED
  BY <1>1, <1>2

\* filter returns a list of the elements at the positions kept, all of them, and
\* each once if the list it filters holds each once.
LEMMA SubsequenceHolds ==
  ASSUME NEW S, NEW s \in Seq(S), NEW positions
  PROVE  Holds(Subsequence(s, positions), s, positions, Len(s))
<1>1. PICK K : /\ Subsequence(s, positions) = K[Len(s)]
               /\ \A i \in 0..Len(s) :
                    K[i] = IF i = 0 THEN << >>
                           ELSE IF i \in positions THEN Append(K[i - 1], s[i]) ELSE K[i - 1]
  BY SubsequenceRecursion
<1> DEFINE Bad == {i \in 0..Len(s) : ~Holds(K[i], s, positions, i)}
<1>2. Bad = {}
  <2> SUFFICES ASSUME Bad # {} PROVE FALSE
    OBVIOUS
  <2>0. Bad \in SUBSET Nat
    OBVIOUS
  <2>1. PICK n \in Bad : \A m \in Bad : n <= m
    BY <2>0, LeastNumber
  <2>2. Holds(K[0], s, positions, 0)
    <3>1. K[0] = << >>
      BY <1>1
    <3> QED
      BY <3>1 DEF Holds
  <2>3. n \in 1..Len(s) /\ n \in Nat \ {0} /\ n - 1 \in 0..Len(s)
    BY <2>2
  <2>4. Holds(K[n - 1], s, positions, n - 1)
    BY <2>1, <2>3
  <2>5. K[n] = IF n \in positions THEN Append(K[n - 1], s[n]) ELSE K[n - 1]
    BY <1>1, <2>3
  <2>6. Holds(K[n], s, positions, n)
    BY <2>3, <2>4, <2>5, HoldsStep
  <2> QED
    BY <2>6
<1>3. Len(s) \in 0..Len(s)
  OBVIOUS
<1> QED
  BY <1>1, <1>2, <1>3

LEMMA SubsequenceType ==
  ASSUME NEW S, NEW s \in Seq(S), NEW positions
  PROVE  Subsequence(s, positions) \in Seq({s[i] : i \in positions \cap (1..Len(s))})
BY SubsequenceHolds DEF Holds
=============================================================================
