-------------------------- MODULE NaturalRecursion --------------------------
(***************************************************************************)
(* Induction and recursion over an interval of natural numbers, stated     *)
(* with sets and functions in place of predicates and operators, so that   *)
(* the facts can be cited for any of the recursive functions of this       *)
(* project.                                                                *)
(***************************************************************************)
EXTENDS Integers, WellFoundedInduction, TLAPS

Less == {p \in Nat \X Nat : p[1] < p[2]}

LEMMA LessWellFounded == IsWellFoundedOn(Less, Nat)
<1>1. OpToRel(<, Nat) = Less
  BY DEF OpToRel, Less
<1> QED
  BY <1>1, NatLessThanWellFounded

\* A set of natural numbers that is not empty has a least element.
LEMMA LeastElement ==
  ASSUME NEW T \in SUBSET Nat, T # {}
  PROVE  \E n \in T : \A m \in T : n <= m
<1>1. PICK n \in T : \A m \in T : <<m, n>> \notin Less
  BY LessWellFounded, WFMin
<1>2. ASSUME NEW m \in T PROVE n <= m
  <2>1. <<m, n>> \notin Less /\ m \in Nat /\ n \in Nat
    BY <1>1
  <2>2. ~(m < n)
    BY <2>1 DEF Less
  <2> QED
    BY <2>1, <2>2
<1> QED
  BY <1>2

\* Induction up to N: what holds of 0, and of i if of its predecessor, holds of
\* all numbers up to N.
THEOREM IntervalInduction ==
  ASSUME NEW N \in Nat, NEW T \in SUBSET (0..N),
         0 \in T, \A i \in 1..N : i - 1 \in T => i \in T
  PROVE  T = 0..N
<1> SUFFICES ASSUME (0..N) \ T # {} PROVE FALSE
  OBVIOUS
<1> DEFINE Left == (0..N) \ T
<1>1. PICK n \in Left : \A m \in Left : n <= m
  <2>1. Left \in SUBSET Nat
    OBVIOUS
  <2> QED
    BY <2>1, LeastElement
<1>2. n \in 1..N
  BY <1>1
<1>3. n - 1 \notin Left /\ n - 1 \in 0..N
  BY <1>1, <1>2
<1> QED
  BY <1>1, <1>2, <1>3

\* The function that is c at 0 and, at i, what step[i] makes of its value before.
Recursive(f, N, S, c, step) ==
  f \in [0..N -> S] /\ f[0] = c /\ \A i \in 1..N : f[i] = step[i][f[i - 1]]

\* There is one, with values in S if c and the values of step are in S.
THEOREM IntervalRecursion ==
  ASSUME NEW N \in Nat, NEW S, NEW c \in S, NEW step \in [1..N -> [S -> S]]
  PROVE  \E f : Recursive(f, N, S, c, step)
<1> DEFINE Upto(n, f) == f[0] = c /\ \A i \in 1..n : f[i] = step[i][f[i - 1]]
           T == {n \in 0..N : \E f \in [0..N -> S] : Upto(n, f)}
<1>1. 0 \in T
  <2> DEFINE f == [i \in 0..N |-> c]
  <2>1. Upto(0, f) /\ f \in [0..N -> S] /\ 0 \in 0..N
    OBVIOUS
  <2> HIDE DEF Upto, f
  <2> QED
    BY <2>1
<1>2. ASSUME NEW i \in 1..N, i - 1 \in T PROVE i \in T
  <2>1. PICK f \in [0..N -> S] : Upto(i - 1, f)
    BY <1>2
  <2> DEFINE g == [f EXCEPT ![i] = step[i][f[i - 1]]]
  <2>2. step[i][f[i - 1]] \in S
    OBVIOUS
  <2>3. g \in [0..N -> S]
    BY <2>2
  <2>4. g[0] = c
    BY <2>1
  <2>5. ASSUME NEW j \in 1..i PROVE g[j] = step[j][g[j - 1]]
    <3>1. CASE j = i
      BY <3>1
    <3>2. CASE j # i
      <4>1. j \in 1..(i - 1) /\ j \in 0..N /\ j - 1 \in 0..N /\ j - 1 # i
        BY <3>2
      <4>2. g[j] = f[j] /\ g[j - 1] = f[j - 1]
        BY <3>2, <4>1
      <4> QED
        BY <2>1, <4>1, <4>2
    <3> QED
      BY <3>1, <3>2
  <2>6. Upto(i, g) /\ i \in 0..N
    BY <2>4, <2>5
  <2> HIDE DEF Upto, g
  <2> QED
    BY <2>3, <2>6
<1>3. T = 0..N
  <2> HIDE DEF T
  <2>1. T \in SUBSET (0..N)
    BY DEF T
  <2> QED
    BY <1>1, <1>2, <2>1, IntervalInduction
<1>4. PICK f \in [0..N -> S] : Upto(N, f)
  <2> HIDE DEF Upto
  <2>1. N \in T
    BY <1>3
  <2> QED
    BY <2>1
<1> QED
  BY <1>4 DEF Recursive
=============================================================================
