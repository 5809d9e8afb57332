----------------------------- MODULE FoldLemmas -----------------------------
(***************************************************************************)
(* Induction over the natural numbers up to n, in a form that needs no     *)
(* operator as a parameter, and the existence of what a function computes  *)
(* step by step, f[0] = base and f[i] from f[i - 1]: the loops of the code *)
(* are such functions in the models.                                       *)
(***************************************************************************)
EXTENDS Integers, Sequences, TLAPS, WellFoundedInduction

\* A set of natural numbers has a least one.
LEMMA LeastNatural ==
  ASSUME NEW S, S \subseteq Nat, S # {}
  PROVE  \E x \in S : \A y \in S : x <= y
<1> DEFINE R == OpToRel(<, Nat)
<1>1. IsWellFoundedOn(R, Nat)
  BY NatLessThanWellFounded
<1>2. \A x, y \in Nat : x < y => <<x, y>> \in R
  BY DEF OpToRel
<1> HIDE DEF R
<1>3. PICK x \in S : \A y \in S : ~(<<y, x>> \in R)
  BY <1>1, WFMin, Zenon
<1>4. \A y \in S : ~(y < x)
  BY <1>2, <1>3, Zenon
<1> QED
  BY <1>4

\* What holds of 0, and of i if it holds of i - 1, holds up to n.
LEMMA UpTo ==
  ASSUME NEW n \in Nat, NEW P, 0 \in P, \A i \in 1..n : i - 1 \in P => i \in P
  PROVE  \A i \in 0..n : i \in P
<1> SUFFICES ASSUME NEW j \in 0..n, j \notin P PROVE FALSE
  OBVIOUS
<1> DEFINE Bad == {i \in 0..n : i \notin P}
<1>1. PICK x \in Bad : \A y \in Bad : x <= y
  <2>1. Bad \subseteq Nat /\ j \in Bad
    OBVIOUS
  <2> HIDE DEF Bad
  <2> QED
    BY <2>1, LeastNatural
<1>2. x \in 0..n /\ x \notin P
  BY <1>1
<1>3. x \in 1..n /\ x - 1 \in 0..n
  BY <1>2
<1>4. x - 1 \in P
  BY <1>1, <1>3
<1> QED
  BY <1>2, <1>3, <1>4

\* what a loop that starts with base has after each of its n turns
IsRun(f, base, n, step) == f[0] = base /\ \A i \in 1..n : f[i] = step[i][f[i - 1]]

\* A loop of n turns that maps T to itself has a value in T after each of them.
LEMMA LoopRuns ==
  ASSUME NEW T, NEW base \in T, NEW n \in Nat, NEW step \in [1..n -> [T -> T]]
  PROVE  \E f \in [0..n -> T] : IsRun(f, base, n, step)
<1> DEFINE Runs(f, m) == f[0] = base /\ \A i \in 1..m : f[i] = step[i][f[i - 1]]
           P == {m \in 0..n : \E f \in [0..m -> T] : Runs(f, m)}
<1>1. 0 \in P
  <2> DEFINE g == [i \in 0..0 |-> base]
  <2>1. g \in [0..0 -> T] /\ Runs(g, 0)
    OBVIOUS
  <2> HIDE DEF g, Runs
  <2> QED
    BY <2>1
<1>2. ASSUME NEW m \in 1..n, m - 1 \in P
      PROVE  m \in P
  <2>1. PICK f \in [0..(m - 1) -> T] : Runs(f, m - 1)
    BY <1>2
  <2> DEFINE new == step[m][f[m - 1]]
             g == [i \in 0..m |-> IF i = m THEN new ELSE f[i]]
  <2>2. f[m - 1] \in T /\ new \in T
    <3>1. m - 1 \in 0..(m - 1)
      OBVIOUS
    <3> QED
      BY <2>1, <3>1
  <2>3. \A i \in 0..m : i # m => i \in 0..(m - 1)
    OBVIOUS
  <2>4. g \in [0..m -> T]
    <3> HIDE DEF new
    <3> QED
      BY <2>1, <2>2, <2>3
  <2>5. g[m] = new /\ \A i \in 0..(m - 1) : g[i] = f[i]
    <3>1. m \in 0..m /\ \A i \in 0..(m - 1) : i \in 0..m /\ i # m
      OBVIOUS
    <3> HIDE DEF new
    <3> QED
      BY <3>1
  <2> HIDE DEF g
  <2>6. Runs(g, m)
    <3>1. g[0] = base
      BY <2>1, <2>5
    <3>2. ASSUME NEW i \in 1..m
          PROVE  g[i] = step[i][g[i - 1]]
      <4>1. i - 1 \in 0..(m - 1)
        OBVIOUS
      <4>2. g[i - 1] = f[i - 1]
        BY <2>5, <4>1
      <4>3. CASE i = m
        BY <2>5, <4>2, <4>3
      <4>4. CASE i # m
        <5>1. i \in 1..(m - 1) /\ i \in 0..(m - 1)
          BY <4>4
        <5> QED
          BY <2>1, <2>5, <4>2, <5>1
      <4> QED
        BY <4>3, <4>4
    <3> QED
      BY <3>1, <3>2
  <2>7. m \in 0..n
    OBVIOUS
  <2> HIDE DEF Runs
  <2> QED
    BY <2>4, <2>6, <2>7
<1>3. n \in P
  <2> HIDE DEF P
  <2>1. \A i \in 0..n : i \in P
    BY <1>1, <1>2, UpTo
  <2> QED
    BY <2>1
<1> QED
  BY <1>3 DEF IsRun

=============================================================================
