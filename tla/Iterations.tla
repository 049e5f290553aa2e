----------------------------- MODULE Iterations -----------------------------
(***************************************************************************)
(* Facts about natural numbers and loops that the proofs of several        *)
(* components need: a set has a least number, what holds at 0 and from     *)
(* one number to the next holds up to n, and a loop comes to an end.       *)
(***************************************************************************)
EXTENDS Integers, WellFoundedInduction, TLAPS

(* A set of numbers that is not empty has a least element.                 *)
LEMMA Least ==
  ASSUME NEW Numbers \in SUBSET Nat, Numbers # {}
  PROVE  \E x \in Numbers : \A y \in Numbers : x <= y
<1> DEFINE R == {p \in Nat \X Nat : p[1] < p[2]}
<1>1. R = OpToRel(<, Nat)
  BY DEF OpToRel
<1>2. IsWellFoundedOn(R, Nat)
  BY <1>1, NatLessThanWellFounded
<1>3. ASSUME NEW x \in Nat, NEW y \in Nat, y < x
      PROVE  <<y, x>> \in R
  <2>1. <<y, x>> \in Nat \X Nat /\ <<y, x>>[1] = y /\ <<y, x>>[2] = x
    OBVIOUS
  <2> QED
    BY <1>3, <2>1
<1> HIDE DEF R
<1>4. PICK x \in Numbers : \A y \in Numbers : ~(<<y, x>> \in R)
  BY <1>2, WFMin
<1>5. ASSUME NEW y \in Numbers PROVE x <= y
  <2>1. ~(y < x)
    BY <1>3, <1>4
  <2> QED
    BY <2>1
<1> QED
  BY <1>5

(* A set that is closed under the successor below n has the numbers to n.  *)
LEMMA UpTo ==
  ASSUME NEW n \in Nat, NEW A, 0 \in A, \A k \in 0..(n - 1) : k \in A => k + 1 \in A
  PROVE  \A k \in 0..n : k \in A
<1> DEFINE Missing == {k \in 0..n : k \notin A}
<1> SUFFICES ASSUME Missing # {} PROVE FALSE
  OBVIOUS
<1>1. Missing \in SUBSET Nat
  OBVIOUS
<1>2. PICK x \in Missing : \A y \in Missing : x <= y
  <2> HIDE DEF Missing
  <2> QED
    BY <1>1, Least
<1>3. x \in 0..n /\ x \notin A /\ x # 0
  BY <1>2
<1>4. x - 1 \in 0..(n - 1) /\ x - 1 \notin Missing /\ (x - 1) + 1 = x
  BY <1>2, <1>3
<1> QED
  BY <1>3, <1>4

(* A loop over n places that begins with b, and whose i-th turn is G[i],   *)
(* has a value after each of them.                                         *)

Iterates(n, b, G, f) ==
  f = [i \in 0..n |-> IF i = 0 THEN b ELSE G[i][f[i - 1]]]

LEMMA IterationExists ==
  ASSUME NEW n \in Nat, NEW S, NEW b \in S, NEW G \in [1..n -> [S -> S]]
  PROVE  \E f \in [0..n -> S] : Iterates(n, b, G, f)
<1> DEFINE Upto(m, f) == f \in [0..m -> S] /\ f[0] = b /\ \A i \in 1..m : f[i] = G[i][f[i - 1]]
           A == {m \in Nat : \E f : Upto(m, f)}
<1>1. 0 \in A
  <2> DEFINE f == [i \in 0..0 |-> b]
  <2>1. f \in [0..0 -> S] /\ f[0] = b
    OBVIOUS
  <2>2. Upto(0, f)
    <3> HIDE DEF f
    <3> QED
      BY <2>1
  <2> HIDE DEF Upto
  <2> QED
    BY <2>2
<1>2. ASSUME NEW m \in 0..(n - 1), m \in A
      PROVE  m + 1 \in A
  <2>1. PICK f : Upto(m, f)
    BY <1>2
  <2> DEFINE v == G[m + 1][f[m]]
             g == [i \in 0..(m + 1) |-> IF i = m + 1 THEN v ELSE f[i]]
  <2>2. m \in Nat /\ m + 1 \in 1..n
    OBVIOUS
  <2>3. v \in S
    BY <2>1, <2>2
  <2> HIDE DEF v
  <2>4. g \in [0..(m + 1) -> S] /\ g[0] = b
    BY <2>1, <2>2, <2>3
  <2>5. ASSUME NEW i \in 1..(m + 1)
        PROVE  g[i] = G[i][g[i - 1]]
    <3>1. i - 1 \in 0..m /\ g[i - 1] = f[i - 1]
      BY <2>2
    <3>2. CASE i = m + 1
      <4>1. g[i] = v /\ i - 1 = m
        BY <2>2, <3>2
      <4> HIDE DEF g
      <4> QED
        BY <3>1, <3>2, <4>1 DEF v
    <3>3. CASE i # m + 1
      <4>1. i \in 1..m
        BY <2>2, <3>3
      <4>2. g[i] = f[i]
        BY <3>3, <4>1
      <4> HIDE DEF g
      <4> QED
        BY <2>1, <3>1, <4>1, <4>2
    <3> QED
      BY <3>2, <3>3
  <2>6. Upto(m + 1, g)
    <3> HIDE DEF g
    <3> QED
      BY <2>4, <2>5
  <2> HIDE DEF Upto, g
  <2> QED
    BY <2>2, <2>6
<1>3. n \in A
  <2> HIDE DEF A
  <2>1. \A k \in 0..n : k \in A
    BY <1>1, <1>2, UpTo
  <2> QED
    BY <2>1
<1>4. PICK f : Upto(n, f)
  BY <1>3
<1>5. f = [i \in 0..n |-> IF i = 0 THEN b ELSE G[i][f[i - 1]]]
  <2>1. f = [i \in 0..n |-> f[i]]
    BY <1>4
  <2>2. \A i \in 0..n : f[i] = IF i = 0 THEN b ELSE G[i][f[i - 1]]
    BY <1>4
  <2> HIDE DEF Upto
  <2> QED
    BY <2>1, <2>2
<1> QED
  BY <1>4, <1>5 DEF Iterates
=============================================================================
