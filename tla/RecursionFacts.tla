---------------------------- MODULE RecursionFacts ----------------------------
(***************************************************************************)
(* What the proofs about recursive functions rest on: induction over the   *)
(* naturals and the existence of the function that a recursion over 0..n   *)
(* defines, both stated of sets and functions, so that they can be cited   *)
(* with nothing to be put in for an operator.                              *)
(***************************************************************************)
EXTENDS Integers, Sequences, WellFoundedInduction, TLAPS

\* Induction over the naturals, about a set.
LEMMA NatSetInduction ==
    ASSUME NEW S, 0 \in S, \A n \in Nat : n \in S => n + 1 \in S
    PROVE  \A n \in Nat : n \in S
<1> DEFINE T == Nat \ S
<1> SUFFICES ASSUME T # {} PROVE FALSE
  OBVIOUS
<1>1. PICK x \in T : \A y \in T : ~(<<y, x>> \in OpToRel(<, Nat))
  <2>1. T \subseteq Nat
    OBVIOUS
  <2> HIDE DEF T
  <2>2. QED
    BY <2>1, WFMin, NatLessThanWellFounded, Zenon
<1>2. \A y \in T : ~(y < x)
  BY <1>1 DEF OpToRel
<1>3. x - 1 \in Nat /\ x - 1 < x /\ (x - 1) + 1 = x
  OBVIOUS
<1>4. QED
  BY <1>2, <1>3

\* f is what a recursion defines that starts with b and goes on by G.
Recursion(f, G, b, n) ==
    f = [i \in 0..n |-> IF i = 0 THEN b ELSE G[i][f[i - 1]]]

\* There is such a function.
LEMMA RecursionExists ==
    ASSUME NEW G, NEW b, NEW n \in Nat
    PROVE  \E f : Recursion(f, G, b, n)
<1> DEFINE F(f, k) == f = [i \in 0..k |-> IF i = 0 THEN b ELSE G[i][f[i - 1]]]
           S == {k \in Nat : \E f : F(f, k)}
<1>1. 0 \in S
  <2> DEFINE g == [i \in 0..0 |-> b]
  <2>1. F(g, 0)
    OBVIOUS
  <2>2. QED
    BY <2>1
<1>2. ASSUME NEW k \in Nat, k \in S PROVE k + 1 \in S
  <2>1. PICK f : F(f, k)
    BY <1>2
  <2> DEFINE v == G[k + 1][f[k]]
  <2> HIDE DEF v
  <2> DEFINE g == [i \in 0..(k + 1) |-> IF i = k + 1 THEN v ELSE f[i]]
  <2>2. \A i \in 0..k : i \in 0..(k + 1) /\ i # k + 1
    BY <1>2
  <2>3. (\A i \in 0..k : g[i] = f[i]) /\ g[k + 1] = v
    BY <1>2, <2>2
  <2> HIDE DEF g
  <2>4. \A i \in 0..k : f[i] = IF i = 0 THEN b ELSE G[i][f[i - 1]]
    BY <2>1
  <2>5. \A i \in 0..k : g[i] = IF i = 0 THEN b ELSE G[i][g[i - 1]]
    <3> SUFFICES ASSUME NEW i \in 0..k PROVE g[i] = IF i = 0 THEN b ELSE G[i][g[i - 1]]
      OBVIOUS
    <3>1. CASE i = 0
      BY <2>3, <2>4, <3>1
    <3>2. CASE i # 0
      <4>1. i - 1 \in 0..k
        BY <3>2
      <4>2. g[i] = G[i][f[i - 1]] /\ g[i - 1] = f[i - 1]
        BY <2>3, <2>4, <3>2, <4>1, Zenon
      <4>3. QED
        BY <3>2, <4>2, Zenon
    <3>3. QED
      BY <3>1, <3>2
  <2>6. \A i \in 0..(k + 1) : g[i] = IF i = 0 THEN b ELSE G[i][g[i - 1]]
    <3>1. g[k + 1] = G[k + 1][g[k]] /\ (k + 1) - 1 = k /\ k + 1 # 0
      BY <1>2, <2>3 DEF v
    <3>2. \A i \in 0..(k + 1) : i \in 0..k \/ i = k + 1
      BY <1>2
    <3>3. QED
      BY <2>5, <3>1, <3>2, Zenon
  <2>7. F(g, k + 1)
    BY <2>6, Zenon DEF g
  <2>8. QED
    BY <2>7, k + 1 \in Nat
<1> HIDE DEF S
<1>3. n \in S
  BY <1>1, <1>2, NatSetInduction
<1>4. QED
  BY <1>3 DEF S, Recursion


\* What every value of a sequence of values keeps.
LEMMA KeptByEveryStep ==
    ASSUME NEW f, NEW I, NEW n \in Nat, f[0] \in I[0],
           \A i \in 1..n : f[i - 1] \in I[i - 1] => f[i] \in I[i]
    PROVE  \A i \in 0..n : f[i] \in I[i]
<1> DEFINE S == {k \in Nat : k <= n => f[k] \in I[k]}
<1>1. 0 \in S
  OBVIOUS
<1>2. ASSUME NEW k \in Nat, k \in S PROVE k + 1 \in S
  <2>1. CASE k + 1 <= n
    <3>1. k + 1 \in 1..n /\ (k + 1) - 1 = k /\ k <= n
      BY <2>1
    <3>2. f[k] \in I[k]
      BY <1>2, <3>1
    <3>3. f[k + 1] \in I[k + 1]
      BY <3>1, <3>2, Zenon
    <3>4. QED
      BY <3>3
  <2>2. QED
    BY <2>1
<1> HIDE DEF S
<1>3. \A k \in Nat : k \in S
  BY <1>1, <1>2, NatSetInduction
<1>4. QED
  BY <1>3 DEF S
===============================================================================
