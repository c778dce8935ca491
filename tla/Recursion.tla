----------------------------- MODULE Recursion -----------------------------
(***************************************************************************)
(* Induction over the natural numbers, and what a recursive definition      *)
(*     f[n \in Nat] == Body(p, f[n - 1], n)                                 *)
(* defines: p is what else it is made from (the parameters of a LET, or     *)
(* nothing), and at zero Body does not ask for what comes before.  The      *)
(* levels of a datum and the loops over its items are of this form.         *)
(***************************************************************************)
EXTENDS Integers, WellFoundedInduction, TLAPS

CONSTANT Body(_, _, _)

\* A set that has zero, and with a number the next, has them all.
LEMMA Induction ==
    ASSUME NEW S, 0 \in S, \A n \in Nat : n \in S => n + 1 \in S
    PROVE  \A n \in Nat : n \in S
<1> DEFINE T == {n \in Nat : n \notin S}
<1> SUFFICES ASSUME T # {} PROVE FALSE
  OBVIOUS
<1>1. PICK x \in T : \A y \in T : ~ (y < x)
  <2> DEFINE R == OpToRel(<,Nat)
  <2>1. IsWellFoundedOn(R, Nat)
    BY NatLessThanWellFounded DEF OpToRel
  <2>2. T \subseteq Nat
    OBVIOUS
  <2>a. \A x, y \in Nat : y < x => <<y, x>> \in R
    BY DEF OpToRel
  <2> HIDE DEF R, T
  <2>3. \E x \in T : \A y \in T : ~ (<<y, x>> \in R)
    BY <2>1, <2>2, WFMin
  <2> QED BY <2>3, <2>2, <2>a
<1>2. x # 0 /\ x - 1 \in Nat /\ x - 1 < x /\ (x - 1) + 1 = x
  OBVIOUS
<1>3. x - 1 \in S
  BY <1>1, <1>2
<1> QED BY <1>2, <1>3

\* A function that is what Body says up to n.
Begins(p, g, n) == g = [i \in 0..n |-> Body(p, g[i - 1], i)]

\* There is one for every n, also where a loop ends at n.
LEMMA Starts ==
    ASSUME NEW p, \A u, v : Body(p, u, 0) = Body(p, v, 0)
    PROVE  \A n \in Nat : \E g : Begins(p, g, n)
<1> DEFINE S == {n \in Nat : \E g : Begins(p, g, n)}
<1>1. 0 \in S
  <2> DEFINE g == [i \in 0..0 |-> Body(p, 0, 0)]
  <2>1. \A i \in 0..0 : i = 0
    OBVIOUS
  <2>2. Body(p, g[-1], 0) = Body(p, 0, 0)
    OBVIOUS
  <2>3. g = [i \in 0..0 |-> Body(p, g[i - 1], i)]
    BY <2>1, <2>2
  <2> QED BY <2>3 DEF Begins
<1>2. ASSUME NEW n \in Nat, n \in S PROVE n + 1 \in S
  <2>1. PICK g : Begins(p, g, n)
    BY <1>2
  <2> DEFINE h == [i \in 0..n + 1 |-> IF i = n + 1 THEN Body(p, g[n], i) ELSE g[i]]
             k == [i \in 0..n + 1 |-> Body(p, h[i - 1], i)]
  <2>2. \A i \in 0..n : g[i] = Body(p, g[i - 1], i)
    BY <2>1 DEF Begins
  <2>3. ASSUME NEW i \in 0..n + 1 PROVE h[i] = k[i]
    <3>1. CASE i = n + 1
      <4>1. h[n] = g[n] /\ h[i] = Body(p, g[n], i)
        BY <3>1
      <4> QED BY <4>1, <3>1
    <3>2. CASE i = 0 /\ i # n + 1
      <4>1. h[i] = Body(p, g[-1], 0)
        BY <2>2, <3>2
      <4>2. k[i] = Body(p, h[-1], 0)
        BY <3>2
      <4>3. Body(p, g[-1], 0) = Body(p, h[-1], 0)
        OBVIOUS
      <4> QED BY <4>1, <4>2, <4>3
    <3>3. CASE i # 0 /\ i # n + 1
      <4>1. i \in 0..n /\ i - 1 \in 0..n + 1 /\ i - 1 # n + 1
        BY <3>3
      <4>2. h[i] = g[i] /\ h[i - 1] = g[i - 1]
        BY <4>1, <3>3
      <4>3. k[i] = Body(p, g[i - 1], i)
        BY <4>2
      <4> QED BY <2>2, <4>1, <4>2, <4>3
    <3> QED BY <3>1, <3>2, <3>3
  <2>4. h = k
    BY <2>3
  <2> HIDE DEF h
  <2>5. Begins(p, h, n + 1)
    BY <2>4 DEF Begins
  <2> QED BY <2>5
<1> HIDE DEF S
<1>3. \A n \in Nat : n \in S
  BY <1>1, <1>2, Induction
<1> QED BY <1>3 DEF S

\* And what is defined up to m is not changed by going on.
LEMMA SameStart ==
    ASSUME NEW p, \A u, v : Body(p, u, 0) = Body(p, v, 0),
           NEW m \in Nat, NEW n \in Nat, m <= n, NEW g, Begins(p, g, m), NEW h, Begins(p, h, n)
    PROVE  \A i \in 0..m : g[i] = h[i]
<1> DEFINE S == {i \in Nat : i <= m => g[i] = h[i]}
<1>0. (\A i \in 0..m : g[i] = Body(p, g[i - 1], i)) /\ (\A i \in 0..n : h[i] = Body(p, h[i - 1], i))
  BY DEF Begins
<1>1. 0 \in S
  <2>1. g[0] = Body(p, g[-1], 0) /\ h[0] = Body(p, h[-1], 0)
    BY <1>0
  <2>2. Body(p, g[-1], 0) = Body(p, h[-1], 0)
    OBVIOUS
  <2> QED BY <2>1, <2>2
<1>2. ASSUME NEW i \in Nat, i \in S PROVE i + 1 \in S
  <2> SUFFICES ASSUME i + 1 <= m PROVE g[i + 1] = h[i + 1]
    OBVIOUS
  <2>1. i + 1 \in 0..m /\ i + 1 \in 0..n /\ (i + 1) - 1 = i /\ g[i] = h[i]
    BY <1>2
  <2>2. g[i + 1] = Body(p, g[i], i + 1) /\ h[i + 1] = Body(p, h[i], i + 1)
    BY <1>0, <2>1
  <2> QED BY <2>1, <2>2
<1> HIDE DEF S
<1>3. \A i \in Nat : i \in S
  BY <1>1, <1>2, Induction
<1> QED BY <1>3 DEF S

\* A definition f[n \in Nat] == Body(p, f[n - 1], n) defines a function, when at zero
\* Body does not ask for what comes before.
THEOREM Defined ==
    ASSUME NEW p, \A u, v : Body(p, u, 0) = Body(p, v, 0)
    PROVE  \E f : f = [n \in Nat |-> Body(p, f[n - 1], n)]
<1> DEFINE G(n) == CHOOSE g : Begins(p, g, n)
           f == [n \in Nat |-> G(n)[n]]
           k == [n \in Nat |-> Body(p, f[n - 1], n)]
<1>1. \A n \in Nat : Begins(p, G(n), n)
  BY Starts
<1>2. ASSUME NEW n \in Nat PROVE f[n] = k[n]
  <2>1. G(n)[n] = Body(p, G(n)[n - 1], n)
    <3> HIDE DEF G
    <3>1. Begins(p, G(n), n) /\ n \in 0..n
      BY <1>1
    <3> QED BY <3>1 DEF Begins
  <2>2. CASE n = 0
    <3>1. k[n] = Body(p, f[-1], 0) /\ f[n] = Body(p, G(0)[-1], 0)
      BY <2>1, <2>2
    <3>2. Body(p, f[-1], 0) = Body(p, G(0)[-1], 0)
      OBVIOUS
    <3> QED BY <3>1, <3>2
  <2>3. CASE n # 0
    <3>1. n - 1 \in Nat /\ n - 1 <= n /\ n - 1 \in 0..n - 1
      BY <2>3
    <3> HIDE DEF G
    <3>2. Begins(p, G(n - 1), n - 1) /\ Begins(p, G(n), n)
      BY <1>1, <3>1
    <3>3. \A i \in 0..n - 1 : G(n - 1)[i] = G(n)[i]
      BY <3>1, <3>2, SameStart
    <3>4. f[n - 1] = G(n)[n - 1]
      BY <3>1, <3>3
    <3> QED BY <2>1, <3>4
  <2> QED BY <2>2, <2>3
<1>3. f = k
  BY <1>2
<1> HIDE DEF f
<1> QED BY <1>3
=============================================================================
