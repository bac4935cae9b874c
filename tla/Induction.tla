------------------------------ MODULE Induction ------------------------------
(***************************************************************************)
(* Induction over the natural numbers, in the form the provers can use: a  *)
(* set in the place of a predicate.                                        *)
(***************************************************************************)
EXTENDS Naturals, WellFoundedInduction, TLAPS

\* A set of natural numbers has a least element.
LEMMA LeastNumber ==
  ASSUME NEW S, S \subseteq Nat, S # {}
  PROVE  \E n \in S : \A m \in S : n <= m
<1> DEFINE R == {p \in Nat \X Nat : p[1] < p[2]}
<1>1. OpToRel(<, Nat) = R
  BY DEF OpToRel
<1>2. IsWellFoundedOn(R, Nat)
  BY <1>1, NatLessThanWellFounded
<1>3. PICK n \in S : \A m \in S : <<m, n>> \notin R
  <2> HIDE DEF R
  <2> QED  BY <1>2, WFMin
<1>4. ASSUME NEW m \in S, m < n PROVE FALSE
  <2>1. <<m, n>> \in Nat \X Nat /\ <<m, n>>[1] < <<m, n>>[2]
    BY <1>4
  <2> QED  BY <1>3, <2>1
<1> QED  BY <1>4

\* What holds of 0 and is passed on to the next number holds of all.
LEMMA Numbers ==
  ASSUME NEW S, 0 \in S, \A n \in Nat : n \in S => n + 1 \in S
  PROVE  \A n \in Nat : n \in S
<1> SUFFICES ASSUME Nat \ S # {} PROVE FALSE
  OBVIOUS
<1>1. PICK n \in Nat \ S : \A m \in Nat \ S : n <= m
  BY LeastNumber
<1>2. n - 1 \in Nat /\ (n - 1) + 1 = n
  BY <1>1
<1> QED  BY <1>1, <1>2

\* A function f on 0..n, defined by its value at 0 and the step from each value to the next.
Steps(n, T) == [(1..n) \X T -> T]
ByRecursion(f, n, T, start, step) ==
  f \in [0..n -> T] /\ f[0] = start /\ \A i \in 1..n : f[i] = step[i, f[i - 1]]

\* There is such a function.
LEMMA Recursion ==
  ASSUME NEW n \in Nat, NEW T, NEW start \in T, NEW step \in Steps(n, T)
  PROVE  \E f : ByRecursion(f, n, T, start, step)
<1> DEFINE Goes(f, k) == ByRecursion(f, k, T, start, step)
           S == {k \in Nat : k <= n => \E f : Goes(f, k)}
<1>1. 0 \in S
  <2> DEFINE f == [i \in 0..0 |-> start]
  <2>1. Goes(f, 0)
    BY DEF ByRecursion
  <2> HIDE DEF f, Goes
  <2> QED  BY <2>1
<1>2. ASSUME NEW k \in Nat, k \in S PROVE k + 1 \in S
  <2> SUFFICES ASSUME k + 1 <= n PROVE \E f : Goes(f, k + 1)
    <3> HIDE DEF Goes
    <3> QED  OBVIOUS
  <2>1. PICK f : Goes(f, k)
    <3>1. k <= n
      OBVIOUS
    <3> HIDE DEF Goes
    <3> QED  BY <1>2, <3>1
  <2>2. f \in [0..k -> T] /\ f[0] = start /\ \A i \in 1..k : f[i] = step[i, f[i - 1]]
    BY <2>1 DEF ByRecursion
  <2> DEFINE next == step[k + 1, f[k]]
             g == [i \in 0..(k + 1) |-> IF i = k + 1 THEN next ELSE f[i]]
  <2>3. next \in T
    <3>1. k + 1 \in 1..n /\ k \in 0..k
      OBVIOUS
    <3>2. f[k] \in T
      BY <2>2, <3>1
    <3> QED  BY <3>1, <3>2 DEF Steps
  <2>4. next = step[k + 1, f[k]]
    OBVIOUS
  <2> HIDE DEF next
  <2>5. g[k + 1] = next /\ \A i \in 0..k : g[i] = f[i]
    OBVIOUS
  <2>6. g \in [0..(k + 1) -> T]
    <3>1. \A i \in 0..(k + 1) : i # k + 1 => i \in 0..k
      OBVIOUS
    <3> QED  BY <2>2, <2>3, <3>1
  <2> HIDE DEF g
  <2>7. ASSUME NEW i \in 1..(k + 1) PROVE g[i] = step[i, g[i - 1]]
    <3>1. CASE i = k + 1
      <4>1. i - 1 = k /\ k \in 0..k
        BY <3>1
      <4> QED  BY <2>4, <2>5, <3>1, <4>1
    <3>2. CASE i # k + 1
      <4>1. i \in 1..k /\ i \in 0..k /\ i - 1 \in 0..k
        BY <3>2
      <4> QED  BY <2>2, <2>5, <4>1
    <3> QED  BY <3>1, <3>2
  <2>8. g[0] = start
    <3>1. 0 \in 0..k
      OBVIOUS
    <3> QED  BY <2>2, <2>5, <3>1
  <2>9. Goes(g, k + 1)
    BY <2>6, <2>7, <2>8 DEF ByRecursion
  <2> HIDE DEF Goes
  <2> QED  BY <2>9
<1>3. n \in S
  <2> HIDE DEF S
  <2> QED  BY <1>1, <1>2, Numbers
<1> HIDE DEF Goes
<1>4. PICK f : Goes(f, n)
  BY <1>3
<1> QED  BY <1>4 DEF Goes

=============================================================================
