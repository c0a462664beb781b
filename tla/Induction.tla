----------------------------- MODULE Induction -----------------------------
(***************************************************************************)
(* Induction over the natural numbers, stated with a set instead of a      *)
(* predicate, and recursion, with a function instead of an operator: what  *)
(* the recursive functions of the models define is shown with them.        *)
(***************************************************************************)
EXTENDS NaturalsInduction, WellFoundedInduction, TLAPS

(* A set of numbers with zero, and with the next of each of its members,   *)
(* has them all: the smallest that is missing would follow one that is not.*)
LEMMA SetInduction ==
    ASSUME NEW S \in SUBSET Nat, 0 \in S, \A k \in S : k + 1 \in S
    PROVE  S = Nat
<1> DEFINE R == {ss \in Nat \X Nat : ss[1] < ss[2]}
           T == Nat \ S
<1> SUFFICES ASSUME T # {} PROVE FALSE
    OBVIOUS
<1>1. IsWellFoundedOn(R, Nat)
  BY NatLessThanWellFounded DEF OpToRel
<1>2. T \subseteq Nat
  OBVIOUS
<1> HIDE DEF R, T
<1>3. PICK x \in T : \A y \in T : ~(<<y, x>> \in R)
  BY <1>1, <1>2, WFMin
<1>4. x \in Nat /\ x \notin S /\ x # 0
  BY <1>3 DEF T
<1>5. x - 1 \in Nat /\ x - 1 \notin S
  <2>1. x - 1 \in Nat /\ (x - 1) + 1 = x
    BY <1>4
  <2> QED BY <1>4, <2>1
<1>6. x - 1 \in T /\ <<x - 1, x>> \in R
  BY <1>4, <1>5 DEF T, R
<1> QED BY <1>3, <1>6

(* A function that starts with b and whose every value is what F makes of  *)
(* its place and of the value before.                                      *)
Makes(F, n, T) == F \in [(1 .. n) \X T -> T]
Follows(f, F, n, T, b) ==
    f \in [0 .. n -> T] /\ f[0] = b /\ \A i \in 1 .. n : f[i] = F[<<i, f[i - 1]>>]

LEMMA Recursion ==
    ASSUME NEW n \in Nat, NEW T, NEW b \in T, NEW F, Makes(F, n, T)
    PROVE  \E f : Follows(f, F, n, T, b)
<1> DEFINE Upto(f, m) == f[0] = b /\ \A i \in 1 .. m : f[i] = F[<<i, f[i - 1]>>]
           S == {m \in Nat : m <= n => \E f \in [0 .. m -> T] : Upto(f, m)}
<1>1. 0 \in S
  <2>1. [i \in 0 .. 0 |-> b] \in [0 .. 0 -> T] /\ Upto([i \in 0 .. 0 |-> b], 0)
    OBVIOUS
  <2> QED BY <2>1
<1>2. ASSUME NEW m \in S PROVE m + 1 \in S
  <2>1. m \in Nat /\ m + 1 \in Nat
    OBVIOUS
  <2> SUFFICES ASSUME m + 1 <= n PROVE \E f \in [0 .. m + 1 -> T] : Upto(f, m + 1)
      BY <2>1
  <2>2. PICK f \in [0 .. m -> T] : Upto(f, m)
    BY <2>1
  <2>3. m + 1 \in 1 .. n /\ m \in 0 .. m /\ f[m] \in T
    BY <2>1
  <2>4. PICK v \in T : v = F[<<m + 1, f[m]>>]
    BY <2>3 DEF Makes
  <2> DEFINE h == [i \in 0 .. m + 1 |-> IF i = m + 1 THEN v ELSE f[i]]
  <2>5. h \in [0 .. m + 1 -> T]
    BY <2>1
  <2>6. h[m + 1] = v /\ \A i \in 0 .. m : h[i] = f[i]
    BY <2>1
  <2> HIDE DEF h
  <2>7. h[0] = b
    BY <2>1, <2>2, <2>6
  <2>8. ASSUME NEW i \in 1 .. m + 1 PROVE h[i] = F[<<i, h[i - 1]>>]
    <3>1. CASE i = m + 1
      <4>1. i - 1 = m
        BY <2>1, <3>1
      <4>2. h[i - 1] = f[m]
        BY <2>3, <2>6, <4>1
      <4> QED BY <2>4, <2>6, <3>1, <4>2
    <3>2. CASE i # m + 1
      <4>1. i \in 1 .. m /\ i \in 0 .. m /\ i - 1 \in 0 .. m
        BY <2>1, <3>2
      <4>2. f[i] = F[<<i, f[i - 1]>>]
        BY <2>2, <4>1
      <4> QED BY <2>6, <4>1, <4>2
    <3> QED BY <3>1, <3>2
  <2> QED BY <2>5, <2>7, <2>8
<1>3. S = Nat
  <2> HIDE DEF Upto
  <2>1. S \in SUBSET Nat
    OBVIOUS
  <2> HIDE DEF S
  <2> QED BY <1>1, <1>2, <2>1, SetInduction
<1>4. n \in S
  BY <1>3
<1> QED BY <1>4 DEF Follows

(* Two functions that start alike, and agree after every place at which    *)
(* they agree, are the same.                                               *)
Agrees(f, g, n) ==
    /\ f = [i \in 0 .. n |-> f[i]] /\ g = [i \in 0 .. n |-> g[i]]
    /\ f[0] = g[0] /\ \A i \in 1 .. n : f[i - 1] = g[i - 1] => f[i] = g[i]

LEMMA Agreement ==
    ASSUME NEW n \in Nat, NEW f, NEW g, Agrees(f, g, n)
    PROVE  f = g
<1>0. /\ f = [i \in 0 .. n |-> f[i]] /\ g = [i \in 0 .. n |-> g[i]]
      /\ f[0] = g[0] /\ \A i \in 1 .. n : f[i - 1] = g[i - 1] => f[i] = g[i]
  BY DEF Agrees
<1> DEFINE S == {m \in Nat : m <= n => f[m] = g[m]}
<1>1. 0 \in S
  BY <1>0
<1>2. ASSUME NEW m \in S PROVE m + 1 \in S
  <2>1. m \in Nat /\ m + 1 \in Nat
    OBVIOUS
  <2>2. ASSUME m + 1 <= n PROVE f[m + 1] = g[m + 1]
    <3>1. m + 1 \in 1 .. n /\ (m + 1) - 1 = m
      BY <2>1, <2>2
    <3>2. f[m] = g[m]
      BY <2>1, <2>2
    <3>3. f[(m + 1) - 1] = g[(m + 1) - 1]
      BY <3>1, <3>2
    <3> QED BY <1>0, <3>1, <3>3
  <2> QED BY <2>1, <2>2
<1>3. S = Nat
  <2>1. S \in SUBSET Nat
    OBVIOUS
  <2> HIDE DEF S
  <2> QED BY <1>1, <1>2, <2>1, SetInduction
<1>4. ASSUME NEW i \in 0 .. n PROVE f[i] = g[i]
  <2>1. i \in S
    <3> HIDE DEF S
    <3> QED BY <1>3
  <2> QED BY <2>1
<1> QED BY <1>0, <1>4

(* Whatever obeys the rule where the rule is known is the function it asks *)
(* for.                                                                    *)
LEMMA Obeying ==
    ASSUME NEW n \in Nat, NEW T, NEW b \in T, NEW F, Makes(F, n, T), NEW g,
           g = [i \in 0 .. n |-> g[i]], g[0] = b,
           \A i \in 1 .. n : g[i - 1] \in T => g[i] = F[<<i, g[i - 1]>>]
    PROVE  Follows(g, F, n, T, b)
<1>1. PICK f : Follows(f, F, n, T, b)
  BY Recursion
<1>2. /\ f \in [0 .. n -> T] /\ f[0] = b /\ \A i \in 1 .. n : f[i] = F[<<i, f[i - 1]>>]
      /\ f = [i \in 0 .. n |-> f[i]]
  BY <1>1 DEF Follows
<1>3. ASSUME NEW i \in 1 .. n, f[i - 1] = g[i - 1] PROVE f[i] = g[i]
  <2>1. f[i - 1] \in T
    BY <1>2
  <2> QED BY <1>2, <1>3, <2>1
<1>4. Agrees(f, g, n)
  BY <1>2, <1>3 DEF Agrees
<1> QED BY <1>1, <1>4, Agreement

=============================================================================
