------------------------------ MODULE Induction ------------------------------
(* Induction over the rounds of a loop, as statements about sets: the      *)
(* smallest member of a set of numbers, induction over 0 .. n, and a       *)
(* function defined by recursion over 0 .. n.                              *)
EXTENDS Integers, WellFoundedInduction, TLAPS

(* Every set of natural numbers that is not empty has a smallest member.   *)
LEMMA SmallestMember ==
  ASSUME NEW T, T \subseteq Nat, T # {}
  PROVE  \E x \in T : \A y \in T : x <= y
<1> DEFINE R == OpToRel(<, Nat)
<1>1. \E x \in T : \A y \in T : <<y, x>> \notin R
  <2>1. IsWellFoundedOn(R, Nat)
    BY NatLessThanWellFounded
  <2> HIDE DEF R
  <2> QED  BY <2>1, WFMin
<1>2. \A x, y \in Nat : <<y, x>> \in R <=> y < x
  BY DEF OpToRel
<1> HIDE DEF R
<1>3. PICK x \in T : \A y \in T : <<y, x>> \notin R
  BY <1>1
<1>4. ASSUME NEW y \in T PROVE x <= y
  <2>1. x \in Nat /\ y \in Nat
    OBVIOUS
  <2>2. ~(y < x)
    BY <1>2, <1>3, <2>1
  <2> QED  BY <2>1, <2>2
<1> QED  BY <1>4

(* Induction over 0 .. n.                                                  *)
LEMMA SetInduction ==
  ASSUME NEW n \in Nat, NEW T, 0 \in T, \A i \in 1 .. n : i - 1 \in T => i \in T
  PROVE  0 .. n \subseteq T
<1> DEFINE B == {i \in 0 .. n : i \notin T}
<1>1. ASSUME B # {} PROVE FALSE
  <2>1. PICK i \in B : \A j \in B : i <= j
    <3>1. B \subseteq Nat
      OBVIOUS
    <3> HIDE DEF B
    <3> QED  BY <1>1, <3>1, SmallestMember
  <2>2. i \in 1 .. n /\ i - 1 \in 0 .. n
    BY <2>1
  <2>3. i - 1 \in T
    BY <2>1, <2>2
  <2> QED  BY <2>1, <2>2, <2>3
<1> QED  BY <1>1

(* What a definition by recursion over 0 .. n, each value made from the    *)
(* one before, yields: a function that obeys its equation.  F lists what   *)
(* each round makes of every value that can come up.  The hypothesis and   *)
(* the conclusion have names so that the provers can match them.           *)
ClosedUnder(n, S, F) == \A i \in 1 .. n : \A s \in S : F[i][s] \in S
IsRounds(g, n, S, s0, F) ==
  g \in [0 .. n -> S] /\ g[0] = s0 /\ \A i \in 1 .. n : g[i] = F[i][g[i - 1]]

LEMMA RoundsExist ==
  ASSUME NEW n \in Nat, NEW S, NEW s0 \in S, NEW F, ClosedUnder(n, S, F)
  PROVE  \E g : IsRounds(g, n, S, s0, F)
<1> USE DEF ClosedUnder, IsRounds
<1> DEFINE T == {m \in 0 .. n : \E g \in [0 .. m -> S] :
                   g[0] = s0 /\ \A i \in 1 .. m : g[i] = F[i][g[i - 1]]}
<1>1. 0 \in T
  <2> DEFINE g == [i \in 0 .. 0 |-> s0]
  <2>1. g \in [0 .. 0 -> S] /\ g[0] = s0 /\ 1 .. 0 = {}
    OBVIOUS
  <2> HIDE DEF g
  <2>2. \A i \in 1 .. 0 : g[i] = F[i][g[i - 1]]
    BY <2>1
  <2> QED  BY <2>1, <2>2
<1>2. ASSUME NEW m \in 1 .. n, m - 1 \in T PROVE m \in T
  <2>1. PICK g \in [0 .. m - 1 -> S] :
          g[0] = s0 /\ \A i \in 1 .. m - 1 : g[i] = F[i][g[i - 1]]
    BY <1>2
  <2> DEFINE h == [i \in 0 .. m |-> IF i = m THEN F[m][g[m - 1]] ELSE g[i]]
  <2>2. F[m][g[m - 1]] \in S
    OBVIOUS
  <2>3. h \in [0 .. m -> S] /\ h[0] = s0
    BY <2>1, <2>2
  <2>4. \A i \in 1 .. m : h[i] = F[i][h[i - 1]]
    BY <2>1
  <2> HIDE DEF h
  <2> QED  BY <2>3, <2>4
<1>3. n \in T
  <2> HIDE DEF T
  <2>1. 0 .. n \subseteq T
    BY <1>1, <1>2, SetInduction
  <2> QED  BY <2>1
<1> QED  BY <1>3
=============================================================================
