------------------------------ MODULE LeastNumber ------------------------------
(***************************************************************************)
(* Every set of natural numbers has a least element, induction from it,    *)
(* and functions defined along the numbers: the library's theorems take a  *)
(* predicate or an operator, these a set or a function, which the provers  *)
(* can instantiate.                                                        *)
(***************************************************************************)
EXTENDS Naturals, WellFoundedInduction, TLAPS

\* Less-than on the natural numbers, as the relation the library knows to be well-founded.
LessThan == OpToRel(<, Nat)

\* The relation is what its name says.
LEMMA LessThanPair == \A x, y \in Nat : <<x, y>> \in LessThan <=> x < y
  <1>1. LessThan = {p \in Nat \X Nat : p[1] < p[2]}
    BY Zenon DEF LessThan, OpToRel
  <1>2. QED
    BY <1>1

\* A set of natural numbers that is not empty has one that is not above any.
LEMMA LeastExists ==
    ASSUME NEW S \in SUBSET Nat, S # {}
    PROVE  \E x \in S : \A y \in S : x <= y
  <1>1. IsWellFoundedOn(LessThan, Nat)
    BY NatLessThanWellFounded, Zenon DEF LessThan
  <1>2. PICK x \in S : \A y \in S : <<y, x>> \notin LessThan
    BY <1>1, WFMin
  <1>3. ASSUME NEW y \in S PROVE x <= y
    <2>1. x \in Nat /\ y \in Nat
      OBVIOUS
    <2>2. ~(y < x)
      BY <1>2, <2>1, LessThanPair
    <2>3. QED
      BY <2>1, <2>2
  <1>4. QED
    BY <1>3

\* A set with 0 and with the successor of each of its numbers has all numbers.
LEMMA InductionOnSet ==
    ASSUME NEW S, 0 \in S, \A n \in Nat : n \in S => n + 1 \in S
    PROVE  \A n \in Nat : n \in S
  <1> DEFINE Out == {n \in Nat : n \notin S}
  <1>1. SUFFICES ASSUME Out # {} PROVE FALSE
    OBVIOUS
  <1>2. PICK least \in Out : \A n \in Out : least <= n
    BY <1>1, LeastExists
  <1>3. least \in Nat /\ least - 1 \in Nat /\ ~(least <= least - 1)
    BY <1>2
  <1>4. least - 1 \in S
    BY <1>2, <1>3
  <1>5. QED
    BY <1>2, <1>3, <1>4

\* A sequence of steps, each from where the one before it came to, can be taken from any value.
LEMMA IterationExists ==
    ASSUME NEW D, NEW base \in D, NEW max \in Nat, NEW step \in [1 .. max -> [D -> D]]
    PROVE  \E f \in [0 .. max -> D] : f[0] = base /\ \A n \in 1 .. max : f[n] = step[n][f[n - 1]]
  <1> DEFINE Takes(k, f) == f[0] = base /\ \A n \in 1 .. k : f[n] = step[n][f[n - 1]]
             Taken == {k \in Nat : k <= max => \E f \in [0 .. k -> D] : Takes(k, f)}
  <1>1. 0 \in Taken
    <2> DEFINE f == [n \in 0 .. 0 |-> base]
    <2>1. f \in [0 .. 0 -> D] /\ f[0] = base
      OBVIOUS
    <2> HIDE DEF f
    <2>2. Takes(0, f)
      BY <2>1
    <2>3. QED
      BY <2>1, <2>2
  <1>2. ASSUME NEW k \in Nat, k \in Taken PROVE k + 1 \in Taken
    <2>1. SUFFICES ASSUME k + 1 <= max PROVE \E f \in [0 .. k + 1 -> D] : Takes(k + 1, f)
      OBVIOUS
    <2>2. PICK g \in [0 .. k -> D] : Takes(k, g)
      BY <1>2, <2>1
    <2>3. k + 1 \in 1 .. max /\ g[k] \in D
      BY <2>1, <2>2
    <2> DEFINE f == [n \in 0 .. k + 1 |-> IF n = k + 1 THEN step[k + 1][g[k]] ELSE g[n]]
    <2>4. f \in [0 .. k + 1 -> D]
      BY <2>2, <2>3
    <2>5. f[0] = base /\ f[k + 1] = step[k + 1][g[k]] /\ \A n \in 0 .. k : f[n] = g[n]
      BY <2>2
    <2> HIDE DEF f
    <2>6. ASSUME NEW n \in 1 .. k + 1 PROVE f[n] = step[n][f[n - 1]]
      <3>1. CASE n = k + 1
        BY <2>5, <3>1
      <3>2. CASE n # k + 1
        <4>1. n \in 1 .. k /\ n - 1 \in 0 .. k /\ n \in 0 .. k
          BY <3>2
        <4>2. g[n] = step[n][g[n - 1]]
          BY <2>2, <4>1
        <4>3. QED
          BY <2>5, <4>1, <4>2
      <3>3. QED
        BY <3>1, <3>2
    <2>7. QED
      BY <2>4, <2>5, <2>6
  <1> HIDE DEF Taken
  <1>3. \A k \in Nat : k \in Taken
    BY <1>1, <1>2, InductionOnSet
  <1>4. QED
    BY <1>3 DEF Taken
===============================================================================
