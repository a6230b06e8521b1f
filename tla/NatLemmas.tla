----------------------------- MODULE NatLemmas -----------------------------
(***************************************************************************)
(* The least number of a set and induction over the numbers, stated for    *)
(* sets so that they can be used by name.                                  *)
(***************************************************************************)
EXTENDS Naturals, WellFoundedInduction, TLAPS

(* A set of numbers that is not empty has a least element. *)
LEMMA LeastNat ==
  ASSUME NEW S, S \subseteq Nat, S # {}
  PROVE  \E m \in S : \A k \in S : m <= k
<1> DEFINE R == OpToRel(<, Nat)
<1>1. IsWellFoundedOn(R, Nat)
  BY NatLessThanWellFounded
<1> HIDE DEF R
<1>2. PICK m \in S : \A k \in S : ~(<<k, m>> \in R)
  BY <1>1, WFMin
<1>3. ASSUME NEW k \in S, k < m PROVE FALSE
  <2>1. <<k, m>> \in R
    BY <1>3 DEF R, OpToRel
  <2>2. QED
    BY <1>2, <2>1
<1>4. QED
  BY <1>2, <1>3

(* A set that contains 0 and with every number the next one contains all. *)
LEMMA NatSetInduction ==
  ASSUME NEW S, 0 \in S, \A n \in Nat : n \in S => n + 1 \in S
  PROVE  Nat \subseteq S
<1>1. SUFFICES ASSUME ~(Nat \subseteq S) PROVE FALSE
  OBVIOUS
<1>2. PICK m \in Nat \ S : \A k \in Nat \ S : m <= k
  <2>1. Nat \ S \subseteq Nat /\ Nat \ S # {}
    BY <1>1
  <2>2. QED
    BY <2>1, LeastNat
<1>3. m - 1 \in Nat /\ m - 1 \in S
  <2>1. m - 1 \in Nat /\ ~(m <= m - 1)
    BY <1>2
  <2>2. QED
    BY <1>2, <2>1
<1>4. QED
  BY <1>2, <1>3

(* f begins with z, and g[k] leads from its value at k to the next.        *)
IsSteps(g, T) == g \in [Nat -> [T -> T]]
Follows(f, z, g, T) == f \in [Nat -> T] /\ f[0] = z /\ \A k \in Nat : f[k + 1] = g[k][f[k]]

(* A function may be defined by what it is at 0 and how each value follows *)
(* from the one before.                                                    *)
LEMMA Recursion ==
  ASSUME NEW T, NEW z, NEW g, z \in T, IsSteps(g, T)
  PROVE  \E f : Follows(f, z, g, T)
<1> USE DEF IsSteps
<1> DEFINE Approx(h, n) == /\ h \in [0 .. n -> T] /\ h[0] = z
                           /\ \A k \in Nat : k < n => h[k + 1] = g[k][h[k]]
           Has == {n \in Nat : \E h : Approx(h, n)}
<1>1. Nat \subseteq Has
  <2>1. 0 \in Has
    <3>1. Approx([k \in 0 .. 0 |-> z], 0)
      OBVIOUS
    <3>2. QED
      BY <3>1
  <2>2. ASSUME NEW n \in Nat, n \in Has PROVE n + 1 \in Has
    <3>1. PICK h : Approx(h, n)
      BY <2>2
    <3> DEFINE e == [k \in 0 .. (n + 1) |-> IF k <= n THEN h[k] ELSE g[n][h[n]]]
    <3>2. e \in [0 .. (n + 1) -> T]
      BY <3>1
    <3>3. e[0] = z
      BY <3>1
    <3>4. ASSUME NEW k \in Nat, k < n + 1 PROVE e[k + 1] = g[k][e[k]]
      <4>1. CASE k < n
        <5>1. e[k] = h[k] /\ e[k + 1] = h[k + 1]
          BY <4>1
        <5>2. h[k + 1] = g[k][h[k]]
          BY <3>1, <4>1
        <5> HIDE DEF e
        <5>3. QED
          BY <5>1, <5>2
      <4>2. CASE k = n
        <5>1. e[n] = h[n] /\ e[n + 1] = g[n][h[n]]
          OBVIOUS
        <5> HIDE DEF e
        <5>2. QED
          BY <4>2, <5>1
      <4>3. QED
        BY <3>4, <4>1, <4>2
    <3> HIDE DEF e
    <3>5. Approx(e, n + 1)
      BY <3>2, <3>3, <3>4
    <3>6. QED
      BY <3>5
  <2> HIDE DEF Has
  <2>3. QED
    BY <2>1, <2>2, NatSetInduction
<1>2. ASSUME NEW n \in Nat, NEW m \in Nat, NEW h, NEW e, Approx(h, n), Approx(e, m), NEW k \in Nat, k <= n, k <= m
      PROVE  h[k] = e[k]
  <2> DEFINE Same == {j \in Nat : j <= n /\ j <= m => h[j] = e[j]}
  <2>1. 0 \in Same
    BY <1>2
  <2>2. ASSUME NEW j \in Nat, j \in Same PROVE j + 1 \in Same
    <3>1. SUFFICES ASSUME j + 1 <= n, j + 1 <= m PROVE h[j + 1] = e[j + 1]
      OBVIOUS
    <3>2. j < n /\ j < m /\ h[j] = e[j]
      BY <2>2, <3>1
    <3>3. h[j + 1] = g[j][h[j]] /\ e[j + 1] = g[j][e[j]]
      BY <1>2, <3>2
    <3>4. QED
      BY <3>2, <3>3
  <2> HIDE DEF Same
  <2>3. Nat \subseteq Same
    BY <2>1, <2>2, NatSetInduction
  <2>4. k \in Same
    BY <2>3
  <2>5. QED
    BY <1>2, <2>4 DEF Same
<1> DEFINE f == [n \in Nat |-> (CHOOSE h : Approx(h, n))[n]]
<1>3. \A n \in Nat : Approx(CHOOSE h : Approx(h, n), n)
  <2> HIDE DEF Approx
  <2>1. \A n \in Nat : \E h : Approx(h, n)
    BY <1>1
  <2>2. QED
    BY <2>1
<1> HIDE DEF Has
<1>4. f \in [Nat -> T] /\ f[0] = z
  <2> DEFINE best(n) == CHOOSE h : Approx(h, n)
  <2>1. \A n \in Nat : Approx(best(n), n)
    BY <1>3
  <2> HIDE DEF best
  <2>2. \A n \in Nat : best(n)[n] \in T
    BY <2>1
  <2>3. best(0)[0] = z
    BY <2>1
  <2>4. f = [n \in Nat |-> best(n)[n]]
    BY DEF best
  <2> HIDE DEF f
  <2>5. QED
    BY <2>2, <2>3, <2>4
<1>5. ASSUME NEW k \in Nat PROVE f[k + 1] = g[k][f[k]]
  <2>1. PICK h : h = CHOOSE d : Approx(d, k)
    OBVIOUS
  <2>2. PICK e : e = CHOOSE d : Approx(d, k + 1)
    OBVIOUS
  <2>3. Approx(h, k) /\ Approx(e, k + 1) /\ f[k] = h[k] /\ f[k + 1] = e[k + 1]
    <3> HIDE DEF Approx
    <3>1. QED
      BY <1>3, <2>1, <2>2
  <2>4. h[k] = e[k]
    <3> HIDE DEF Approx, f
    <3>1. QED
      BY <1>2, <2>3
  <2>5. e[k + 1] = g[k][e[k]]
    BY <2>3
  <2> HIDE DEF f
  <2>6. QED
    BY <2>3, <2>4, <2>5
<1> HIDE DEF f
<1>6. QED
  BY <1>4, <1>5 DEF Follows
=============================================================================
