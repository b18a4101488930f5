----------------------------- MODULE Recursion -----------------------------
(***************************************************************************)
(* Induction and recursion over the natural numbers, stated with sets and   *)
(* functions in place of operators.                                         *)
(***************************************************************************)
EXTENDS Naturals, WellFoundedInduction, NaturalsInduction, TLAPS

LEMMA LeastNatural == ASSUME NEW T, T \subseteq Nat, T # {} PROVE \E m \in T : \A k \in T : m <= k
<1> DEFINE R == {ss \in Nat \X Nat : ss[1] < ss[2]}
<1>1. IsWellFoundedOn(R, Nat)
  BY NatLessThanWellFounded, Zenon DEF OpToRel
<1>2. ASSUME NEW x \in Nat, NEW y \in Nat, x < y PROVE <<x, y>> \in R
  BY <1>2
<1> HIDE DEF R
<1>3. PICK m \in T : \A k \in T : ~ (<<k, m>> \in R)
  BY <1>1, WFMin
<1>4. \A k \in T : ~(k < m)
  BY <1>2, <1>3
<1>5. \A k \in T : m <= k
  BY <1>4
<1> QED BY <1>5

\* Induction over the naturals, with a set for the predicate.
LEMMA SetInduction == ASSUME NEW P, 0 \in P, \A n \in Nat : n \in P => n + 1 \in P PROVE Nat \subseteq P
<1> SUFFICES ASSUME ~(Nat \subseteq P) PROVE FALSE
  OBVIOUS
<1> DEFINE T == Nat \ P
<1>1. PICK m \in T : \A k \in T : m <= k
  BY LeastNatural
<1>2. m \in Nat \ {0}
  OBVIOUS
<1>3. m - 1 \in Nat /\ ~(m <= m - 1) /\ m - 1 + 1 = m
  BY <1>2
<1>4. m - 1 \in P
  BY <1>1, <1>3
<1>5. m \in P
  BY <1>3, <1>4
<1> QED BY <1>5

\* A function on the naturals that is defined by recursion from a step in S exists.
RecursionUpTo(S, base, d, n) == {g \in [0..n -> S] : g[0] = base /\ \A i \in 1..n : g[i] = d[<<g[i - 1], i>>]}

LEMMA RecursionIsUnique ==
  ASSUME NEW S, NEW base, NEW d, NEW n \in Nat, NEW k \in Nat, n <= k,
         NEW g \in RecursionUpTo(S, base, d, n), NEW h \in RecursionUpTo(S, base, d, k)
  PROVE  \A i \in 0..n : g[i] = h[i]
<1> DEFINE P == {i \in Nat : i <= n => g[i] = h[i]}
<1>1. 0 \in P
  BY DEF RecursionUpTo
<1>2. ASSUME NEW i \in Nat, i \in P PROVE i + 1 \in P
  <2> SUFFICES ASSUME i + 1 <= n PROVE g[i + 1] = h[i + 1]
    OBVIOUS
  <2>1. g[i] = h[i] /\ i + 1 \in 1..n /\ i + 1 \in 1..k /\ i + 1 - 1 = i
    BY <1>2
  <2>2. g[i + 1] = d[<<g[i], i + 1>>] /\ h[i + 1] = d[<<h[i], i + 1>>]
    BY <2>1 DEF RecursionUpTo
  <2> QED BY <2>1, <2>2
<1> HIDE DEF P
<1>3. Nat \subseteq P
  BY <1>1, <1>2, SetInduction
<1> QED BY <1>3 DEF P

Recurses(S, base, d) == \E f \in [Nat -> S] : \A n \in Nat : f[n] = IF n = 0 THEN base ELSE d[<<f[n - 1], n>>]

LEMMA RecursionExists ==
  ASSUME NEW S, NEW base \in S, NEW d \in [S \X Nat -> S]
  PROVE  Recurses(S, base, d)
<1> DEFINE A(n) == RecursionUpTo(S, base, d, n)
           P == {n \in Nat : A(n) # {}}
<1>1. 0 \in P
  <2>1. [i \in 0..0 |-> base] \in A(0)
    BY DEF RecursionUpTo
  <2> QED BY <2>1
<1>2. ASSUME NEW n \in Nat, n \in P PROVE n + 1 \in P
  <2>1. PICK g : g \in A(n)
    BY <1>2
  <2> DEFINE h == [i \in 0..n + 1 |-> IF i = n + 1 THEN d[<<g[n], n + 1>>] ELSE g[i]]
  <2>2. g \in [0..n -> S] /\ g[0] = base /\ \A i \in 1..n : g[i] = d[<<g[i - 1], i>>]
    BY <2>1 DEF RecursionUpTo
  <2>3. d[<<g[n], n + 1>>] \in S
    BY <2>2
  <2>4. h \in [0..n + 1 -> S]
    BY <2>2, <2>3
  <2>5. h[0] = base
    BY <2>2
  <2>6. ASSUME NEW i \in 1..n + 1 PROVE h[i] = d[<<h[i - 1], i>>]
    <3>1. CASE i = n + 1
      <4>1. h[i] = d[<<g[n], n + 1>>] /\ h[i - 1] = g[n]
        BY <3>1
      <4> QED BY <3>1, <4>1
    <3>2. CASE i # n + 1
      <4>1. i \in 1..n /\ i - 1 \in 0..n
        BY <3>2
      <4>2. h[i] = g[i] /\ h[i - 1] = g[i - 1]
        BY <4>1
      <4> QED BY <2>2, <4>1, <4>2
    <3> QED BY <3>1, <3>2
  <2> HIDE DEF h
  <2>7. h \in A(n + 1)
    BY <2>4, <2>5, <2>6 DEF RecursionUpTo
  <2> QED BY <2>7
<1>3. Nat \subseteq P
  <2> HIDE DEF P
  <2> QED BY <1>1, <1>2, SetInduction
<1> DEFINE G(n) == CHOOSE g : g \in A(n)
           f == [n \in Nat |-> G(n)[n]]
<1>4. ASSUME NEW n \in Nat PROVE G(n) \in A(n)
  BY <1>3
<1> HIDE DEF G, P
<1>5. ASSUME NEW n \in Nat PROVE f[n] \in S
  BY <1>4 DEF RecursionUpTo
<1>6. ASSUME NEW n \in Nat PROVE f[n] = IF n = 0 THEN base ELSE d[<<f[n - 1], n>>]
  <2>1. CASE n = 0
    BY <1>4, <2>1 DEF RecursionUpTo
  <2>2. CASE n # 0
    <3>1. n - 1 \in Nat /\ n - 1 <= n /\ n - 1 \in 0..n - 1 /\ n \in 1..n
      BY <2>2
    <3>2. G(n - 1) \in A(n - 1) /\ G(n) \in A(n)
      BY <1>4, <3>1
    <3>3. G(n - 1)[n - 1] = G(n)[n - 1]
      BY <3>1, <3>2, RecursionIsUnique
    <3>4. G(n)[n] = d[<<G(n)[n - 1], n>>]
      BY <3>1, <3>2 DEF RecursionUpTo
    <3> QED BY <2>2, <3>1, <3>3, <3>4
  <2> QED BY <2>1, <2>2
<1> HIDE DEF f
<1>7. f \in [Nat -> S]
  BY <1>5 DEF f
<1> QED BY <1>6, <1>7 DEF Recurses
=============================================================================
