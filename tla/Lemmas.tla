------------------------------- MODULE Lemmas -------------------------------
(***************************************************************************)
(* Facts about numbers and recursive functions that the proofs of several  *)
(* components need.                                                        *)
(***************************************************************************)
EXTENDS Integers, FiniteSetsExt, WellFoundedInduction, TLAPS

(* A set of naturals that is not empty has a least element.                 *)
LEMMA MinNat ==
  ASSUME NEW S \in SUBSET Nat, S # {}
  PROVE  Min(S) \in S /\ \A y \in S : Min(S) <= y
<1>1. PICK x \in S : \A y \in S : ~(<<y, x>> \in OpToRel(<, Nat))
  BY WFMin, NatLessThanWellFounded, Zenon
<1>2. \A y \in S : ~(y < x)
  BY <1>1, Zenon DEF OpToRel
<1>3. \A y \in S : x <= y
  BY <1>2
<1> QED
  BY <1>3 DEF Min

(* And if it is bounded, a greatest one.                                    *)
LEMMA MaxIndex ==
  ASSUME NEW n \in Nat, NEW S \in SUBSET (1..n), S # {}
  PROVE  Max(S) \in S /\ \A y \in S : Max(S) >= y
<1> DEFINE T == {n - y : y \in S}
<1>1. T \in SUBSET Nat /\ T # {}
  <2>1. \A y \in S : n - y \in Nat
    <3>1. \A y \in 1..n : n - y \in Nat
      OBVIOUS
    <3> QED
      BY <3>1
  <2> QED
    BY <2>1
<1>2. Min(T) \in T /\ \A x \in T : Min(T) <= x
  <2> HIDE DEF T
  <2> QED
    BY <1>1, MinNat
<1>3. PICK y \in S : Min(T) = n - y
  BY <1>2
<1>4. \A z \in S : z <= y
  <2> TAKE z \in S
  <2>1. n - z \in T /\ n - y <= n - z
    BY <1>2, <1>3
  <2> QED
    BY <2>1
<1>5. \E x \in S : \A z \in S : x >= z
  BY <1>4
<1> QED
  BY <1>5 DEF Max

(* A step repeated n times: the values it goes through.                     *)
Repeats(f, S, base, n, g) ==
  /\ f \in [0..n -> S]
  /\ f = [i \in 0..n |-> IF i = 0 THEN base ELSE g[<<i, f[i - 1]>>]]

LEMMA RepetitionExists ==
  ASSUME NEW S, NEW base \in S, NEW n \in Nat, NEW g \in [(1..n) \X S -> S]
  PROVE  \E f : Repeats(f, S, base, n, g)
<1> DEFINE Upto(f, m) == /\ f \in [0..m -> S] /\ f[0] = base
                         /\ \A i \in 1..m : f[i] = g[<<i, f[i - 1]>>]
           T == {m \in 0..n : ~\E f : Upto(f, m)}
<1>1. ASSUME T # {} PROVE FALSE
  <2>1. T \in SUBSET Nat
    OBVIOUS
  <2>2. Min(T) \in T /\ \A y \in T : Min(T) <= y
    <3> HIDE DEF T
    <3> QED
      BY <1>1, <2>1, MinNat
  <2>3. PICK m \in T : \A y \in T : m <= y
    BY <2>2
  <2>4. CASE m = 0
    <3> DEFINE f == [i \in 0..0 |-> base]
    <3>1. Upto(f, 0)
      OBVIOUS
    <3> QED
      BY <2>3, <2>4, <3>1
  <2>5. CASE m # 0
    <3>1. m \in 1..n /\ m - 1 \in 0..n /\ m - 1 \notin T
      BY <2>3, <2>5
    <3>2. PICK f : Upto(f, m - 1)
      BY <3>1
    <3> DEFINE h == [i \in 0..m |-> IF i = m THEN g[<<m, f[m - 1]>>] ELSE f[i]]
    <3>3. f[m - 1] \in S /\ g[<<m, f[m - 1]>>] \in S
      BY <3>1, <3>2
    <3>4. \A i \in 0..m : i # m => i \in 0..(m - 1) /\ h[i] = f[i] /\ f[i] \in S
      BY <3>1, <3>2
    <3>5. h[m] = g[<<m, f[m - 1]>>]
      BY <3>1
    <3>6. h \in [0..m -> S]
      BY <3>2, <3>3, <3>4
    <3>7. h[0] = base
      BY <2>5, <3>1, <3>2, <3>4
    <3> HIDE DEF h
    <3>8. ASSUME NEW i \in 1..m PROVE h[i] = g[<<i, h[i - 1]>>]
      <4>1. i - 1 \in 0..m /\ i - 1 # m
        BY <3>1
      <4>2. CASE i = m
        BY <3>4, <3>5, <4>1, <4>2
      <4>3. CASE i # m
        <5>1. i \in 1..(m - 1) /\ i \in 0..m
          BY <3>1, <4>3
        <5> QED
          BY <3>2, <3>4, <4>1, <4>3, <5>1
      <4> QED
        BY <4>2, <4>3
    <3>9. Upto(h, m)
      BY <3>6, <3>7, <3>8
    <3> QED
      BY <2>3, <3>9
  <2> QED
    BY <2>4, <2>5
<1>2. n \in 0..n
  OBVIOUS
<1>3. PICK f : Upto(f, n)
  BY <1>1, <1>2
<1>4. \A i \in 0..n : f[i] = IF i = 0 THEN base ELSE g[<<i, f[i - 1]>>]
  BY <1>3
<1>5. f = [i \in 0..n |-> IF i = 0 THEN base ELSE g[<<i, f[i - 1]>>]]
  <2>1. f = [i \in 0..n |-> f[i]]
    BY <1>3
  <2> QED
    BY <1>4, <2>1
<1> QED
  BY <1>3, <1>5 DEF Repeats
-----------------------------------------------------------------------------
(* Quotients and remainders.                                                *)
LEMMA Division ==
  ASSUME NEW m \in Nat \ {0}, NEW a \in Nat
  PROVE  /\ a \div m \in Nat /\ a % m \in 0..(m - 1)
         /\ a = (m * (a \div m)) + (a % m)
<1>1. a = (m * (a \div m)) + (a % m)
  BY Z3
<1>2. a \div m \in Nat /\ a % m \in 0..(m - 1)
  BY Z3
<1> QED
  BY <1>1, <1>2

LEMMA RemainderUnique ==
  ASSUME NEW m \in Nat \ {0}, NEW q \in Int, NEW r \in 0..(m - 1), NEW a \in Int,
         a = (m * q) + r
  PROVE  a % m = r
BY Z3

LEMMA QuotientUnique ==
  ASSUME NEW m \in Nat \ {0}, NEW q \in Nat, NEW r \in 0..(m - 1), NEW a \in Nat,
         a = (m * q) + r
  PROVE  a \div m = q
BY Z3

LEMMA RemainderOfSum ==
  ASSUME NEW m \in Nat \ {0}, NEW a \in Nat, NEW b \in Nat
  PROVE  ((a % m) + b) % m = (a + b) % m
<1> DEFINE q == a \div m
           r == a % m
           c == r + b
           p == c \div m
           s == c % m
<1>1. q \in Nat /\ r \in 0..(m - 1) /\ a = (m * q) + r
  BY Division
<1>2. p \in Nat /\ s \in 0..(m - 1) /\ c = (m * p) + s
  <2>1. c \in Nat
    <3> HIDE DEF r
    <3> QED
      BY <1>1
  <2> HIDE DEF c
  <2> QED
    BY <2>1, Division
<1> HIDE DEF q, r, p, s
<1>3. a + b = (m * (q + p)) + s
  BY <1>1, <1>2
<1>4. (a + b) % m = s
  <2>1. q + p \in Int /\ a + b \in Int
    BY <1>1, <1>2
  <2> HIDE DEF c
  <2> QED
    BY <1>2, <1>3, <2>1, RemainderUnique
<1> QED
  BY <1>4 DEF r, s
=============================================================================
