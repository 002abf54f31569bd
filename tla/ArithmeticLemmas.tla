-------------------------- MODULE ArithmeticLemmas --------------------------
(* Facts about the natural numbers that the proofs share. *)
EXTENDS Integers, TLAPS, WellFoundedInduction

(* A non-empty set of natural numbers has a least element. *)
LEMMA LeastElement ==
  ASSUME NEW S \in SUBSET Nat, S # {}
  PROVE  \E m \in S : \A n \in S : m <= n
<1>1. PICK m \in S : \A n \in S : ~ (<<n, m>> \in OpToRel(<, Nat))
  BY WFMin, NatLessThanWellFounded
<1>2. ASSUME NEW n \in S PROVE m <= n
  <2>1. m \in Nat /\ n \in Nat
    OBVIOUS
  <2>2. ~ (n < m)
    BY <1>1, <2>1 DEF OpToRel
  <2> QED BY <2>1, <2>2
<1> QED BY <1>2

(* Multiplication by a natural number is monotonic. *)
LEMMA MulLe ==
  ASSUME NEW d \in Nat, NEW p \in Nat, NEW q \in Nat, p < q
  PROVE  d * p + d <= d * q
<1>1. d * (p + 1) <= d * q
  <2>1. PICK k \in Nat : q = p + 1 + k
    <3>1. q - (p + 1) \in Nat
      OBVIOUS
    <3> QED BY <3>1
  <2>2. d * q = d * (p + 1) + d * k /\ d * k \in Nat
    BY <2>1
  <2> QED BY <2>2
<1> QED BY <1>1

(* A number is its quotient times the divisor plus its remainder. *)
LEMMA DivModEq ==
  ASSUME NEW n \in Nat, NEW d \in Nat \ {0}
  PROVE  /\ n \div d \in Nat /\ (n % d) \in 0 .. d - 1
         /\ n = d * (n \div d) + (n % d)
OBVIOUS

(* Quotient and remainder are determined by that equation. *)
LEMMA DivModUnique ==
  ASSUME NEW d \in Nat \ {0}, NEW q \in Nat, NEW r \in 0 .. d - 1
  PROVE  (d * q + r) \div d = q /\ (d * q + r) % d = r
<1> DEFINE n == d * q + r
<1>1. n \in Nat
  OBVIOUS
<1>2. PICK p \in Nat, s \in 0 .. d - 1 :
        p = n \div d /\ s = n % d /\ d * q + r = d * p + s
  BY <1>1, DivModEq
<1>3. p = q
  <2>1. d * p \in Nat /\ d * q \in Nat
    OBVIOUS
  <2>2. ~ (p < q)
    BY <1>2, <2>1, MulLe
  <2>3. ~ (q < p)
    BY <1>2, <2>1, MulLe
  <2> QED BY <2>2, <2>3
<1> QED BY <1>2, <1>3

(* Reducing a summand first does not change the sum modulo w. *)
LEMMA ModSum ==
  ASSUME NEW w \in Nat \ {0}, NEW x \in Nat, NEW y \in Nat
  PROVE  ((x % w) + y) % w = (x + y) % w
<1>1. PICK q \in Nat, r \in 0 .. w - 1 : x = w * q + r /\ r = x % w
  BY DivModEq
<1>2. PICK p \in Nat, s \in 0 .. w - 1 : r + y = w * p + s /\ s = (r + y) % w
  <2>1. r + y \in Nat
    BY <1>1
  <2> QED BY <2>1, DivModEq
<1>3. x + y = w * (q + p) + s
  <2>1. w * (q + p) = w * q + w * p
    OBVIOUS
  <2>2. w * q \in Int /\ w * p \in Int /\ r \in Int /\ s \in Int
    BY <1>1, <1>2
  <2> DEFINE u == w * q
             v == w * p
  <2>3. x = u + r /\ r + y = v + s /\ u \in Int /\ v \in Int
    BY <1>1, <1>2, <2>2
  <2> HIDE DEF u, v
  <2>4. x + y = u + v + s
    BY <2>2, <2>3
  <2> QED BY <2>1, <2>4 DEF u, v
<1>4. q + p \in Nat
  OBVIOUS
<1>5. (w * (q + p) + s) % w = s
  BY <1>2, <1>4, DivModUnique
<1> QED BY <1>1, <1>2, <1>3, <1>5

(* Fewer than w consecutive numbers are different modulo w. *)
LEMMA ModInjective ==
  ASSUME NEW w \in Nat \ {0}, NEW b \in Nat,
         NEW m \in 0 .. w - 1, NEW n \in 0 .. w - 1, (b + m) % w = (b + n) % w
  PROVE  m = n
<1>0. b + m \in Nat /\ b + n \in Nat
  OBVIOUS
<1>1. PICK q \in Nat, r \in 0 .. w - 1 : b + m = w * q + r /\ r = (b + m) % w
  BY <1>0, DivModEq
<1>2. PICK p \in Nat, s \in 0 .. w - 1 : b + n = w * p + s /\ s = (b + n) % w
  BY <1>0, DivModEq
<1>3. w * q \in Nat /\ w * p \in Nat /\ r = s
  BY <1>1, <1>2
<1>4. ~ (q < p)
  <2> SUFFICES ASSUME q < p PROVE FALSE
    OBVIOUS
  <2>1. w * q + w <= w * p
    BY MulLe
  <2> QED BY <1>1, <1>2, <1>3, <2>1
<1>5. ~ (p < q)
  <2> SUFFICES ASSUME p < q PROVE FALSE
    OBVIOUS
  <2>1. w * p + w <= w * q
    BY MulLe
  <2> QED BY <1>1, <1>2, <1>3, <2>1
<1>6. p = q
  BY <1>4, <1>5
<1> QED BY <1>1, <1>2, <1>3, <1>6

(* Row-major numbering of a square of side t: in range, and one to one. *)
LEMMA RowMajor ==
  ASSUME NEW t \in Nat \ {0}, NEW r \in 0 .. t - 1, NEW c \in 0 .. t - 1
  PROVE  /\ r * t + c \in 0 .. t * t - 1
         /\ \A p, q \in 0 .. t - 1 : p * t + q = r * t + c => p = r /\ q = c
<1>1. r * t = t * r /\ t * r \in Nat /\ t * t \in Nat
  OBVIOUS
<1>2. t * r + t <= t * t
  BY MulLe
<1>3. r * t + c \in 0 .. t * t - 1
  BY <1>1, <1>2
<1>4. ASSUME NEW p \in 0 .. t - 1, NEW q \in 0 .. t - 1, p * t + q = r * t + c
      PROVE  p = r /\ q = c
  <2>1. (t * p + q) \div t = p /\ (t * p + q) % t = q
    BY DivModUnique
  <2>2. (t * r + c) \div t = r /\ (t * r + c) % t = c
    BY DivModUnique
  <2>3. t * p + q = t * r + c
    BY <1>4
  <2> QED BY <2>1, <2>2, <2>3
<1> QED BY <1>3, <1>4

(* Counting modulo t wraps at t - 1. *)
LEMMA ModSucc ==
  ASSUME NEW t \in Nat \ {0}, NEW x \in 0 .. t - 1
  PROVE  (x + 1) % t = IF x = t - 1 THEN 0 ELSE x + 1
<1>1. CASE x = t - 1
  <2>1. x + 1 = t * 1 + 0 /\ 0 \in 0 .. t - 1
    BY <1>1
  <2>2. (t * 1 + 0) % t = 0
    BY <2>1, DivModUnique
  <2> QED BY <1>1, <2>1, <2>2
<1>2. CASE x # t - 1
  <2>1. x + 1 = t * 0 + (x + 1) /\ x + 1 \in 0 .. t - 1
    BY <1>2
  <2>2. (t * 0 + (x + 1)) % t = x + 1
    BY <2>1, DivModUnique
  <2> QED BY <1>2, <2>1, <2>2
<1> QED BY <1>1, <1>2

(* f starts at b and applies step n to its n-th value. *)
Iterates(f, V, b, S) ==
  f \in [Nat -> V] /\ f[0] = b /\ \A n \in Nat : f[n + 1] = S[n][f[n]]

(* Definition by recursion on the naturals: any sequence of steps can be   *)
(* iterated.                                                               *)
LEMMA IterationExists ==
  ASSUME NEW V, NEW b \in V, NEW S \in [Nat -> [V -> V]]
  PROVE  \E f : Iterates(f, V, b, S)
<1> DEFINE Prefix(g, n) == /\ g \in [0 .. n -> V] /\ g[0] = b
                           /\ \A x \in 0 .. n - 1 : g[x + 1] = S[x][g[x]]
           Without == {n \in Nat : ~ \E g : Prefix(g, n)}
<1>1. ASSUME Without # {} PROVE FALSE
  <2>1. PICK m \in Without : \A n \in Without : m <= n
    BY <1>1, LeastElement
  <2>2. m \in Nat /\ ~ \E g : Prefix(g, m)
    BY <2>1
  <2>3. CASE m = 0
    <3>1. Prefix([x \in 0 .. 0 |-> b], 0)
      OBVIOUS
    <3> QED BY <2>2, <2>3, <3>1
  <2>4. CASE m # 0
    <3>1. m - 1 \in Nat /\ m - 1 \notin Without
      <4> HIDE DEF Without
      <4>1. m - 1 \in Nat /\ ~ (m <= m - 1)
        BY ONLY <2>2, <2>4
      <4> QED BY ONLY <2>1, <4>1
    <3>2. PICK g : Prefix(g, m - 1)
      BY <3>1
    <3> DEFINE h == [x \in 0 .. m |-> IF x = m THEN S[m - 1][g[m - 1]] ELSE g[x]]
    <3>3. g[m - 1] \in V /\ S[m - 1][g[m - 1]] \in V
      <4>1. m - 1 \in 0 .. m - 1
        BY <3>1
      <4> QED BY <3>1, <3>2, <4>1
    <3>4. ASSUME NEW x \in 0 .. m PROVE h[x] \in V
      <4>1. x # m => x \in 0 .. m - 1
        BY <2>2
      <4> QED BY <3>2, <3>3, <4>1
    <3>5. h[0] = b
      <4>1. 0 \in 0 .. m /\ 0 # m
        BY <2>2, <2>4
      <4> QED BY <3>2, <4>1
    <3>6. ASSUME NEW x \in 0 .. m - 1 PROVE h[x + 1] = S[x][h[x]]
      <4>1. x \in 0 .. m /\ x + 1 \in 0 .. m /\ x # m /\ x \in Nat
        BY <2>2
      <4>2. CASE x + 1 = m
        <5>1. x = m - 1
          BY <2>2, <4>1, <4>2
        <5> QED BY <4>1, <4>2, <5>1
      <4>3. CASE x + 1 # m
        <5>1. x \in 0 .. (m - 1) - 1
          BY <2>2, <4>1, <4>3
        <5>2. g[x + 1] = S[x][g[x]]
          BY <3>2, <5>1
        <5> QED BY <4>1, <4>3, <5>2
      <4> QED BY <4>2, <4>3
    <3>7. Prefix(h, m)
      BY <3>4, <3>5, <3>6
    <3> QED BY <2>2, <3>7
  <2> QED BY <2>3, <2>4
<1>2. \A n \in Nat : \E g : Prefix(g, n)
  BY <1>1
<1>3. ASSUME NEW n \in Nat, NEW g, Prefix(g, n), NEW h, Prefix(h, n + 1)
      PROVE  g[n] = h[n]
  <2> DEFINE Differ == {x \in Nat : x <= n /\ g[x] # h[x]}
  <2>1. ASSUME Differ # {} PROVE FALSE
    <3>1. PICK m \in Differ : \A x \in Differ : m <= x
      BY <2>1, LeastElement
    <3>2. m \in Nat /\ m <= n /\ g[m] # h[m]
      BY <3>1
    <3>3. m # 0
      BY <1>3, <3>2
    <3>4. /\ m - 1 \in Nat /\ m - 1 \notin Differ /\ (m - 1) + 1 = m
          /\ m - 1 \in 0 .. n - 1 /\ m - 1 \in 0 .. (n + 1) - 1
      BY <3>1, <3>2, <3>3
    <3>5. g[m - 1] = h[m - 1]
      BY <3>2, <3>4
    <3>6. g[(m - 1) + 1] = S[m - 1][g[m - 1]]
      BY <1>3, <3>4
    <3>7. h[(m - 1) + 1] = S[m - 1][h[m - 1]]
      BY <1>3, <3>4
    <3> QED BY <3>2, <3>4, <3>5, <3>6, <3>7
  <2> QED BY <2>1
<1> DEFINE P(n) == CHOOSE g : Prefix(g, n)
           f == [n \in Nat |-> P(n)[n]]
<1>4. ASSUME NEW n \in Nat PROVE Prefix(P(n), n)
  BY <1>2
<1> HIDE DEF P
<1>5. ASSUME NEW n \in Nat PROVE f[n] \in V
  <2>1. n \in 0 .. n
    OBVIOUS
  <2> QED BY <1>4, <2>1
<1>6. f[0] = b
  BY <1>4
<1>7. ASSUME NEW n \in Nat PROVE f[n + 1] = S[n][f[n]]
  <2>1. n + 1 \in Nat /\ n \in 0 .. (n + 1) - 1
    OBVIOUS
  <2>2. Prefix(P(n), n) /\ Prefix(P(n + 1), n + 1)
    BY <1>4, <2>1
  <2>3. P(n)[n] = P(n + 1)[n]
    BY <1>3, <2>2
  <2>4. P(n + 1)[n + 1] = S[n][P(n + 1)[n]]
    BY <2>1, <2>2
  <2> QED BY <2>1, <2>3, <2>4
<1>8. f \in [Nat -> V]
  BY <1>5
<1>9. Iterates(f, V, b, S)
  BY <1>6, <1>7, <1>8 DEF Iterates
<1> QED BY <1>9

=============================================================================
