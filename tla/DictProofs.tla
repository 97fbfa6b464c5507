------------------------------- MODULE DictProofs -------------------------------
(***************************************************************************)
(* What holds of dictionaries and the hash table under them, whatever the  *)
(* keys, the values, the hash function and the lists are: probing finds    *)
(* what is there and an empty bucket besides, a rehash in place loses no   *)
(* entry and doubles none, iterations call for a key once, and the map of  *)
(* Maps is implemented.                                                    *)
(***************************************************************************)
EXTENDS Dict, Induction, FiniteSetTheorems, SequenceTheorems

-----------------------------------------------------------------------------
(* Powers of two, and the triangular numbers modulo one.                   *)

(* Powers of two exist as a function, each twice the one before.           *)
LEMMA Powers ==
  /\ Power \in [Nat -> Nat] /\ Power[0] = 1
  /\ \A i \in Nat : Power[i + 1] = 2 * Power[i]
<1> DEFINE Doubles(p) == p = [i \in Nat |-> IF i = 0 THEN 1 ELSE 2 * p[i - 1]]
<1>1. PICK g, a, l : g = [x \in Nat |-> 2 * x] /\ a = 1 /\ l = Walk(g, a)
  OBVIOUS
<1>2. DOMAIN g = Nat /\ \A x \in Nat : g[x] = 2 * x
  BY <1>1
<1>3. l \in [Nat -> Nat] /\ l[0] = 1 /\ \A i \in Nat : l[i + 1] = g[l[i]]
  <2>1. g \in [DOMAIN g -> DOMAIN g] /\ a \in DOMAIN g
    BY <1>1, <1>2
  <2>2. /\ Walk(g, a) \in [Nat -> DOMAIN g] /\ Walk(g, a)[0] = a
        /\ \A k \in Nat : Walk(g, a)[k + 1] = g[Walk(g, a)[k]]
    BY <2>1, WalkSteps
  <2>3. QED
    BY <1>1, <1>2, <2>2
<1>4. Doubles(l)
  <2>1. \A i \in Nat : l[i] = IF i = 0 THEN 1 ELSE 2 * l[i - 1]
    <3>1. TAKE i \in Nat
    <3>2. CASE i = 0
      BY <1>3, <3>2
    <3>3. CASE i # 0
      <4>1. i - 1 \in Nat /\ (i - 1) + 1 = i
        BY <3>3
      <4>2. l[i] = g[l[i - 1]] /\ l[i - 1] \in Nat
        BY <1>3, <4>1
      <4>3. QED
        BY <1>2, <3>3, <4>2
    <3>4. QED
      BY <3>2, <3>3
  <2>2. QED
    BY <1>3, <2>1
<1>5. Doubles(Power)
  <2>1. Power = CHOOSE p : Doubles(p)
    BY DEF Power
  <2> HIDE DEF Doubles
  <2>2. QED
    BY <1>4, <2>1
<1>6. PICK p : p = Power /\ p = [i \in Nat |-> IF i = 0 THEN 1 ELSE 2 * p[i - 1]]
  BY <1>5
<1>7. p[0] = 1 /\ \A i \in Nat : p[i + 1] = 2 * p[i]
  <2>1. \A i \in Nat : p[i] = IF i = 0 THEN 1 ELSE 2 * p[i - 1]
    BY <1>6
  <2>2. \A i \in Nat : i + 1 \in Nat /\ i + 1 # 0 /\ (i + 1) - 1 = i
    OBVIOUS
  <2>3. QED
    BY <2>1, <2>2
<1> DEFINE A == {i \in Nat : p[i] \in Nat}
<1>8. A = Nat
  <2>1. 0 \in A /\ \A i \in A : i + 1 \in A
    BY <1>7
  <2>2. A \in SUBSET Nat
    OBVIOUS
  <2> HIDE DEF A
  <2>3. QED
    BY <2>1, <2>2, NatInd
<1>9. p \in [Nat -> Nat]
  <2>1. \A i \in Nat : p[i] \in Nat
    BY <1>8
  <2>2. p = [i \in Nat |-> p[i]]
    BY <1>6
  <2>3. QED
    BY <2>1, <2>2
<1>10. QED
  BY <1>6, <1>7, <1>9

(* They are numbers, and grow.                                             *)
LEMMA PowersGrow ==
  \A i \in Nat : Power[i] \in Nat /\ Power[i] >= i + 1
<1> DEFINE A == {i \in Nat : Power[i] >= i + 1}
<1>1. \A i \in Nat : Power[i] \in Nat
  BY Powers
<1>2. 0 \in A /\ \A i \in A : i + 1 \in A
  BY <1>1, Powers
<1>3. A \in SUBSET Nat
  OBVIOUS
<1>4. A = Nat
  <2> HIDE DEF A
  <2>1. QED
    BY <1>2, <1>3, NatInd
<1>5. QED
  BY <1>1, <1>4

(* A factor may be left out on both sides.                                 *)
LEMMA Cancel ==
  ASSUME NEW p \in Nat, p > 0, NEW a \in Nat, NEW b \in Nat, p * a = p * b
  PROVE  a = b
OBVIOUS

Even(a) == \E b \in Nat : a = 2 * b
Odd(a) == \E b \in Nat : a = 2 * b + 1

(* Every number is even or odd.                                            *)
LEMMA Parity == \A a \in Nat : Even(a) \/ Odd(a)
<1> DEFINE A == {a \in Nat : Even(a) \/ Odd(a)}
<1>1. 0 \in A
  BY DEF Even
<1>2. \A a \in A : a + 1 \in A
  <2>1. TAKE a \in A
  <2>2. CASE Even(a)
    BY <2>2 DEF Even, Odd
  <2>3. CASE Odd(a)
    <3>1. PICK b \in Nat : a = 2 * b + 1
      BY <2>3 DEF Odd
    <3>2. a + 1 = 2 * (b + 1) /\ b + 1 \in Nat
      BY <3>1
    <3>3. Even(a + 1)
      BY <3>2 DEF Even
    <3>4. QED
      BY <3>3
  <2>4. QED
    BY <2>2, <2>3
<1>3. A = Nat
  <2>1. A \in SUBSET Nat
    OBVIOUS
  <2> HIDE DEF A
  <2>2. QED
    BY <1>1, <1>2, <2>1, NatInd
<1>4. QED
  BY <1>3

(* An odd factor does not make a product even.                             *)
LEMMA OddTimes ==
  ASSUME NEW c \in Nat, Odd(c), NEW y \in Nat, Even(c * y)
  PROVE  Even(y)
<1>1. PICK x \in Nat : c = 2 * x + 1
  BY DEF Odd
<1>2. PICK z \in Nat : c * y = 2 * z
  BY DEF Even
<1>3. y = 2 * (z - x * y)
  BY <1>1, <1>2
<1>4. z - x * y \in Int
  OBVIOUS
<1>5. z - x * y >= 0
  BY <1>3, <1>4
<1>6. QED
  BY <1>3, <1>4, <1>5 DEF Even

(* What an odd number must leave to the other factor.                      *)
LEMMA OddLeaves ==
  ASSUME NEW c \in Nat, Odd(c)
  PROVE  \A i \in Nat : \A y, q \in Nat :
           c * y = Power[i] * q => \E z \in Nat : y = Power[i] * z
<1> DEFINE P(i) == \A y, q \in Nat :
           c * y = Power[i] * q => \E z \in Nat : y = Power[i] * z
           A == {i \in Nat : P(i)}
<1>1. P(0)
  BY Powers
<1>2. ASSUME NEW i \in Nat, P(i) PROVE P(i + 1)
  <2>1. SUFFICES ASSUME NEW y \in Nat, NEW q \in Nat, c * y = Power[i + 1] * q
                 PROVE  \E z \in Nat : y = Power[i + 1] * z
    OBVIOUS
  <2>2. PICK p \in Nat : p = Power[i] /\ p > 0 /\ Power[i + 1] = 2 * p
    BY Powers, PowersGrow
  <2>3. c * y = p * (2 * q)
    <3>1. (2 * p) * q = p * (2 * q)
      OBVIOUS
    <3>2. QED
      BY <2>1, <2>2, <3>1
  <2>4. PICK z \in Nat : y = p * z
    <3>1. 2 * q \in Nat
      OBVIOUS
    <3>2. QED
      BY <1>2, <2>2, <2>3, <3>1
  <2>5. p * (c * z) = p * (2 * q)
    <3>1. c * (p * z) = p * (c * z)
      OBVIOUS
    <3>2. QED
      BY <2>3, <2>4, <3>1
  <2>6. c * z = 2 * q
    <3>1. c * z \in Nat /\ 2 * q \in Nat
      OBVIOUS
    <3>2. QED
      BY <2>2, <2>5, <3>1, Cancel
  <2>7. PICK w \in Nat : z = 2 * w
    <3>1. Even(c * z)
      BY <2>6 DEF Even
    <3>2. Even(z)
      BY <3>1, OddTimes
    <3>3. QED
      BY <3>2 DEF Even
  <2>8. y = (2 * p) * w
    <3>1. p * (2 * w) = (2 * p) * w
      OBVIOUS
    <3>2. QED
      BY <2>4, <2>7, <3>1
  <2>9. QED
    BY <2>2, <2>8
<1>3. A = Nat
  <2>1. 0 \in A /\ \A i \in A : i + 1 \in A
    <3> HIDE DEF P
    <3>1. QED
      BY <1>1, <1>2
  <2>2. A \in SUBSET Nat
    OBVIOUS
  <2> HIDE DEF A
  <2>3. QED
    BY <2>1, <2>2, NatInd
<1>4. QED
  BY <1>3

Tri(s) == (s * (s + 1)) \div 2

(* A triangular number is half of its product, with nothing left over.     *)
LEMMA TriIs == \A s \in Nat : Tri(s) \in Nat /\ 2 * Tri(s) = s * (s + 1)
<1> DEFINE A == {s \in Nat : Even(s * (s + 1))}
<1>1. 0 \in A
  BY DEF Even
<1>2. \A s \in A : s + 1 \in A
  <2>1. TAKE s \in A
  <2>2. PICK b \in Nat : s * (s + 1) = 2 * b
    BY <2>1 DEF Even
  <2>3. (s + 1) * ((s + 1) + 1) = 2 * (b + s + 1) /\ b + s + 1 \in Nat
    BY <2>2
  <2>4. Even((s + 1) * ((s + 1) + 1))
    BY <2>3 DEF Even
  <2>5. QED
    BY <2>4
<1>3. A = Nat
  <2>1. A \in SUBSET Nat
    OBVIOUS
  <2> HIDE DEF A
  <2>2. QED
    BY <1>1, <1>2, <2>1, NatInd
<1>4. \A b \in Nat : (2 * b) \div 2 = b
  OBVIOUS
<1>5. TAKE s \in Nat
<1>6. PICK b \in Nat : s * (s + 1) = 2 * b
  BY <1>3 DEF Even
<1>7. QED
  BY <1>4, <1>6 DEF Tri

(* What % gives, as a remainder of a division.                             *)
LEMMA ModIs ==
  ASSUME NEW a \in Nat, NEW n \in Nat, n > 0
  PROVE  /\ (a % n) \in Nat /\ (a % n) < n
         /\ \E q \in Nat : a = n * q + (a % n)
<1>1. (a % n) \in 0 .. n - 1
  OBVIOUS
<1>2. a = n * (a \div n) + (a % n)
  OBVIOUS
<1>3. (a \div n) \in Nat
  OBVIOUS
<1>4. QED
  BY <1>1, <1>2, <1>3

(* Quotient and remainder are unique.                                      *)
LEMMA Quotient ==
  ASSUME NEW n \in Nat, NEW p \in Nat, NEW q \in Nat, NEW r \in Nat, NEW s \in Nat,
         r < n, s < n, n * p + r = n * q + s
  PROVE  p = q /\ r = s
<1>1. ~ p < q
  <2>1. SUFFICES ASSUME p < q PROVE FALSE
    OBVIOUS
  <2>2. n * q >= n * (p + 1)
    BY <2>1
  <2>3. n * (p + 1) = n * p + n
    OBVIOUS
  <2>4. QED
    BY <2>2, <2>3
<1>2. ~ q < p
  <2>1. SUFFICES ASSUME q < p PROVE FALSE
    OBVIOUS
  <2>2. n * p >= n * (q + 1)
    BY <2>1
  <2>3. n * (q + 1) = n * q + n
    OBVIOUS
  <2>4. QED
    BY <2>2, <2>3
<1>3. QED
  BY <1>1, <1>2

(* So a remainder is what % gives.                                         *)
LEMMA ModUnique ==
  ASSUME NEW a \in Nat, NEW n \in Nat, n > 0, NEW q \in Nat, NEW r \in Nat, r < n,
         a = n * q + r
  PROVE  a % n = r
<1>1. PICK m, p \in Nat : m = a % n /\ m < n /\ a = n * p + m
  <2>1. (a % n) \in Nat /\ (a % n) < n /\ \E p \in Nat : a = n * p + (a % n)
    BY ModIs
  <2>2. QED
    BY <2>1
<1>2. n * p + m = n * q + r
  BY <1>1
<1>3. m = r
  BY <1>1, <1>2, Quotient
<1>4. QED
  BY <1>1, <1>3

(* Numbers a multiple of n apart have the same remainder, and no others.   *)
LEMMA ModAdd ==
  ASSUME NEW a \in Nat, NEW n \in Nat, n > 0, NEW q \in Nat
  PROVE  (a + n * q) % n = a % n
<1>1. PICK m, p \in Nat : m = a % n /\ m < n /\ a = n * p + m
  <2>1. (a % n) \in Nat /\ (a % n) < n /\ \E p \in Nat : a = n * p + (a % n)
    BY ModIs
  <2>2. QED
    BY <2>1
<1>2. a + n * q = n * (p + q) + m /\ p + q \in Nat /\ a + n * q \in Nat
  BY <1>1
<1>3. QED
  BY <1>1, <1>2, ModUnique

Leaves(n, m, a) == \E p \in Nat : a = n * p + m

(* Two numbers with the same remainder differ by a multiple.               *)
LEMMA ModSame ==
  ASSUME NEW a \in Nat, NEW b \in Nat, a <= b, NEW n \in Nat, n > 0,
         NEW m \in Nat, Leaves(n, m, a), Leaves(n, m, b)
  PROVE  Leaves(n, a, b)
<1>0. PICK p, r \in Nat : a = n * p + m /\ b = n * r + m
  BY DEF Leaves
<1>1. p <= r
  <2>1. SUFFICES ASSUME r < p PROVE FALSE
    OBVIOUS
  <2>2. n * p >= n * (r + 1)
    BY <2>1
  <2>3. n * (r + 1) = n * r + n
    OBVIOUS
  <2>4. QED
    BY <2>2, <2>3, <1>0
<1>2. r - p \in Nat /\ n * (r - p) = n * r - n * p
  BY <1>1
<1>3. PICK d \in Nat : d = r - p
  BY <1>2
<1>4. b = n * d + a
  BY <1>0, <1>2, <1>3
<1>5. QED
  BY <1>4 DEF Leaves

(* Min of the numbers of a set is one of them, and no greater than any.    *)
LEMMA MinIs ==
  ASSUME NEW T \in SUBSET Nat, T # {}
  PROVE  Min(T) \in T /\ \A y \in T : Min(T) <= y
<1>1. \E x \in T : \A y \in T : x <= y
  BY NatMin
<1>2. QED
  BY <1>1 DEF Min

(* Max of the numbers of a bounded set is one of them, and no less than    *)
(* any.                                                                    *)
LEMMA MaxIs ==
  ASSUME NEW n \in Nat, NEW T \in SUBSET (0 .. n), T # {}
  PROVE  Max(T) \in T /\ \A y \in T : Max(T) >= y
<1> DEFINE U == {m \in Nat : m <= n /\ n - m \in T}
<1>1. U # {}
  <2>1. PICK y \in T : TRUE
    OBVIOUS
  <2>2. y \in Nat /\ n - y \in Nat /\ n - (n - y) = y /\ n - y <= n
    BY <2>1
  <2>3. QED
    BY <2>2
<1>2. PICK x \in U : \A y \in U : x <= y
  <2>1. U \in SUBSET Nat
    OBVIOUS
  <2> HIDE DEF U
  <2>2. QED
    BY <2>1, <1>1, NatMin
<1>3. n - x \in T
  BY <1>2
<1>4. \A y \in T : n - x >= y
  <2>1. TAKE y \in T
  <2>2. y \in Nat /\ n - y \in Nat /\ n - (n - y) = y /\ n - y <= n
    BY <2>1
  <2>3. n - y \in U
    BY <2>2
  <2>4. x <= n - y /\ x \in Nat
    BY <2>3, <1>2
  <2>5. QED
    BY <2>2, <2>4
<1>5. QED
  BY <1>3, <1>4 DEF Max

(* Within as many steps as there are buckets no bucket is met twice.       *)
LEMMA StepsApart ==
  ASSUME NEW i \in Nat, NEW h \in Nat, NEW r \in Nat, NEW s \in Nat,
         r < s, s < Power[i]
  PROVE  (h + Tri(r)) % Power[i] # (h + Tri(s)) % Power[i]
<1>1. PICK n \in Nat : n = Power[i] /\ n > 0 /\ Power[i + 1] = 2 * n
  BY Powers, PowersGrow
<1>2. PICK x, y \in Nat : /\ x = Tri(r) /\ y = Tri(s)
                          /\ 2 * x = r * (r + 1) /\ 2 * y = s * (s + 1)
  BY TriIs
<1>3. SUFFICES ASSUME (h + x) % n = (h + y) % n PROVE FALSE
  BY <1>1, <1>2
<1> DEFINE c == s - r
           d == s + r + 1
<1>4. c \in Nat /\ d \in Nat /\ c > 0 /\ d > 0 /\ c < 2 * n /\ d < 2 * n
  BY <1>1
<1>5. c * d = 2 * y - 2 * x
  <2>1. (s - r) * (s + r + 1) = s * (s + 1) - r * (r + 1)
    OBVIOUS
  <2>2. QED
    BY <2>1, <1>2
<1>6. PICK q \in Nat : y = x + n * q
  <2>1. c * d \in Nat
    BY <1>4
  <2>2. h + x <= h + y /\ h + x \in Nat /\ h + y \in Nat
    <3> HIDE DEF c, d
    <3>1. QED
      BY <1>2, <1>5, <2>1
  <2>3. PICK u, v \in Nat : u = h + x /\ v = h + y
    BY <2>2
  <2>4. PICK m, w \in Nat : u <= v /\ m = u % n /\ w = v % n /\ m = w
    <3>1. (u % n) \in Nat /\ (v % n) \in Nat
      BY <1>1, ModIs
    <3>2. QED
      BY <3>1, <2>2, <2>3, <1>3
  <2>5. Leaves(n, m, u)
    <3>1. \E p \in Nat : u = n * p + (u % n)
      BY <1>1, ModIs
    <3>2. QED
      BY <3>1, <2>4 DEF Leaves
  <2>6. Leaves(n, m, v)
    <3>1. \E p \in Nat : v = n * p + (v % n)
      BY <1>1, ModIs
    <3>2. QED
      BY <3>1, <2>4 DEF Leaves
  <2>7. PICK q \in Nat : v = n * q + u
    <3>1. Leaves(n, u, v)
      BY <2>4, <2>5, <2>6, <1>1, ModSame, Zenon
    <3>2. QED
      BY <3>1 DEF Leaves
  <2>8. y = x + n * q
    BY <2>3, <2>7, <1>2
  <2>9. QED
    BY <2>8
<1>7. c * d = Power[i + 1] * q
  <2>1. (2 * n) * q = 2 * (n * q)
    OBVIOUS
  <2> HIDE DEF c, d
  <2>2. QED
    BY <1>1, <1>2, <1>5, <1>6, <2>1
<1>8. \A z \in Nat : (2 * n) * z = c \/ (2 * n) * z = d => FALSE
  <2>1. SUFFICES ASSUME NEW z \in Nat, NEW e \in Nat, e > 0, e < 2 * n, (2 * n) * z = e
                 PROVE  FALSE
    <3> HIDE DEF c, d
    <3>1. QED
      BY <1>4
  <2>2. z >= 1
    BY <2>1
  <2>3. (2 * n) * z >= 2 * n
    BY <2>2, <1>1
  <2>4. QED
    BY <2>1, <2>3
<1>9. Odd(c) \/ Odd(d)
  <2>1. CASE Odd(c)
    BY <2>1
  <2>2. CASE Even(c)
    <3>1. PICK b \in Nat : c = 2 * b
      BY <2>2 DEF Even
    <3>2. d = 2 * (r + b) + 1 /\ r + b \in Nat
      BY <3>1
    <3>3. QED
      BY <3>2 DEF Odd
  <2>3. QED
    BY <2>1, <2>2, <1>4, Parity
<1> HIDE DEF c, d
<1>10. CASE Odd(c)
  <2>1. PICK z \in Nat : d = Power[i + 1] * z
    BY <1>4, <1>7, <1>10, OddLeaves
  <2>2. QED
    BY <2>1, <1>1, <1>8
<1>11. CASE Odd(d)
  <2>1. d * c = c * d
    BY <1>4
  <2>2. PICK z \in Nat : c = Power[i + 1] * z
    BY <2>1, <1>4, <1>7, <1>11, OddLeaves
  <2>3. QED
    BY <2>2, <1>1, <1>8
<1>12. QED
  BY <1>9, <1>10, <1>11

(* In a table of a power of two, as many steps of probing as there are     *)
(* buckets meet every bucket, and none comes back to the first before.     *)
LEMMA Probing ==
  ASSUME NEW i \in Nat, NEW n \in Nat, n = Power[i], NEW k, hash[k] \in Nat
  PROVE  /\ \A s \in Nat : Probe(n, k, s) \in 0 .. n - 1
         /\ \A b \in 0 .. n - 1 : \E s \in 0 .. n - 1 : Probe(n, k, s) = b
         /\ \E m \in n .. 2 * n : Round(n, k) = 0 .. m - 1
<1>1. n > 0
  BY PowersGrow
<1>2. \A s : Probe(n, k, s) = (hash[k] + Tri(s)) % n
  BY DEF Probe, Tri
<1>3. \A s \in Nat : Probe(n, k, s) \in 0 .. n - 1
  <2>1. TAKE s \in Nat
  <2>2. hash[k] + Tri(s) \in Nat
    BY TriIs
  <2>3. (hash[k] + Tri(s)) % n \in Nat /\ (hash[k] + Tri(s)) % n < n
    BY <2>2, <1>1, ModIs
  <2>4. QED
    BY <2>3, <1>2
<1>4. \A r, s \in 0 .. n - 1 : r < s => Probe(n, k, r) # Probe(n, k, s)
  <2>1. TAKE r, s \in 0 .. n - 1
  <2>2. SUFFICES ASSUME r < s PROVE Probe(n, k, r) # Probe(n, k, s)
    OBVIOUS
  <2>3. r \in Nat /\ s \in Nat /\ s < Power[i]
    BY <1>1
  <2>4. (hash[k] + Tri(r)) % Power[i] # (hash[k] + Tri(s)) % Power[i]
    BY <2>2, <2>3, StepsApart
  <2>5. QED
    BY <2>4, <1>2
<1>5. \A b \in 0 .. n - 1 : \E s \in 0 .. n - 1 : Probe(n, k, s) = b
  <2> DEFINE f == [s \in 0 .. n - 1 |-> Probe(n, k, s)]
  <2>1. f \in [0 .. n - 1 -> 0 .. n - 1]
    BY <1>3
  <2>2. IsInjective(f)
    <3>1. SUFFICES ASSUME NEW r \in 0 .. n - 1, NEW s \in 0 .. n - 1, f[r] = f[s]
                   PROVE  r = s
      BY DEF IsInjective
    <3>2. ~ r < s /\ ~ s < r
      BY <3>1, <1>4
    <3>3. QED
      BY <3>2
  <2> HIDE DEF f
  <2>3. f \in Injection(0 .. n - 1, 0 .. n - 1)
    BY <2>1, <2>2 DEF Injection
  <2>4. IsFiniteSet(0 .. n - 1)
    <3>1. 0 \in Int /\ n - 1 \in Int
      OBVIOUS
    <3>2. QED
      BY <3>1, FS_Interval
  <2>5. f \in Surjection(0 .. n - 1, 0 .. n - 1)
    BY <2>3, <2>4, FS_Injection
  <2>6. \A b \in 0 .. n - 1 : \E s \in 0 .. n - 1 : f[s] = b
    BY <2>5 DEF Surjection
  <2>7. QED
    BY <2>6 DEF f
<1> DEFINE back == {s \in 1 .. 2 * n : Probe(n, k, s) = Probe(n, k, 0)}
<1>6. 2 * n - 1 \in back
  <2>1. PICK x \in Nat : x = Tri(2 * n - 1) /\ 2 * x = (2 * n - 1) * ((2 * n - 1) + 1)
    <3>1. 2 * n - 1 \in Nat
      BY <1>1
    <3>2. QED
      BY <3>1, TriIs
  <2>2. (2 * n - 1) * ((2 * n - 1) + 1) = 2 * (n * (2 * n - 1))
    BY <1>1
  <2>3. x = n * (2 * n - 1) /\ 2 * n - 1 \in Nat
    BY <2>1, <2>2, <1>1
  <2>4. Tri(0) = 0
    BY TriIs
  <2>5. (hash[k] + n * (2 * n - 1)) % n = hash[k] % n
    <3>1. PICK q \in Nat : q = 2 * n - 1
      BY <2>3
    <3>2. PICK h \in Nat : h = hash[k]
      OBVIOUS
    <3>3. (h + n * q) % n = h % n
      BY <1>1, ModAdd
    <3>4. QED
      BY <3>1, <3>2, <3>3
  <2>6. hash[k] + 0 = hash[k]
    OBVIOUS
  <2>7. Probe(n, k, 2 * n - 1) = Probe(n, k, 0)
    BY <2>1, <2>3, <2>4, <2>5, <2>6, <1>2
  <2>8. QED
    BY <2>7, <1>1
<1>7. \A s \in back : s >= n
  <2>1. TAKE s \in back
  <2>2. SUFFICES ASSUME s < n PROVE FALSE
    BY <1>1
  <2>3. s \in 0 .. n - 1 /\ 0 \in 0 .. n - 1 /\ 0 < s
    BY <2>2
  <2>4. QED
    BY <2>1, <2>3, <1>4
<1>8. Min(back) \in n .. 2 * n
  <2>1. back \in SUBSET Nat /\ back \subseteq 1 .. 2 * n
    OBVIOUS
  <2> HIDE DEF back
  <2>2. Min(back) \in back
    BY <2>1, <1>6, MinIs
  <2>3. QED
    <3>1. PICK z : z = Min(back)
      OBVIOUS
    <3>2. z \in 1 .. 2 * n /\ z >= n
      BY <2>1, <2>2, <3>1, <1>7
    <3>3. QED
      BY <3>1, <3>2
<1>9. Round(n, k) = 0 .. Min(back) - 1
  BY DEF Round
<1>10. QED
  BY <1>3, <1>5, <1>8, <1>9

(* That is, it comes to every bucket.                                      *)
LEMMA Everywhere ==
  ASSUME NEW i \in Nat, NEW n \in Nat, n = Power[i], NEW k, hash[k] \in Nat
  PROVE  \A b \in 0 .. n - 1 : \E s \in 0 .. n - 1 : Probe(n, k, s) = b
BY Probing

-----------------------------------------------------------------------------
(* Tables.                                                                 *)

HashOK == hash \in [Key -> Nat]

Flags == {"empty", "deleted", "used"}
Entries == [key : Key, val : Val]

(* Probing for k comes to b, and to no empty bucket before.                *)
Reached(n, f, k, b) ==
  \E s \in 0 .. n - 1 : /\ Probe(n, k, s) = b
                        /\ \A r \in 0 .. s - 1 : f[Probe(n, k, r)] # "empty"

Sized(n) == n = 0 \/ \E i \in Nat : i >= 2 /\ n = Power[i]

Filled(f) == {b \in DOMAIN f : f[b] # "empty"}

Fields(t) ==
  t = [flags |-> t.flags, slots |-> t.slots, size |-> t.size,
       n_occupied |-> t.n_occupied, upper_bound |-> t.upper_bound]

Contents(t, n) ==
  /\ t.flags \in [0 .. n - 1 -> Flags]
  /\ t.slots \in [0 .. n - 1 -> Entries \union {NoEntry}]
  /\ \A b \in Used(t) : t.slots[b] \in Entries /\ Reached(n, t.flags, t.slots[b].key, b)
  /\ \A b, c \in Used(t) : t.slots[b].key = t.slots[c].key => b = c

Counts(t, n) ==
  /\ t.size = Cardinality(Used(t))
  /\ t.n_occupied = Cardinality(Filled(t.flags))
  /\ t.n_occupied <= t.upper_bound
  /\ t.upper_bound = IF n = 0 THEN 0 ELSE ac_hash_upper(n)

(* What is true of a table of n buckets between any two calls.             *)
Table(t, n) == n \in Nat /\ Sized(n) /\ Fields(t) /\ Contents(t, n) /\ Counts(t, n)

(* The buckets of a table counted: those in use are among those filled,    *)
(* and when not all are filled one is empty.                               *)
LEMMA Buckets ==
  ASSUME NEW n \in Nat, NEW t, t.flags \in [0 .. n - 1 -> Flags]
  PROVE  /\ n_buckets(t) = n /\ kh_end(t) = n
         /\ IsFiniteSet(0 .. n - 1) /\ Cardinality(0 .. n - 1) = n
         /\ \A b : b \in Used(t) <=> b \in 0 .. n - 1 /\ t.flags[b] = "used"
         /\ IsFiniteSet(Used(t)) /\ IsFiniteSet(Filled(t.flags))
         /\ Cardinality(Used(t)) \in Nat /\ Cardinality(Filled(t.flags)) \in Nat
         /\ Cardinality(Used(t)) <= Cardinality(Filled(t.flags))
         /\ Cardinality(Filled(t.flags)) < n => \E b \in 0 .. n - 1 : t.flags[b] = "empty"
<1>1. DOMAIN t.flags = 0 .. n - 1
  OBVIOUS
<1>2. IsFiniteSet(0 .. n - 1) /\ Cardinality(0 .. n - 1) = n
  <2>1. 0 \in Int /\ n - 1 \in Int
    OBVIOUS
  <2>2. IsFiniteSet(0 .. n - 1) /\ Cardinality(0 .. n - 1) = IF 0 > n - 1 THEN 0 ELSE (n - 1) - 0 + 1
    BY <2>1, FS_Interval
  <2>3. (IF 0 > n - 1 THEN 0 ELSE (n - 1) - 0 + 1) = n
    OBVIOUS
  <2>4. QED
    BY <2>2, <2>3
<1>3. n_buckets(t) = n /\ kh_end(t) = n
  BY <1>1, <1>2 DEF n_buckets, kh_end
<1>4. \A b : b \in Used(t) <=> b \in 0 .. n - 1 /\ t.flags[b] = "used"
  BY <1>1 DEF Used, kh_exist
<1>5. Used(t) \subseteq Filled(t.flags) /\ Filled(t.flags) \subseteq 0 .. n - 1
  BY <1>1, <1>4 DEF Filled
<1>6. IsFiniteSet(Filled(t.flags)) /\ Cardinality(Filled(t.flags)) \in Nat
  BY <1>2, <1>5, FS_Subset, FS_CardinalityType
<1>7. /\ IsFiniteSet(Used(t)) /\ Cardinality(Used(t)) \in Nat
      /\ Cardinality(Used(t)) <= Cardinality(Filled(t.flags))
  BY <1>5, <1>6, FS_Subset, FS_CardinalityType
<1>8. Cardinality(Filled(t.flags)) < n => \E b \in 0 .. n - 1 : t.flags[b] = "empty"
  <2>1. SUFFICES ASSUME Cardinality(Filled(t.flags)) < n,
                        \A b \in 0 .. n - 1 : t.flags[b] # "empty"
                 PROVE  FALSE
    OBVIOUS
  <2>2. Filled(t.flags) = 0 .. n - 1
    BY <1>1, <2>1 DEF Filled
  <2>3. QED
    BY <2>1, <2>2, <1>2
<1>9. QED
  BY <1>2, <1>3, <1>4, <1>6, <1>7, <1>8

(* The counts of a table are numbers, and buckets in use are filled.       *)
LEMMA Sizes ==
  ASSUME NEW n, NEW t, Table(t, n)
  PROVE  /\ n \in Nat /\ t.flags \in [0 .. n - 1 -> Flags]
         /\ t.size \in Nat /\ t.n_occupied \in Nat /\ t.size <= t.n_occupied
<1>1. n \in Nat /\ t.flags \in [0 .. n - 1 -> Flags] /\ Counts(t, n)
  BY DEF Table, Contents
<1>2. /\ Cardinality(Used(t)) \in Nat /\ Cardinality(Filled(t.flags)) \in Nat
      /\ Cardinality(Used(t)) <= Cardinality(Filled(t.flags))
  BY <1>1, Buckets
<1>3. QED
  BY <1>1, <1>2 DEF Counts

(* The code's numbers: no table may be filled, and all but a quarter may.  *)
LEMMA Upper ==
  ASSUME NEW n \in Nat, n >= 4
  PROVE  /\ ac_hash_upper(n) \in Nat /\ ac_hash_upper(n) < n
         /\ \A s \in Nat : 2 * s < n => s < ac_hash_upper(n)
         /\ \A s \in Nat : (2 * s < n /\ \E h \in Nat : n = 2 * h) => s + 1 < ac_hash_upper(n)
         /\ ac_hash_upper(n) < ac_hash_upper(2 * n)
BY DEF ac_hash_upper

(* kh_get finds the bucket of a key that has one, and the end for others.  *)
LEMMA Get ==
  ASSUME HashOK, NEW n, NEW t, Table(t, n), NEW k \in Key
  PROVE  /\ \A b \in Used(t) : t.slots[b].key = k => kh_get(t, k) = b
         /\ (\A b \in Used(t) : t.slots[b].key # k) => kh_get(t, k) = n
<1>1. n \in Nat /\ Sized(n) /\ Contents(t, n)
  BY DEF Table
<1>2. t.flags \in [0 .. n - 1 -> Flags]
  BY <1>1 DEF Contents
<1>3. n_buckets(t) = n /\ kh_end(t) = n
  BY <1>1, <1>2, Buckets
<1>4. \A b : b \in Used(t) <=> b \in 0 .. n - 1 /\ t.flags[b] = "used"
  BY <1>1, <1>2, Buckets
<1>5. CASE n = 0
  <2>1. \A b : b \notin Used(t)
    BY <1>4, <1>5
  <2>2. kh_get(t, k) = n
    BY <1>3, <1>5 DEF kh_get
  <2>3. QED
    BY <2>1, <2>2
<1>6. CASE n # 0
  <2>1. PICK i \in Nat : n = Power[i]
    BY <1>1, <1>6 DEF Sized
  <2>2. hash[k] \in Nat
    BY DEF HashOK
  <2>3. PICK m \in n .. 2 * n : Round(n, k) = 0 .. m - 1
    BY <1>1, <2>1, <2>2, Probing
  <2>4. \A s \in Nat : Probe(n, k, s) \in 0 .. n - 1
    BY <1>1, <2>1, <2>2, Probing
  <2> DEFINE Stop(s) == \/ t.flags[Probe(n, k, s)] = "empty"
                        \/ /\ t.flags[Probe(n, k, s)] = "used"
                           /\ t.slots[Probe(n, k, s)].key = k
             T == Stops(t, k)
             z == Min(T)
  <2>5. \A s : s \in T <=> s \in 0 .. m - 1 /\ Stop(s)
    BY <2>3, <1>3 DEF Stops, Holds, kh_exist
  <2>6. T \in SUBSET Nat
    BY <2>5, <1>1
  <2> HIDE DEF T
  <2>7. T # {} => z \in T /\ \A s \in T : z <= s
    BY <2>6, MinIs
  <2>8. kh_get(t, k) = IF T = {} THEN n
                       ELSE IF t.flags[Probe(n, k, z)] = "used" THEN Probe(n, k, z) ELSE n
    BY <1>3, <1>6 DEF kh_get, kh_exist, T
  <2> HIDE DEF z
  <2>9. ASSUME NEW b \in Used(t), t.slots[b].key = k PROVE kh_get(t, k) = b
    <3>1. PICK s \in 0 .. n - 1 : /\ Probe(n, k, s) = b
                                  /\ \A r \in 0 .. s - 1 : t.flags[Probe(n, k, r)] # "empty"
      BY <1>1, <2>9 DEF Contents, Reached
    <3>2. s \in T
      <4>1. t.flags[b] = "used"
        BY <1>4
      <4>2. s \in 0 .. m - 1
        BY <1>1, <2>3
      <4>3. QED
        BY <2>5, <2>9, <3>1, <4>1, <4>2
    <3>3. z \in T /\ z <= s /\ z \in Nat
      BY <2>6, <2>7, <3>2
    <3>4. t.flags[Probe(n, k, z)] = "used" /\ t.slots[Probe(n, k, z)].key = k
      <4>1. CASE z = s
        BY <1>4, <2>9, <3>1, <4>1
      <4>2. CASE z # s
        <5>1. z \in 0 .. s - 1
          BY <3>3, <4>2, <1>1
        <5>2. t.flags[Probe(n, k, z)] # "empty"
          BY <3>1, <5>1
        <5>3. QED
          BY <2>5, <3>3, <5>2
      <4>3. QED
        BY <4>1, <4>2
    <3>5. Probe(n, k, z) \in Used(t)
      BY <1>4, <2>4, <3>3, <3>4
    <3>6. Probe(n, k, z) = b
      BY <1>1, <2>9, <3>4, <3>5 DEF Contents
    <3>7. QED
      BY <2>8, <3>2, <3>4, <3>6
  <2>10. ASSUME \A b \in Used(t) : t.slots[b].key # k PROVE kh_get(t, k) = n
    <3>1. CASE T = {}
      BY <2>8, <3>1
    <3>2. CASE T # {}
      <4>1. z \in T /\ z \in Nat
        BY <2>6, <2>7, <3>2
      <4>2. Stop(z)
        BY <2>5, <4>1
      <4>3. t.flags[Probe(n, k, z)] # "used"
        BY <1>4, <2>4, <2>10, <4>1, <4>2
      <4>4. QED
        BY <2>8, <4>3
    <3>3. QED
      BY <3>1, <3>2
  <2>11. QED
    BY <2>9, <2>10
<1>7. QED
  BY <1>5, <1>6

(* A key stays within reach while no bucket is emptied.                    *)
LEMMA ReachKept ==
  ASSUME HashOK, NEW n \in Nat, Sized(n), NEW k \in Key, NEW f, NEW g, NEW b,
         \A c \in 0 .. n - 1 : f[c] # "empty" => g[c] # "empty",
         Reached(n, f, k, b)
  PROVE  Reached(n, g, k, b)
<1>1. PICK s \in 0 .. n - 1 : /\ Probe(n, k, s) = b
                              /\ \A r \in 0 .. s - 1 : f[Probe(n, k, r)] # "empty"
  BY DEF Reached
<1>2. n # 0
  BY <1>1
<1>3. PICK i \in Nat : n = Power[i]
  BY <1>2 DEF Sized
<1>4. \A r \in Nat : Probe(n, k, r) \in 0 .. n - 1
  <2>1. hash[k] \in Nat
    BY DEF HashOK
  <2>2. QED
    BY <2>1, <1>3, Probing
<1>5. \A r \in 0 .. s - 1 : g[Probe(n, k, r)] # "empty"
  <2>1. \A r \in 0 .. s - 1 : r \in Nat
    OBVIOUS
  <2>2. QED
    BY <2>1, <1>1, <1>4
<1>6. QED
  BY <1>1, <1>5 DEF Reached

(* Deleting takes one bucket out of use and leaves the others.             *)
LEMMA Del ==
  ASSUME HashOK, NEW n, NEW t, Table(t, n), NEW x \in 0 .. n
  PROVE  /\ Table(kh_del(t, x), n)
         /\ Used(kh_del(t, x)) = Used(t) \ {x}
         /\ \A b \in Used(t) \ {x} : kh_del(t, x).slots[b] = t.slots[b]
         /\ kh_del(t, x).n_occupied = t.n_occupied
<1>1. n \in Nat /\ Sized(n) /\ Fields(t) /\ Contents(t, n) /\ Counts(t, n)
  BY DEF Table
<1>2. t.flags \in [0 .. n - 1 -> Flags] /\ t.slots \in [0 .. n - 1 -> Entries \union {NoEntry}]
  BY <1>1 DEF Contents
<1>3. kh_end(t) = n /\ IsFiniteSet(Used(t)) /\ Cardinality(Used(t)) \in Nat
  BY <1>1, <1>2, Buckets
<1>4. \A b : b \in Used(t) <=> b \in 0 .. n - 1 /\ t.flags[b] = "used"
  BY <1>1, <1>2, Buckets
<1>5. CASE x \notin Used(t)
  <2>1. x = kh_end(t) \/ ~ kh_exist(t, x)
    <3>1. x # n => x \in 0 .. n - 1
      BY <1>1
    <3>2. QED
      BY <3>1, <1>3, <1>4, <1>5 DEF kh_exist
  <2>2. kh_del(t, x) = t
    BY <2>1 DEF kh_del
  <2>3. QED
    BY <2>2, <1>5
<1>6. CASE x \in Used(t)
  <2>1. x \in 0 .. n - 1 /\ t.flags[x] = "used" /\ x # n
    BY <1>1, <1>4, <1>6
  <2>2. kh_del(t, x) = [t EXCEPT !.flags[x] = "deleted", !.slots[x] = NoEntry, !.size = @ - 1]
    BY <2>1, <1>3 DEF kh_del, kh_exist
  <2>3. PICK d : d = kh_del(t, x)
    OBVIOUS
  <2>4. /\ d.flags = [t.flags EXCEPT ![x] = "deleted"]
        /\ d.slots = [t.slots EXCEPT ![x] = NoEntry]
        /\ d.size = t.size - 1 /\ d.n_occupied = t.n_occupied
        /\ d.upper_bound = t.upper_bound /\ Fields(d)
    BY <2>2, <2>3, <1>1 DEF Fields
  <2>5. d.flags \in [0 .. n - 1 -> Flags] /\ d.slots \in [0 .. n - 1 -> Entries \union {NoEntry}]
    BY <2>4, <1>2 DEF Flags
  <2>6. \A b : b \in Used(d) <=> b \in 0 .. n - 1 /\ d.flags[b] = "used"
    BY <2>5, <1>1, Buckets
  <2>7. \A b \in 0 .. n - 1 :
          /\ d.flags[b] = IF b = x THEN "deleted" ELSE t.flags[b]
          /\ b # x => d.slots[b] = t.slots[b]
    BY <2>4, <1>2
  <2>8. Used(d) = Used(t) \ {x}
    BY <2>6, <2>7, <1>4
  <2>9. \A b \in Used(d) : d.slots[b] = t.slots[b]
    BY <2>6, <2>7, <2>8
  <2>10. Contents(d, n)
    <3>1. \A b \in Used(d) : d.slots[b] \in Entries /\ Reached(n, d.flags, d.slots[b].key, b)
      <4>1. TAKE b \in Used(d)
      <4>2. t.slots[b] \in Entries /\ Reached(n, t.flags, t.slots[b].key, b)
        BY <2>8, <1>1 DEF Contents
      <4>3. t.slots[b].key \in Key
        BY <4>2 DEF Entries
      <4>4. \A c \in 0 .. n - 1 : t.flags[c] # "empty" => d.flags[c] # "empty"
        BY <2>7
      <4>5. Reached(n, d.flags, t.slots[b].key, b)
        BY <4>2, <4>3, <4>4, <1>1, ReachKept
      <4>6. QED
        BY <4>2, <4>5, <2>9
    <3>2. \A b, c \in Used(d) : d.slots[b].key = d.slots[c].key => b = c
      BY <2>8, <2>9, <1>1 DEF Contents
    <3>3. QED
      BY <3>1, <3>2, <2>5 DEF Contents
  <2>11. Counts(d, n)
    <3>1. Cardinality(Used(d)) = Cardinality(Used(t)) - 1
      BY <2>8, <1>3, <1>6, FS_RemoveElement
    <3>2. Filled(d.flags) = Filled(t.flags)
      <4>1. DOMAIN d.flags = 0 .. n - 1 /\ DOMAIN t.flags = 0 .. n - 1
        BY <2>5, <1>2
      <4>2. QED
        BY <4>1, <2>1, <2>7 DEF Filled
    <3>3. QED
      BY <3>1, <3>2, <2>4, <1>1 DEF Counts
  <2>12. QED
    BY <2>3, <2>4, <2>8, <2>9, <2>10, <2>11, <1>1 DEF Table
<1>7. QED
  BY <1>5, <1>6

(* No table has one bucket, or two.                                        *)
LEMMA FourAtLeast == \A i \in Nat : i >= 2 => Power[i] \in Nat /\ Power[i] >= 4
<1>1. TAKE i \in Nat
<1>2. Power[i] \in Nat /\ Power[i] >= i + 1
  BY PowersGrow
<1>3. Power[0] = 1 /\ Power[0 + 1] = 2 * Power[0] /\ Power[1 + 1] = 2 * Power[1]
  BY Powers
<1>4. Power[2] = 4
  BY <1>3
<1>5. CASE i = 2
  BY <1>4, <1>5
<1>6. CASE i # 2
  BY <1>2, <1>6
<1>7. QED
  BY <1>5, <1>6

(* The steps at which a probing stops.                                     *)
LEMMA Stopping ==
  ASSUME HashOK, NEW n, NEW t, Table(t, n), n # 0, NEW k \in Key
  PROVE  /\ \A s \in Nat : Probe(n, k, s) \in 0 .. n - 1
         /\ \A b \in 0 .. n - 1 : \E s \in 0 .. n - 1 : Probe(n, k, s) = b
         /\ \E m \in n .. 2 * n :
              \A s : s \in Stops(t, k) <=>
                       s \in 0 .. m - 1 /\ \/ t.flags[Probe(n, k, s)] = "empty"
                                           \/ /\ t.flags[Probe(n, k, s)] = "used"
                                              /\ t.slots[Probe(n, k, s)].key = k
         /\ Stops(t, k) \in SUBSET Nat
<1>1. n \in Nat /\ Sized(n) /\ t.flags \in [0 .. n - 1 -> Flags]
  BY DEF Table, Contents
<1>2. n_buckets(t) = n
  BY <1>1, Buckets
<1>3. PICK i \in Nat : n = Power[i]
  BY <1>1 DEF Sized
<1>4. hash[k] \in Nat
  BY DEF HashOK
<1>5. PICK m \in n .. 2 * n : Round(n, k) = 0 .. m - 1
  BY <1>1, <1>3, <1>4, Probing
<1>6. \A s : s \in Stops(t, k) <=>
               s \in 0 .. m - 1 /\ \/ t.flags[Probe(n, k, s)] = "empty"
                                   \/ /\ t.flags[Probe(n, k, s)] = "used"
                                      /\ t.slots[Probe(n, k, s)].key = k
  BY <1>5, <1>2 DEF Stops, Holds, kh_exist
<1>7. Stops(t, k) \in SUBSET Nat
  BY <1>6, <1>1
<1>8. \A s \in Nat : Probe(n, k, s) \in 0 .. n - 1
  BY <1>1, <1>3, <1>4, Probing
<1>9. \A b \in 0 .. n - 1 : \E s \in 0 .. n - 1 : Probe(n, k, s) = b
  <2>1. PICK h \in Nat : h = n /\ h = Power[i]
    BY <1>1, <1>3
  <2>2. \A b \in 0 .. h - 1 : \E s \in 0 .. h - 1 : Probe(h, k, s) = b
    BY <2>1, <1>4, Everywhere
  <2>3. QED
    BY <2>1, <2>2
<1>10. QED
  BY <1>6, <1>7, <1>8, <1>9

(* With room, a key's own bucket is where it is put, or one that is free   *)
(* and on its way.                                                         *)
LEMMA SiteIs ==
  ASSUME HashOK, NEW n, NEW t, Table(t, n), t.n_occupied < t.upper_bound, NEW k \in Key
  PROVE  /\ Site(t, k) \in 0 .. n - 1
         /\ \A b \in Used(t) : t.slots[b].key = k => Site(t, k) = b
         /\ (\A b \in Used(t) : t.slots[b].key # k) =>
              t.flags[Site(t, k)] # "used" /\ Reached(n, t.flags, k, Site(t, k))
<1>1. n \in Nat /\ Sized(n) /\ Contents(t, n) /\ Counts(t, n)
  BY DEF Table
<1>2. t.flags \in [0 .. n - 1 -> Flags]
  BY <1>1 DEF Contents
<1>3. n_buckets(t) = n /\ Cardinality(Filled(t.flags)) \in Nat
  BY <1>1, <1>2, Buckets
<1>4. \A b : b \in Used(t) <=> b \in 0 .. n - 1 /\ t.flags[b] = "used"
  BY <1>1, <1>2, Buckets
<1>5. n # 0
  BY <1>1, <1>3 DEF Counts
<1>6. \A s \in Nat : Probe(n, k, s) \in 0 .. n - 1
  BY <1>5, Stopping
<1> DEFINE T == Stops(t, k)
           z == Min(T)
<1>7. PICK m \in n .. 2 * n :
         \A s : s \in T <=>
                  s \in 0 .. m - 1 /\ \/ t.flags[Probe(n, k, s)] = "empty"
                                      \/ /\ t.flags[Probe(n, k, s)] = "used"
                                         /\ t.slots[Probe(n, k, s)].key = k
  BY <1>5, Stopping
<1>8. T \in SUBSET Nat
  BY <1>5, Stopping
<1>9. PICK e \in T : e \in 0 .. n - 1
  <2>1. n >= 4
    <3>1. PICK i \in Nat : i >= 2 /\ n = Power[i]
      BY <1>1, <1>5 DEF Sized
    <3>2. QED
      BY <3>1, FourAtLeast
  <2>2. PICK b \in 0 .. n - 1 : t.flags[b] = "empty"
    <3>1. ac_hash_upper(n) \in Nat /\ ac_hash_upper(n) < n
      BY <1>1, <2>1, Upper
    <3>2. Cardinality(Filled(t.flags)) < n
      BY <3>1, <1>1, <1>3, <1>5 DEF Counts
    <3>3. QED
      BY <3>2, <1>1, <1>2, Buckets
  <2>3. PICK s \in 0 .. n - 1 : Probe(n, k, s) = b
    BY <1>5, Stopping
  <2>4. s \in 0 .. m - 1
    BY <1>1, <1>7
  <2>5. s \in T
    BY <2>2, <2>3, <2>4, <1>7
  <2>6. QED
    BY <2>3, <2>5
<1> HIDE DEF T
<1>10. z \in T /\ \A s \in T : z <= s
  BY <1>8, <1>9, MinIs
<1>11. T # {}
  BY <1>9
<1> HIDE DEF z
<1>12. z \in 0 .. n - 1 /\ z \in Nat
  BY <1>1, <1>8, <1>9, <1>10
<1> DEFINE deleted == {s \in 0 .. z - 1 : t.flags[Probe(n, k, s)] = "deleted"}
           there == kh_exist(t, Probe(n, k, z)) /\ t.slots[Probe(n, k, z)].key = k
<1>13. Site(t, k) = IF there \/ deleted = {} THEN Probe(n, k, z) ELSE Probe(n, k, Max(deleted))
  BY <1>3, <1>11 DEF Site, T, z, Holds
<1>14. \A r \in 0 .. z - 1 : t.flags[Probe(n, k, r)] # "empty"
  <2>1. TAKE r \in 0 .. z - 1
  <2>2. r \in 0 .. m - 1 /\ r < z
    BY <1>1, <1>7, <1>12
  <2>3. r \notin T
    BY <2>2, <1>8, <1>10
  <2>4. QED
    BY <2>2, <2>3, <1>7
<1>15. CASE there
  <2>1. Probe(n, k, z) \in Used(t) /\ Site(t, k) = Probe(n, k, z)
    BY <1>4, <1>6, <1>12, <1>13, <1>15 DEF kh_exist
  <2>2. QED
    BY <2>1, <1>1, <1>4, <1>15 DEF Contents
<1>16. CASE ~ there
  <2>1. t.flags[Probe(n, k, z)] = "empty"
    BY <1>7, <1>10, <1>16 DEF kh_exist
  <2>2. \A b \in Used(t) : t.slots[b].key # k
    <3>1. SUFFICES ASSUME NEW b \in Used(t), t.slots[b].key = k PROVE FALSE
      OBVIOUS
    <3>2. PICK s \in 0 .. n - 1 : /\ Probe(n, k, s) = b
                                  /\ \A r \in 0 .. s - 1 : t.flags[Probe(n, k, r)] # "empty"
      BY <1>1, <3>1 DEF Contents, Reached
    <3>3. s \in T
      <4>1. s \in 0 .. m - 1
        BY <1>1, <1>7
      <4>2. QED
        BY <3>1, <3>2, <4>1, <1>4, <1>7
    <3>4. z <= s
      BY <3>3, <1>10
    <3>5. z # s
      BY <2>1, <3>2, <1>4
    <3>6. z \in 0 .. s - 1
      BY <3>4, <3>5, <1>12
    <3>7. QED
      BY <2>1, <3>2, <3>6
  <2>3. CASE deleted = {}
    <3>1. Site(t, k) = Probe(n, k, z)
      BY <1>13, <2>3
    <3>2. QED
      BY <3>1, <2>1, <2>2, <1>6, <1>12, <1>14 DEF Reached
  <2>4. CASE deleted # {}
    <3>1. PICK y : y = Max(deleted)
      OBVIOUS
    <3>2. y \in deleted
      <4>1. deleted \in SUBSET (0 .. z)
        BY <1>12
      <4> HIDE DEF deleted
      <4>2. QED
        BY <2>4, <3>1, <4>1, <1>12, MaxIs
    <3>3. y \in 0 .. z - 1 /\ t.flags[Probe(n, k, y)] = "deleted"
      BY <3>2
    <3>4. Site(t, k) = Probe(n, k, y)
      BY <3>1, <1>13, <1>16, <2>4
    <3>5. y \in 0 .. n - 1 /\ \A r \in 0 .. y - 1 : r \in 0 .. z - 1
      BY <3>3, <1>1, <1>12
    <3>6. Reached(n, t.flags, k, Site(t, k))
      BY <3>4, <3>5, <1>14 DEF Reached
    <3>7. QED
      BY <3>3, <3>4, <3>5, <3>6, <2>2, <1>6
  <2>5. QED
    BY <2>3, <2>4
<1>17. QED
  BY <1>15, <1>16

Putting(t, x, k, v) ==
  [t EXCEPT !.flags[x] = "used", !.slots[x] = Entry(k, v),
            !.size = IF kh_exist(t, x) THEN @ ELSE @ + 1,
            !.n_occupied = IF t.flags[x] = "empty" THEN @ + 1 ELSE @]

(* With room, putting gives the key its bucket and leaves the others.      *)
LEMMA PutIn ==
  ASSUME HashOK, NEW n, NEW t, Table(t, n), t.n_occupied < t.upper_bound,
         NEW k \in Key, NEW v \in Val, NEW x, x = Site(t, k),
         NEW d, d = Putting(t, x, k, v)
  PROVE  /\ Table(d, n) /\ x \in 0 .. n - 1
         /\ Used(d) = Used(t) \union {x}
         /\ d.slots[x] = Entry(k, v)
         /\ \A b \in Used(t) \ {x} : d.slots[b] = t.slots[b] /\ t.slots[b].key # k
         /\ x \in Used(t) => t.slots[x].key = k
         /\ d.n_occupied >= t.n_occupied /\ d.n_occupied <= t.n_occupied + 1
<1>1. n \in Nat /\ Sized(n) /\ Fields(t) /\ Contents(t, n) /\ Counts(t, n)
  BY DEF Table
<1>2. t.flags \in [0 .. n - 1 -> Flags] /\ t.slots \in [0 .. n - 1 -> Entries \union {NoEntry}]
  BY <1>1 DEF Contents
<1>3. /\ IsFiniteSet(Used(t)) /\ Cardinality(Used(t)) \in Nat
      /\ IsFiniteSet(Filled(t.flags)) /\ Cardinality(Filled(t.flags)) \in Nat
  BY <1>1, <1>2, Buckets
<1>4. \A b : b \in Used(t) <=> b \in 0 .. n - 1 /\ t.flags[b] = "used"
  BY <1>1, <1>2, Buckets
<1>5. /\ x \in 0 .. n - 1
      /\ \A b \in Used(t) : t.slots[b].key = k => x = b
      /\ (\A b \in Used(t) : t.slots[b].key # k) =>
           t.flags[x] # "used" /\ Reached(n, t.flags, k, x)
  BY SiteIs
<1>6. x \in Used(t) => t.slots[x].key = k
  BY <1>4, <1>5
<1>7. /\ d.flags = [t.flags EXCEPT ![x] = "used"]
      /\ d.slots = [t.slots EXCEPT ![x] = Entry(k, v)]
      /\ d.size = IF t.flags[x] = "used" THEN t.size ELSE t.size + 1
      /\ d.n_occupied = IF t.flags[x] = "empty" THEN t.n_occupied + 1 ELSE t.n_occupied
      /\ d.upper_bound = t.upper_bound /\ Fields(d)
  BY <1>1 DEF Fields, Putting, kh_exist
<1>8. Entry(k, v) \in Entries /\ Entry(k, v).key = k
  BY DEF Entry, Entries
<1>9. d.flags \in [0 .. n - 1 -> Flags] /\ d.slots \in [0 .. n - 1 -> Entries \union {NoEntry}]
  <2>1. PICK D : D = 0 .. n - 1
    OBVIOUS
  <2>2. "used" \in Flags
    BY DEF Flags
  <2>3. \A f \in [D -> Flags] : [f EXCEPT ![x] = "used"] \in [D -> Flags]
    BY <2>2
  <2>4. \A f \in [D -> Entries \union {NoEntry}] :
          [f EXCEPT ![x] = Entry(k, v)] \in [D -> Entries \union {NoEntry}]
    BY <1>8
  <2>5. QED
    BY <2>1, <2>3, <2>4, <1>2, <1>7
<1>10. \A b : b \in Used(d) <=> b \in 0 .. n - 1 /\ d.flags[b] = "used"
  BY <1>9, <1>1, Buckets
<1>11. \A b \in 0 .. n - 1 :
         /\ d.flags[b] = IF b = x THEN "used" ELSE t.flags[b]
         /\ d.slots[b] = IF b = x THEN Entry(k, v) ELSE t.slots[b]
  BY <1>7, <1>2
<1>12. Used(d) = Used(t) \union {x}
  BY <1>4, <1>5, <1>10, <1>11
<1>13. d.slots[x] = Entry(k, v)
  BY <1>5, <1>11
<1>14. \A b \in Used(t) \ {x} : d.slots[b] = t.slots[b] /\ t.slots[b].key # k
  BY <1>4, <1>5, <1>11
<1>15. Contents(d, n)
  <2>1. \A c \in 0 .. n - 1 : t.flags[c] # "empty" => d.flags[c] # "empty"
    BY <1>11
  <2>2. \A b \in Used(d) : d.slots[b] \in Entries /\ Reached(n, d.flags, d.slots[b].key, b)
    <3>1. TAKE b \in Used(d)
    <3>2. CASE b \in Used(t)
      <4>1. t.slots[b] \in Entries /\ Reached(n, t.flags, t.slots[b].key, b)
        BY <3>2, <1>1 DEF Contents
      <4>2. t.slots[b].key \in Key
        BY <4>1 DEF Entries
      <4>3. Reached(n, d.flags, t.slots[b].key, b)
        BY <4>1, <4>2, <2>1, <1>1, ReachKept
      <4>4. d.slots[b].key = t.slots[b].key /\ d.slots[b] \in Entries
        <5>1. CASE b = x
          BY <5>1, <3>2, <1>6, <1>8, <1>13
        <5>2. CASE b # x
          BY <5>2, <3>2, <4>1, <1>14
        <5>3. QED
          BY <5>1, <5>2
      <4>5. QED
        BY <4>3, <4>4
    <3>3. CASE b \notin Used(t)
      <4>1. b = x
        BY <3>3, <1>12
      <4>2. \A c \in Used(t) : t.slots[c].key # k
        BY <3>3, <4>1, <1>5
      <4>3. Reached(n, t.flags, k, x)
        BY <4>2, <1>5
      <4>4. Reached(n, d.flags, k, x)
        BY <4>3, <2>1, <1>1, ReachKept
      <4>5. QED
        BY <4>1, <4>4, <1>8, <1>13
    <3>4. QED
      BY <3>2, <3>3
  <2>3. \A b, c \in Used(d) : d.slots[b].key = d.slots[c].key => b = c
    <3>1. \A b \in Used(d) : b = x \/ b \in Used(t) \ {x}
      BY <1>12
    <3>2. \A b, c \in Used(t) : t.slots[b].key = t.slots[c].key => b = c
      BY <1>1 DEF Contents
    <3>3. QED
      BY <3>1, <3>2, <1>8, <1>13, <1>14
  <2>4. QED
    BY <2>2, <2>3, <1>9 DEF Contents
<1>16. Counts(d, n)
  <2>1. Cardinality(Used(d)) = IF x \in Used(t) THEN Cardinality(Used(t))
                               ELSE Cardinality(Used(t)) + 1
    BY <1>3, <1>12, FS_AddElement
  <2>2. x \in Used(t) <=> t.flags[x] = "used"
    BY <1>4, <1>5
  <2>3. Filled(d.flags) = Filled(t.flags) \union {x}
    <3>1. DOMAIN d.flags = 0 .. n - 1 /\ DOMAIN t.flags = 0 .. n - 1
      BY <1>2, <1>9
    <3>2. QED
      BY <3>1, <1>5, <1>11 DEF Filled
  <2>4. Cardinality(Filled(d.flags)) = IF x \in Filled(t.flags) THEN Cardinality(Filled(t.flags))
                                       ELSE Cardinality(Filled(t.flags)) + 1
    BY <1>3, <2>3, FS_AddElement
  <2>5. x \in Filled(t.flags) <=> t.flags[x] # "empty"
    BY <1>2, <1>5 DEF Filled
  <2>6. d.size = Cardinality(Used(d)) /\ d.n_occupied = Cardinality(Filled(d.flags))
    BY <2>1, <2>2, <2>4, <2>5, <1>1, <1>7 DEF Counts
  <2>7. d.n_occupied <= d.upper_bound
    <3>1. t.n_occupied \in Nat /\ t.upper_bound \in Nat
      <4>1. t.n_occupied \in Nat
        BY <1>1, <1>3 DEF Counts
      <4>2. t.upper_bound = IF n = 0 THEN 0 ELSE ac_hash_upper(n)
        BY <1>1 DEF Counts
      <4>3. ac_hash_upper(n) \in Nat
        BY <1>1 DEF ac_hash_upper
      <4>4. QED
        BY <4>1, <4>2, <4>3
    <3>2. QED
      BY <3>1, <1>7
  <2>8. QED
    BY <2>6, <2>7, <1>1, <1>7 DEF Counts
<1>17. d.n_occupied >= t.n_occupied /\ d.n_occupied <= t.n_occupied + 1
  <2>1. t.n_occupied \in Nat
    BY <1>1, <1>3 DEF Counts
  <2>2. QED
    BY <2>1, <1>7
<1>18. QED
  BY <1>1, <1>5, <1>6, <1>7, <1>12, <1>13, <1>14, <1>15, <1>16, <1>17 DEF Table

-----------------------------------------------------------------------------
(* The rehash, a turn at a time.                                           *)

OldUsed(w) == {b \in DOMAIN w.old : w.old[b] = "used"}
NewUsed(w) == {b \in DOMAIN w.new : w.new[b] = "used"}
Held(w) == OldUsed(w) \union NewUsed(w)

Assoc(t) == {t.slots[b] : b \in Used(t)}
Others(t, k) == {e \in Assoc(t) : e.key # k}

Places(n) ==
  [old : [0 .. n - 1 -> Flags], new : [0 .. n - 1 -> {"empty", "used"}],
   slots : [0 .. n - 1 -> Entries \union {NoEntry}],
   at : 0 .. n, hand : Entries \union {NoEntry}]

(* Each entry of the table t is in one place: in hand, or in a bucket that *)
(* one of the two sets of flags has in use, and the new one says where it  *)
(* is found.                                                               *)
Working(t, n, w) ==
  /\ w \in Places(n)
  /\ OldUsed(w) \intersect NewUsed(w) = {}
  /\ \A b \in OldUsed(w) : b >= w.at
  /\ NoEntry \notin Assoc(t)
  /\ \A b \in Held(w) : w.slots[b] \in Entries /\ w.slots[b] \in Assoc(t)
  /\ w.hand # NoEntry => w.hand \in Assoc(t)
  /\ \A e \in Assoc(t) : w.hand = e \/ \E b \in Held(w) : w.slots[b] = e
  /\ \A b, c \in Held(w) : w.slots[b].key = w.slots[c].key => b = c
  /\ w.hand # NoEntry => \A b \in Held(w) : w.slots[b].key # w.hand.key
  /\ \A b \in NewUsed(w) : Reached(n, w.new, w.slots[b].key, b)
  /\ Cardinality(OldUsed(w)) + Cardinality(NewUsed(w)) + (IF w.hand = NoEntry THEN 0 ELSE 1) = t.size

(* What stands for no entry is none.                                       *)
LEMMA Nothing == NoEntry \notin Entries
<1>1. DOMAIN NoEntry = {"key"}
  BY DEF NoEntry
<1>2. \A e \in Entries : DOMAIN e = {"key", "val"}
  BY DEF Entries
<1>3. "val" \notin {"key"}
  OBVIOUS
<1>4. QED
  BY <1>1, <1>2, <1>3

(* The buckets in use in the work of a rehash, in the old and in the new   *)
(* table.                                                                  *)
LEMMA Sets ==
  ASSUME NEW n \in Nat, NEW w \in Places(n)
  PROVE  /\ \A b : b \in OldUsed(w) <=> b \in 0 .. n - 1 /\ w.old[b] = "used"
         /\ \A b : b \in NewUsed(w) <=> b \in 0 .. n - 1 /\ w.new[b] = "used"
         /\ IsFiniteSet(OldUsed(w)) /\ IsFiniteSet(NewUsed(w))
         /\ Cardinality(OldUsed(w)) \in Nat /\ Cardinality(NewUsed(w)) \in Nat
<1>1. \A b : b \in OldUsed(w) <=> b \in 0 .. n - 1 /\ w.old[b] = "used"
  BY DEF OldUsed, Places
<1>2. \A b : b \in NewUsed(w) <=> b \in 0 .. n - 1 /\ w.new[b] = "used"
  BY DEF NewUsed, Places
<1>3. IsFiniteSet(0 .. n - 1)
  <2>1. 0 \in Int /\ n - 1 \in Int
    OBVIOUS
  <2>2. QED
    BY <2>1, FS_Interval
<1>4. OldUsed(w) \subseteq 0 .. n - 1 /\ NewUsed(w) \subseteq 0 .. n - 1
  BY <1>1, <1>2
<1>5. QED
  BY <1>1, <1>2, <1>3, <1>4, FS_Subset, FS_CardinalityType

(* A key in hand finds an empty bucket, and is found there.                *)
LEMMA VacantIs ==
  ASSUME HashOK, NEW n \in Nat, Sized(n), n # 0, NEW k \in Key,
         NEW f \in [0 .. n - 1 -> {"empty", "used"}], NEW e \in 0 .. n - 1, f[e] = "empty"
  PROVE  Vacant(f, k) \in 0 .. n - 1 /\ f[Vacant(f, k)] = "empty" /\ Reached(n, f, k, Vacant(f, k))
<1>1. PICK i \in Nat : n = Power[i]
  BY DEF Sized
<1>2. hash[k] \in Nat
  BY DEF HashOK
<1>3. PICK m \in n .. 2 * n : Round(n, k) = 0 .. m - 1
  BY <1>1, <1>2, Probing
<1>4. \A s \in Nat : Probe(n, k, s) \in 0 .. n - 1
  BY <1>1, <1>2, Probing
<1>5. PICK s \in 0 .. n - 1 : Probe(n, k, s) = e
  <2>1. PICK h \in Nat : h = n /\ h = Power[i]
    BY <1>1
  <2>2. \A b \in 0 .. h - 1 : \E s \in 0 .. h - 1 : Probe(h, k, s) = b
    BY <2>1, <1>2, Everywhere
  <2>3. QED
    BY <2>1, <2>2
<1> DEFINE T == {r \in Round(n, k) : f[Probe(n, k, r)] = "empty"}
           z == Min(T)
<1>6. T \in SUBSET Nat /\ s \in T /\ \A r \in 0 .. m - 1 : f[Probe(n, k, r)] = "empty" => r \in T
  BY <1>3, <1>5
<1>7. \A r \in T : f[Probe(n, k, r)] = "empty"
  OBVIOUS
<1>8. Cardinality(DOMAIN f) = n
  <2>1. 0 \in Int /\ n - 1 \in Int /\ DOMAIN f = 0 .. n - 1
    OBVIOUS
  <2>2. Cardinality(0 .. n - 1) = IF 0 > n - 1 THEN 0 ELSE (n - 1) - 0 + 1
    BY <2>1, FS_Interval
  <2>3. (IF 0 > n - 1 THEN 0 ELSE (n - 1) - 0 + 1) = n
    OBVIOUS
  <2>4. QED
    BY <2>1, <2>2, <2>3
<1>9. Vacant(f, k) = Probe(n, k, z)
  BY <1>8 DEF Vacant
<1> HIDE DEF T
<1>10. z \in T /\ \A r \in T : z <= r
  BY <1>6, MinIs
<1> HIDE DEF z
<1>11. z \in Nat /\ z \in 0 .. n - 1
  BY <1>6, <1>10
<1>12. \A r \in 0 .. z - 1 : f[Probe(n, k, r)] # "empty"
  <2>1. TAKE r \in 0 .. z - 1
  <2>2. r \in 0 .. m - 1 /\ r < z
    BY <1>3, <1>11
  <2>3. r \notin T
    BY <2>2, <1>6, <1>10
  <2>4. QED
    BY <2>2, <2>3, <1>6
<1>13. Reached(n, f, k, Probe(n, k, z))
  BY <1>11, <1>12 DEF Reached
<1>14. QED
  BY <1>4, <1>7, <1>9, <1>10, <1>11, <1>13

(* The next bucket of the old table.                                       *)
LEMMA TakeKeeps ==
  ASSUME HashOK, NEW n \in Nat, NEW t, NEW w, Working(t, n, w),
         w.hand = NoEntry, w.at < n
  PROVE  /\ Working(t, n, Take(w))
         /\ Take(w).at + Cardinality(NewUsed(Take(w))) = w.at + Cardinality(NewUsed(w)) + 1
<1>1. /\ w \in Places(n) /\ w.at \in 0 .. n
      /\ w.old \in [0 .. n - 1 -> Flags] /\ w.new \in [0 .. n - 1 -> {"empty", "used"}]
      /\ w.slots \in [0 .. n - 1 -> Entries \union {NoEntry}]
  BY DEF Working, Places
<1>2. /\ \A b : b \in OldUsed(w) <=> b \in 0 .. n - 1 /\ w.old[b] = "used"
      /\ \A b : b \in NewUsed(w) <=> b \in 0 .. n - 1 /\ w.new[b] = "used"
      /\ IsFiniteSet(OldUsed(w))
      /\ Cardinality(OldUsed(w)) \in Nat /\ Cardinality(NewUsed(w)) \in Nat
  BY <1>1, Sets
<1>3. PICK a \in 0 .. n - 1 : a = w.at
  BY <1>1
<1>4. CASE w.old[a] = "used"
  <2>1. PICK x : x = Take(w)
    OBVIOUS
  <2>2. x = [w EXCEPT !.old[a] = "deleted", !.hand = w.slots[a], !.at = a + 1]
    BY <2>1, <1>3, <1>4 DEF Take
  <2>3. a \in OldUsed(w) /\ a \in Held(w) /\ w.slots[a] \in Entries /\ w.slots[a] \in Assoc(t)
    BY <1>2, <1>4 DEF Working, Held
  <2>4. /\ x.old = [w.old EXCEPT ![a] = "deleted"] /\ x.new = w.new /\ x.slots = w.slots
        /\ x.hand = w.slots[a] /\ x.at = a + 1
        /\ x \in Places(n)
    <3>1. x = [old |-> [w.old EXCEPT ![a] = "deleted"], new |-> w.new, slots |-> w.slots,
               at |-> a + 1, hand |-> w.slots[a]]
      BY <2>2, <1>1 DEF Places
    <3>2. a + 1 \in 0 .. n /\ [w.old EXCEPT ![a] = "deleted"] \in [0 .. n - 1 -> Flags]
      BY <1>1 DEF Flags
    <3>3. QED
      BY <3>1, <3>2, <2>3, <1>1 DEF Places
  <2>5. OldUsed(x) = OldUsed(w) \ {a}
    <3>1. \A b : b \in OldUsed(x) <=> b \in 0 .. n - 1 /\ x.old[b] = "used"
      BY <2>4, Sets
    <3>2. QED
      BY <3>1, <2>4, <1>1, <1>2
  <2>6. NewUsed(x) = NewUsed(w)
    BY <2>4 DEF NewUsed
  <2>7. a \notin NewUsed(w)
    BY <2>3 DEF Working
  <2>8. Held(x) = Held(w) \ {a}
    BY <2>5, <2>6, <2>7 DEF Held
  <2>9. Cardinality(OldUsed(x)) = Cardinality(OldUsed(w)) - 1
    BY <2>3, <2>5, <1>2, FS_RemoveElement
  <2>10. x.hand # NoEntry
    BY <2>3, <2>4, Nothing
  <2>11. OldUsed(x) \intersect NewUsed(x) = {} /\ \A b \in OldUsed(x) : b >= x.at
    <3>1. \A b \in OldUsed(w) : b >= a /\ b \in Nat
      BY <1>2, <1>3 DEF Working
    <3>2. \A b \in OldUsed(w) \ {a} : b >= a + 1
      BY <3>1
    <3>3. OldUsed(x) \intersect NewUsed(x) = {}
      BY <2>5, <2>6 DEF Working
    <3>4. QED
      BY <3>2, <3>3, <2>4, <2>5
  <2>12. /\ \A b \in Held(x) : x.slots[b] \in Entries /\ x.slots[b] \in Assoc(t)
         /\ x.hand # NoEntry => x.hand \in Assoc(t)
         /\ \A b, c \in Held(x) : x.slots[b].key = x.slots[c].key => b = c
         /\ \A b \in Held(x) : x.slots[b].key # x.hand.key
    BY <2>3, <2>4, <2>8 DEF Working
  <2>13. \A e \in Assoc(t) : x.hand = e \/ \E b \in Held(x) : x.slots[b] = e
    <3>1. TAKE e \in Assoc(t)
    <3>2. PICK b \in Held(w) : w.slots[b] = e
      <4>1. w.hand # e
        BY DEF Working
      <4>2. QED
        BY <4>1 DEF Working
    <3>3. QED
      BY <3>2, <2>4, <2>8
  <2>14. \A b \in NewUsed(x) : Reached(n, x.new, x.slots[b].key, b)
    BY <2>4, <2>6 DEF Working
  <2>15. Cardinality(OldUsed(x)) + Cardinality(NewUsed(x)) + (IF x.hand = NoEntry THEN 0 ELSE 1) = t.size
    BY <2>6, <2>9, <2>10, <1>2 DEF Working
  <2>16. Working(t, n, x)
    BY <2>4, <2>11, <2>12, <2>13, <2>14, <2>15 DEF Working
  <2>17. QED
    BY <2>1, <2>4, <2>6, <2>16, <1>2, <1>3
<1>5. CASE w.old[a] # "used"
  <2>1. PICK x : x = Take(w)
    OBVIOUS
  <2>2. x = [w EXCEPT !.at = a + 1]
    BY <2>1, <1>3, <1>5 DEF Take
  <2>3. /\ x.old = w.old /\ x.new = w.new /\ x.slots = w.slots
        /\ x.hand = w.hand /\ x.at = a + 1
        /\ x \in Places(n)
    <3>1. x = [old |-> w.old, new |-> w.new, slots |-> w.slots, at |-> a + 1, hand |-> w.hand]
      BY <2>2, <1>1 DEF Places
    <3>2. a + 1 \in 0 .. n /\ w.hand \in Entries \union {NoEntry}
      BY <1>1 DEF Places
    <3>3. QED
      BY <3>1, <3>2, <1>1 DEF Places
  <2>4. OldUsed(x) = OldUsed(w) /\ NewUsed(x) = NewUsed(w) /\ Held(x) = Held(w)
    BY <2>3 DEF OldUsed, NewUsed, Held
  <2>5. \A b \in OldUsed(x) : b >= x.at
    <3>1. \A b \in OldUsed(w) : b >= a /\ b \in Nat /\ b # a
      BY <1>2, <1>3, <1>5 DEF Working
    <3>2. QED
      BY <3>1, <2>3, <2>4
  <2>6. Working(t, n, x)
    BY <2>3, <2>4, <2>5 DEF Working
  <2>7. QED
    BY <2>1, <2>3, <2>4, <2>6, <1>2, <1>3
<1>6. QED
  BY <1>4, <1>5

(* The entry in hand gets its bucket in the new table, and what was there  *)
(* in the old one is in hand.                                              *)
LEMMA PlaceKeeps ==
  ASSUME HashOK, NEW n \in Nat, Sized(n), NEW t, t.size \in Nat, t.size < n,
         NEW w, Working(t, n, w), w.hand # NoEntry
  PROVE  /\ Working(t, n, Place(w))
         /\ Place(w).at + Cardinality(NewUsed(Place(w))) = w.at + Cardinality(NewUsed(w)) + 1
<1>1. /\ w \in Places(n) /\ w.at \in 0 .. n
      /\ w.old \in [0 .. n - 1 -> Flags] /\ w.new \in [0 .. n - 1 -> {"empty", "used"}]
      /\ w.slots \in [0 .. n - 1 -> Entries \union {NoEntry}]
  BY DEF Working, Places
<1>2. /\ \A b : b \in OldUsed(w) <=> b \in 0 .. n - 1 /\ w.old[b] = "used"
      /\ \A b : b \in NewUsed(w) <=> b \in 0 .. n - 1 /\ w.new[b] = "used"
      /\ IsFiniteSet(OldUsed(w)) /\ IsFiniteSet(NewUsed(w))
      /\ Cardinality(OldUsed(w)) \in Nat /\ Cardinality(NewUsed(w)) \in Nat
  BY <1>1, Sets
<1>3. PICK h \in Entries : h = w.hand /\ h.key \in Key /\ h \in Assoc(t)
  <2>1. w.hand \in Entries
    BY <1>1 DEF Working, Places
  <2>2. w.hand.key \in Key
    BY <2>1 DEF Entries
  <2>3. QED
    BY <2>1, <2>2 DEF Working
<1>4. Cardinality(OldUsed(w)) + Cardinality(NewUsed(w)) + 1 = t.size
  BY DEF Working
<1>5. PICK e \in 0 .. n - 1 : w.new[e] = "empty"
  <2>1. SUFFICES ASSUME \A e \in 0 .. n - 1 : w.new[e] # "empty" PROVE FALSE
    OBVIOUS
  <2>2. \A e \in 0 .. n - 1 : w.new[e] = "used"
    BY <2>1, <1>1
  <2>3. NewUsed(w) = 0 .. n - 1
    BY <2>2, <1>2
  <2>4. 0 \in Int /\ n - 1 \in Int
    OBVIOUS
  <2>5. Cardinality(0 .. n - 1) = IF 0 > n - 1 THEN 0 ELSE (n - 1) - 0 + 1
    BY <2>4, FS_Interval
  <2>6. (IF 0 > n - 1 THEN 0 ELSE (n - 1) - 0 + 1) = n
    OBVIOUS
  <2>7. Cardinality(NewUsed(w)) = n
    BY <2>3, <2>5, <2>6
  <2>8. QED
    BY <2>7, <1>2, <1>4
<1>6. n # 0
  BY <1>5
<1>7. PICK i \in 0 .. n - 1 : /\ i = Vacant(w.new, h.key) /\ w.new[i] = "empty"
                              /\ Reached(n, w.new, h.key, i)
  BY <1>1, <1>3, <1>5, <1>6, VacantIs
<1>8. PICK x : x = Place(w)
  OBVIOUS
<1> DEFINE kicked == IF w.old[i] = "used" THEN w.slots[i] ELSE NoEntry
<1>9. x = [w EXCEPT !.new[i] = "used", !.old[i] = "deleted", !.slots[i] = h, !.hand = kicked]
  BY <1>3, <1>7, <1>8 DEF Place
<1>10. i \in OldUsed(w) <=> w.old[i] = "used"
  BY <1>2
<1>11. i \in OldUsed(w) => i \in Held(w) /\ w.slots[i] \in Entries /\ w.slots[i] \in Assoc(t)
  BY DEF Working, Held
<1>12. /\ x.old = [w.old EXCEPT ![i] = "deleted"] /\ x.new = [w.new EXCEPT ![i] = "used"]
       /\ x.slots = [w.slots EXCEPT ![i] = h] /\ x.hand = kicked /\ x.at = w.at
       /\ x \in Places(n)
  <2>1. x = [old |-> [w.old EXCEPT ![i] = "deleted"], new |-> [w.new EXCEPT ![i] = "used"],
             slots |-> [w.slots EXCEPT ![i] = h], at |-> w.at, hand |-> kicked]
    BY <1>1, <1>9 DEF Places
  <2>2. [w.old EXCEPT ![i] = "deleted"] \in [0 .. n - 1 -> Flags]
    BY <1>1 DEF Flags
  <2>3. [w.new EXCEPT ![i] = "used"] \in [0 .. n - 1 -> {"empty", "used"}]
    BY <1>1
  <2>4. [w.slots EXCEPT ![i] = h] \in [0 .. n - 1 -> Entries \union {NoEntry}]
    BY <1>1
  <2>5. kicked \in Entries \union {NoEntry}
    BY <1>10, <1>11
  <2> HIDE DEF kicked
  <2>6. QED
    BY <2>1, <2>2, <2>3, <2>4, <2>5, <1>1 DEF Places
<1>13. /\ \A b : b \in OldUsed(x) <=> b \in 0 .. n - 1 /\ x.old[b] = "used"
       /\ \A b : b \in NewUsed(x) <=> b \in 0 .. n - 1 /\ x.new[b] = "used"
  BY <1>12, Sets
<1>14. OldUsed(x) = OldUsed(w) \ {i} /\ NewUsed(x) = NewUsed(w) \union {i} /\ i \notin NewUsed(w)
  <2>1. \A b \in 0 .. n - 1 : /\ x.old[b] = IF b = i THEN "deleted" ELSE w.old[b]
                              /\ x.new[b] = IF b = i THEN "used" ELSE w.new[b]
    BY <1>1, <1>12
  <2>2. OldUsed(x) = OldUsed(w) \ {i}
    BY <2>1, <1>2, <1>13
  <2>3. NewUsed(x) = NewUsed(w) \union {i}
    BY <2>1, <1>2, <1>13
  <2>4. i \notin NewUsed(w)
    BY <1>2, <1>7
  <2>5. QED
    BY <2>2, <2>3, <2>4
<1>15. /\ \A b \in Held(x) : b = i \/ b \in Held(w)
       /\ \A b \in Held(w) : b \in Held(x)
       /\ i \in Held(x) /\ Held(w) \subseteq 0 .. n - 1
  BY <1>2, <1>14 DEF Held
<1>16. /\ x.slots[i] = h /\ \A b \in Held(w) : b # i => x.slots[b] = w.slots[b]
  BY <1>1, <1>12, <1>15
<1>17. i \in OldUsed(w) => x.hand = w.slots[i] /\ x.hand # NoEntry
  <2>1. i \in OldUsed(w) => x.hand = w.slots[i]
    BY <1>10, <1>12
  <2>2. QED
    BY <2>1, <1>11, Nothing
<1>18. i \notin OldUsed(w) => x.hand = NoEntry
  BY <1>10, <1>12
<1> HIDE DEF kicked
<1>19. OldUsed(x) \intersect NewUsed(x) = {} /\ \A b \in OldUsed(x) : b >= x.at
  BY <1>12, <1>14 DEF Working
<1>20. \A b \in Held(x) : x.slots[b] \in Entries /\ x.slots[b] \in Assoc(t)
  BY <1>3, <1>15, <1>16 DEF Working
<1>21. x.hand # NoEntry => x.hand \in Assoc(t)
  BY <1>11, <1>17, <1>18
<1>22. \A a \in Assoc(t) : x.hand = a \/ \E b \in Held(x) : x.slots[b] = a
  <2>1. TAKE a \in Assoc(t)
  <2>2. CASE w.hand = a
    BY <2>2, <1>3, <1>15, <1>16
  <2>3. ASSUME NEW b \in Held(w), w.slots[b] = a
        PROVE  x.hand = a \/ \E c \in Held(x) : x.slots[c] = a
    <3>1. CASE b = i
      <4>1. i \in OldUsed(w)
        BY <3>1, <1>14 DEF Held
      <4>2. QED
        BY <2>3, <3>1, <4>1, <1>17
    <3>2. CASE b # i
      BY <2>3, <3>2, <1>15, <1>16
    <3>3. QED
      BY <3>1, <3>2
  <2>4. QED
    BY <2>2, <2>3 DEF Working
<1>23. \A b \in Held(w) : w.slots[b].key # h.key
  BY <1>3 DEF Working
<1>24. \A b, c \in Held(w) : w.slots[b].key = w.slots[c].key => b = c
  BY DEF Working
<1>25. \A b, c \in Held(x) : x.slots[b].key = x.slots[c].key => b = c
  BY <1>15, <1>16, <1>23, <1>24
<1>26. x.hand # NoEntry => \A b \in Held(x) : x.slots[b].key # x.hand.key
  <2>1. SUFFICES ASSUME x.hand # NoEntry, NEW b \in Held(x), x.slots[b].key = x.hand.key
                 PROVE  FALSE
    OBVIOUS
  <2>2. i \in Held(w) /\ x.hand = w.slots[i]
    BY <2>1, <1>11, <1>17, <1>18
  <2>3. CASE b = i
    BY <2>1, <2>2, <2>3, <1>16, <1>23
  <2>4. CASE b # i
    BY <2>1, <2>2, <2>4, <1>15, <1>16, <1>24
  <2>5. QED
    BY <2>3, <2>4
<1>27. \A b \in NewUsed(x) : Reached(n, x.new, x.slots[b].key, b)
  <2>1. \A c \in 0 .. n - 1 : w.new[c] # "empty" => x.new[c] # "empty"
    BY <1>1, <1>12
  <2>2. TAKE b \in NewUsed(x)
  <2>3. CASE b = i
    <3>1. Reached(n, x.new, h.key, i)
      BY <2>1, <1>3, <1>7, ReachKept
    <3>2. QED
      BY <2>3, <3>1, <1>16
  <2>4. CASE b # i
    <3>1. b \in NewUsed(w) /\ b \in Held(w)
      BY <2>4, <1>14 DEF Held
    <3>2. Reached(n, w.new, w.slots[b].key, b) /\ w.slots[b] \in Entries
      BY <3>1 DEF Working
    <3>3. w.slots[b].key \in Key
      BY <3>2 DEF Entries
    <3>4. Reached(n, x.new, w.slots[b].key, b)
      BY <2>1, <3>2, <3>3, ReachKept
    <3>5. QED
      BY <2>4, <3>1, <3>4, <1>16
  <2>5. QED
    BY <2>3, <2>4
<1>28. /\ Cardinality(NewUsed(x)) = Cardinality(NewUsed(w)) + 1
       /\ Cardinality(OldUsed(x)) = IF i \in OldUsed(w) THEN Cardinality(OldUsed(w)) - 1
                                    ELSE Cardinality(OldUsed(w))
  <2>1. Cardinality(NewUsed(x)) = Cardinality(NewUsed(w)) + 1
    <3>1. Cardinality(NewUsed(w) \union {i}) =
            IF i \in NewUsed(w) THEN Cardinality(NewUsed(w)) ELSE Cardinality(NewUsed(w)) + 1
      BY <1>2, FS_AddElement
    <3>2. QED
      BY <3>1, <1>14
  <2>2. Cardinality(OldUsed(x)) = IF i \in OldUsed(w) THEN Cardinality(OldUsed(w)) - 1
                                  ELSE Cardinality(OldUsed(w))
    BY <1>2, <1>14, FS_RemoveElement
  <2>3. QED
    BY <2>1, <2>2
<1>29. Cardinality(OldUsed(x)) + Cardinality(NewUsed(x)) + (IF x.hand = NoEntry THEN 0 ELSE 1) = t.size
  <2>1. CASE i \in OldUsed(w)
    BY <2>1, <1>2, <1>4, <1>17, <1>28
  <2>2. CASE i \notin OldUsed(w)
    BY <2>2, <1>2, <1>4, <1>18, <1>28
  <2>3. QED
    BY <2>1, <2>2
<1>30. Working(t, n, x)
  <2>1. NoEntry \notin Assoc(t)
    BY DEF Working
  <2>2. QED
    BY <2>1, <1>12, <1>19, <1>20, <1>21, <1>22, <1>25, <1>26, <1>27, <1>29 DEF Working
<1>31. QED
  <2>1. x.at + Cardinality(NewUsed(x)) = w.at + Cardinality(NewUsed(w)) + 1
    <3>1. w.at \in Nat /\ x.at = w.at
      BY <1>1, <1>12
    <3>2. QED
      BY <3>1, <1>2, <1>28
  <2>2. QED
    BY <2>1, <1>8, <1>30

(* A turn keeps what holds of the work, and comes closer to its end by one *)
(* until it is there.                                                      *)
LEMMA TurnKeeps ==
  ASSUME HashOK, NEW n \in Nat, Sized(n), NEW t, t.size \in Nat, t.size < n,
         NEW w, Working(t, n, w)
  PROVE  /\ Working(t, n, Turn(w))
         /\ (w.hand # NoEntry \/ w.at < n) =>
              Turn(w).at + Cardinality(NewUsed(Turn(w))) = w.at + Cardinality(NewUsed(w)) + 1
         /\ (w.hand = NoEntry /\ w.at = n) => Turn(w) = w
<1>1. w.at \in 0 .. n /\ DOMAIN w.old = 0 .. n - 1
  BY DEF Working, Places
<1>2. w.at \in DOMAIN w.old <=> w.at < n
  BY <1>1
<1>3. CASE w.hand # NoEntry
  <2>1. Turn(w) = Place(w)
    BY <1>3 DEF Turn
  <2>2. QED
    BY <2>1, <1>3, PlaceKeeps
<1>4. CASE w.hand = NoEntry /\ w.at < n
  <2>1. Turn(w) = Take(w)
    BY <1>2, <1>4 DEF Turn
  <2>2. QED
    BY <2>1, <1>1, <1>4, TakeKeeps
<1>5. CASE w.hand = NoEntry /\ ~ w.at < n
  <2>1. Turn(w) = w
    BY <1>2, <1>5 DEF Turn
  <2>2. QED
    BY <2>1, <1>5
<1>6. QED
  BY <1>3, <1>4, <1>5

Beginning(t, n) ==
  [old   |-> Spread(t.flags, n, "deleted"),
   new   |-> [i \in 0 .. n - 1 |-> "empty"],
   slots |-> Spread(t.slots, n, NoEntry),
   at    |-> 0,
   hand  |-> NoEntry]

(* The work of a rehash begins with all entries in the old table.          *)
LEMMA Begins ==
  ASSUME NEW m, NEW t, Table(t, m), NEW n \in Nat, m <= n
  PROVE  /\ Working(t, n, Beginning(t, n))
         /\ Beginning(t, n).at = 0 /\ Cardinality(NewUsed(Beginning(t, n))) = 0
<1>1. m \in Nat /\ Contents(t, m) /\ Counts(t, m)
  BY DEF Table
<1>2. t.flags \in [0 .. m - 1 -> Flags] /\ t.slots \in [0 .. m - 1 -> Entries \union {NoEntry}]
  BY <1>1 DEF Contents
<1>3. \A b : b \in Used(t) <=> b \in 0 .. m - 1 /\ t.flags[b] = "used"
  BY <1>1, <1>2, Buckets
<1>4. Cardinality(Used(t)) \in Nat
  BY <1>1, <1>2, Buckets
<1>5. PICK w : w = Beginning(t, n)
  OBVIOUS
<1>6. /\ w.old = [i \in 0 .. n - 1 |-> IF i \in 0 .. m - 1 THEN t.flags[i] ELSE "deleted"]
      /\ w.new = [i \in 0 .. n - 1 |-> "empty"]
      /\ w.slots = [i \in 0 .. n - 1 |-> IF i \in 0 .. m - 1 THEN t.slots[i] ELSE NoEntry]
      /\ w.at = 0 /\ w.hand = NoEntry
  BY <1>2, <1>5 DEF Beginning, Spread
<1>7. w \in Places(n)
  <2>1. w.old \in [0 .. n - 1 -> Flags]
    BY <1>2, <1>6 DEF Flags
  <2>2. w.new \in [0 .. n - 1 -> {"empty", "used"}]
    BY <1>6
  <2>3. w.slots \in [0 .. n - 1 -> Entries \union {NoEntry}]
    BY <1>2, <1>6
  <2>4. w = [old |-> w.old, new |-> w.new, slots |-> w.slots, at |-> w.at, hand |-> w.hand]
    BY <1>5 DEF Beginning
  <2>5. w.at \in 0 .. n /\ w.hand \in Entries \union {NoEntry}
    BY <1>6
  <2>6. QED
    BY <2>1, <2>2, <2>3, <2>4, <2>5 DEF Places
<1>8. /\ \A b : b \in OldUsed(w) <=> b \in 0 .. n - 1 /\ w.old[b] = "used"
      /\ \A b : b \in NewUsed(w) <=> b \in 0 .. n - 1 /\ w.new[b] = "used"
  BY <1>7, Sets
<1>9. NewUsed(w) = {}
  BY <1>6, <1>8
<1>10. OldUsed(w) = Used(t)
  <2>1. \A b \in 0 .. m - 1 : b \in 0 .. n - 1
    BY <1>1
  <2>2. \A b \in 0 .. n - 1 : w.old[b] = IF b \in 0 .. m - 1 THEN t.flags[b] ELSE "deleted"
    BY <1>6
  <2>3. QED
    BY <2>1, <2>2, <1>3, <1>8
<1>11. \A b \in Used(t) : w.slots[b] = t.slots[b]
  BY <1>1, <1>3, <1>6
<1>12. Held(w) = Used(t)
  BY <1>9, <1>10 DEF Held
<1>13. \A b \in Used(t) : t.slots[b] \in Entries
  BY <1>1 DEF Contents
<1>14. NoEntry \notin Assoc(t)
  BY <1>13, Nothing DEF Assoc
<1>15. \A b, c \in Used(t) : t.slots[b].key = t.slots[c].key => b = c
  BY <1>1 DEF Contents
<1>16. Cardinality(NewUsed(w)) = 0
  BY <1>9, FS_EmptySet
<1>17. Cardinality(OldUsed(w)) + Cardinality(NewUsed(w)) + (IF w.hand = NoEntry THEN 0 ELSE 1) = t.size
  BY <1>1, <1>4, <1>6, <1>10, <1>16 DEF Counts
<1>18. \A b \in OldUsed(w) : b >= w.at
  <2>1. \A b \in OldUsed(w) : b \in 0 .. n - 1
    BY <1>8
  <2>2. \A b \in 0 .. n - 1 : b >= 0
    OBVIOUS
  <2>3. QED
    BY <2>1, <2>2, <1>6
<1>19. /\ \A b \in Held(w) : w.slots[b] \in Entries /\ w.slots[b] \in Assoc(t)
       /\ \A e \in Assoc(t) : w.hand = e \/ \E b \in Held(w) : w.slots[b] = e
       /\ \A b, c \in Held(w) : w.slots[b].key = w.slots[c].key => b = c
  BY <1>11, <1>12, <1>13, <1>15 DEF Assoc
<1>20. Working(t, n, w)
  BY <1>6, <1>7, <1>9, <1>14, <1>17, <1>18, <1>19 DEF Working
<1>21. QED
  BY <1>5, <1>6, <1>16, <1>20

(* The loop over the old table ends with every entry in the new one.       *)
LEMMA Rehashed ==
  ASSUME HashOK, NEW m, NEW t, Table(t, m), NEW n \in Nat, Sized(n), m <= n, t.size < n
  PROVE  /\ Working(t, n, Rehash(t, n))
         /\ Rehash(t, n).at = n /\ Rehash(t, n).hand = NoEntry
<1>1. t.size \in Nat
  BY Sizes
<1> DEFINE U == {w \in Places(n) : Working(t, n, w)}
           a == Beginning(t, n)
           g == [p \in (1 .. 2 * n) \X U |-> Turn(p[2])]
<1>2. \A w : w \in U <=> Working(t, n, w)
  BY DEF Working
<1> HIDE DEF U
<1>3. a \in U /\ a.at = 0 /\ Cardinality(NewUsed(a)) = 0
  BY <1>2, Begins
<1>4. \A w \in U : Turn(w) \in U
  BY <1>1, <1>2, TurnKeeps
<1>5. g \in [(1 .. 2 * n) \X U -> U]
  BY <1>4
<1>6. \A k \in 1 .. 2 * n : \A x \in U : g[<< k, x >>] = Turn(x)
  OBVIOUS
<1>7. 2 * n \in Nat
  OBVIOUS
<1> HIDE DEF g, a
<1>8. PICK f : /\ f = [k \in 0 .. 2 * n |-> f[k]] /\ f[0] = a
               /\ \A k \in 1 .. 2 * n : f[k - 1] \in U /\ f[k] = g[<< k, f[k - 1] >>]
  <2>1. \E f : Trace(f, U, 2 * n, a, g)
    BY <1>3, <1>5, <1>7, FoldExists
  <2>2. QED
    BY <2>1 DEF Trace
<1>9. ASSUME NEW k \in 0 .. 2 * n
      PROVE  f[k] = IF k = 0 THEN a ELSE Turn(f[k - 1])
  <2>1. CASE k = 0
    BY <1>8, <2>1
  <2>2. CASE k # 0
    <3>1. k \in 1 .. 2 * n
      BY <2>2
    <3>2. QED
      BY <1>6, <1>8, <2>2, <3>1
  <2>3. QED
    BY <2>1, <2>2
<1> DEFINE w[k \in 0 .. 2 * n] == IF k = 0 THEN a ELSE Turn(w[k - 1])
<1>10. w = [k \in 0 .. 2 * n |-> IF k = 0 THEN a ELSE Turn(w[k - 1])]
  <2>1. f = [k \in 0 .. 2 * n |-> IF k = 0 THEN a ELSE Turn(f[k - 1])]
    BY <1>8, <1>9
  <2>2. QED
    BY <2>1
<1>11. Rehash(t, n) = w[2 * n]
  BY DEF Rehash, Beginning, a
<1> HIDE DEF w
<1>12. w[0] = a
  BY <1>7, <1>10
<1>13. \A k \in 1 .. 2 * n : w[k] = Turn(w[k - 1])
  BY <1>10
<1> DEFINE Done(x) == x.hand = NoEntry /\ x.at = n
           So(k) == /\ w[k] \in U
                    /\ Done(w[k]) \/ w[k].at + Cardinality(NewUsed(w[k])) = k
           A == {k \in Nat : k <= 2 * n => So(k)}
<1>14. 0 \in A
  BY <1>3, <1>12
<1>15. \A k \in A : k + 1 \in A
  <2>1. TAKE k \in A
  <2>2. SUFFICES ASSUME k + 1 <= 2 * n PROVE So(k + 1)
    OBVIOUS
  <2>3. So(k) /\ k \in Nat
    BY <2>1, <2>2
  <2>4. w[k + 1] = Turn(w[k])
    <3>1. k + 1 \in 1 .. 2 * n /\ (k + 1) - 1 = k
      BY <2>2, <2>3
    <3>2. QED
      BY <3>1, <1>13
  <2>5. PICK x : x = w[k] /\ x \in U /\ Working(t, n, x)
    BY <2>3, <1>2
  <2>6. x.at \in 0 .. n
    BY <2>5 DEF Working, Places
  <2>7. CASE Done(x)
    <3>1. Turn(x) = x
      BY <2>5, <2>7, <1>1, TurnKeeps
    <3>2. QED
      BY <3>1, <2>4, <2>5, <2>7
  <2>8. CASE ~ Done(x)
    <3>1. x.hand # NoEntry \/ x.at < n
      BY <2>6, <2>8
    <3>2. Turn(x).at + Cardinality(NewUsed(Turn(x))) = x.at + Cardinality(NewUsed(x)) + 1
      BY <3>1, <2>5, <1>1, TurnKeeps
    <3>3. x.at + Cardinality(NewUsed(x)) = k
      BY <2>3, <2>5, <2>8
    <3>4. Turn(x) \in U
      BY <2>5, <1>4
    <3>5. QED
      BY <3>2, <3>3, <3>4, <2>4, <2>5
  <2>9. QED
    BY <2>7, <2>8
<1>16. A = Nat
  <2>1. A \in SUBSET Nat
    OBVIOUS
  <2> HIDE DEF A
  <2>2. QED
    BY <1>14, <1>15, <2>1, NatInd
<1>17. PICK x : x = Rehash(t, n) /\ Working(t, n, x) /\ (Done(x) \/ x.at + Cardinality(NewUsed(x)) = 2 * n)
  <2>1. So(2 * n)
    BY <1>7, <1>16
  <2>2. QED
    BY <2>1, <1>2, <1>11
<1>18. Done(x)
  <2>1. SUFFICES ASSUME x.at + Cardinality(NewUsed(x)) = 2 * n PROVE FALSE
    BY <1>17
  <2>2. x \in Places(n) /\ x.at \in 0 .. n
    BY <1>17 DEF Working, Places
  <2>3. Cardinality(OldUsed(x)) \in Nat /\ Cardinality(NewUsed(x)) \in Nat
    BY <2>2, Sets
  <2>4. Cardinality(NewUsed(x)) <= t.size
    BY <1>17, <2>3, <1>1 DEF Working
  <2>5. QED
    BY <2>1, <2>2, <2>3, <2>4, <1>1
<1>19. QED
  BY <1>17, <1>18

(* The table a rehash ends with.                                           *)
Settling(t, n, w) ==
  [flags |-> w.new,
   slots |-> [i \in 0 .. n - 1 |-> IF w.new[i] = "used" THEN w.slots[i] ELSE NoEntry],
   size |-> t.size, n_occupied |-> t.size, upper_bound |-> ac_hash_upper(n)]

(* When the work is done the new table is one, with the same entries.      *)
LEMMA Settled ==
  ASSUME NEW n \in Nat, Sized(n), n >= 4, NEW t, t.size \in Nat, t.size < ac_hash_upper(n),
         NEW w, Working(t, n, w), w.at = n, w.hand = NoEntry,
         NEW d, d = Settling(t, n, w)
  PROVE  /\ Table(d, n) /\ Assoc(d) = Assoc(t)
         /\ d.n_occupied = t.size /\ d.upper_bound = ac_hash_upper(n)
<1>1. w.at = n /\ w.hand = NoEntry
  OBVIOUS
<1>2. ac_hash_upper(n) \in Nat /\ ac_hash_upper(n) < n
  BY Upper
<1>4. /\ w \in Places(n) /\ w.new \in [0 .. n - 1 -> {"empty", "used"}]
      /\ w.slots \in [0 .. n - 1 -> Entries \union {NoEntry}]
  BY DEF Working, Places
<1>5. /\ \A b : b \in OldUsed(w) <=> b \in 0 .. n - 1 /\ w.old[b] = "used"
      /\ \A b : b \in NewUsed(w) <=> b \in 0 .. n - 1 /\ w.new[b] = "used"
      /\ Cardinality(NewUsed(w)) \in Nat
  BY <1>4, Sets
<1>6. OldUsed(w) = {}
  <2>1. \A b \in OldUsed(w) : b >= n /\ b \in 0 .. n - 1
    BY <1>5 DEF Working
  <2>2. QED
    BY <2>1
<1>7. Held(w) = NewUsed(w)
  BY <1>6 DEF Held
<1>8. /\ \A b \in NewUsed(w) : w.slots[b] \in Entries /\ w.slots[b] \in Assoc(t)
      /\ \A e \in Assoc(t) : \E b \in NewUsed(w) : w.slots[b] = e
      /\ \A b, c \in NewUsed(w) : w.slots[b].key = w.slots[c].key => b = c
      /\ \A b \in NewUsed(w) : Reached(n, w.new, w.slots[b].key, b)
  <2>1. NoEntry \notin Assoc(t) /\ \A e \in Assoc(t) : w.hand = e \/ \E b \in Held(w) : w.slots[b] = e
    BY DEF Working
  <2>2. \A e \in Assoc(t) : w.hand # e
    BY <2>1
  <2>3. QED
    BY <2>1, <2>2, <1>7 DEF Working
<1>9. Cardinality(NewUsed(w)) = t.size
  <2>1. Cardinality(OldUsed(w)) = 0
    BY <1>6, FS_EmptySet
  <2>2. QED
    BY <2>1, <1>5 DEF Working
<1>11. /\ d.flags = w.new /\ d.size = t.size /\ d.n_occupied = t.size
       /\ d.upper_bound = ac_hash_upper(n) /\ Fields(d)
       /\ d.slots = [i \in 0 .. n - 1 |-> IF w.new[i] = "used" THEN w.slots[i] ELSE NoEntry]
  BY DEF Fields, Settling
<1>12. /\ d.flags \in [0 .. n - 1 -> Flags]
       /\ d.slots \in [0 .. n - 1 -> Entries \union {NoEntry}]
  BY <1>4, <1>11 DEF Flags
<1>13. Used(d) = NewUsed(w)
  <2>1. \A b : b \in Used(d) <=> b \in 0 .. n - 1 /\ d.flags[b] = "used"
    <3>1. d.flags \in [0 .. n - 1 -> Flags]
      BY <1>12
    <3>2. QED
      BY <3>1, Buckets
  <2>2. d.flags = w.new
    BY <1>11
  <2>3. \A b : b \in NewUsed(w) <=> b \in 0 .. n - 1 /\ w.new[b] = "used"
    BY <1>5
  <2>4. QED
    BY <2>1, <2>2, <2>3
<1>14. \A b \in NewUsed(w) : d.slots[b] = w.slots[b]
  BY <1>5, <1>11
<1>15. Contents(d, n)
  <2>1. \A b \in Used(d) : d.slots[b] \in Entries /\ Reached(n, d.flags, d.slots[b].key, b)
    BY <1>8, <1>11, <1>13, <1>14
  <2>2. \A b, c \in Used(d) : d.slots[b].key = d.slots[c].key => b = c
    BY <1>8, <1>13, <1>14
  <2>3. QED
    BY <2>1, <2>2, <1>12 DEF Contents
<1>16. Filled(d.flags) = NewUsed(w)
  <2>1. DOMAIN w.new = 0 .. n - 1
    BY <1>4
  <2>2. QED
    BY <2>1, <1>4, <1>5, <1>11 DEF Filled
<1>17. Counts(d, n)
  <2>1. d.n_occupied <= d.upper_bound
    BY <1>1, <1>2, <1>11
  <2>2. QED
    BY <2>1, <1>9, <1>11, <1>13, <1>16 DEF Counts
<1>18. Assoc(d) = Assoc(t)
  <2>1. \A e \in Assoc(d) : e \in Assoc(t)
    <3>1. TAKE e \in Assoc(d)
    <3>2. PICK b \in NewUsed(w) : e = d.slots[b]
      BY <1>13 DEF Assoc
    <3>3. QED
      BY <3>2, <1>8, <1>14
  <2>2. \A e \in Assoc(t) : e \in Assoc(d)
    <3>1. TAKE e \in Assoc(t)
    <3>2. PICK b \in NewUsed(w) : w.slots[b] = e
      BY <1>8
    <3>3. b \in Used(d) /\ d.slots[b] = e
      BY <3>2, <1>13, <1>14
    <3>4. QED
      BY <3>3 DEF Assoc
  <2>3. QED
    BY <2>1, <2>2
<1>19. QED
  BY <1>11, <1>15, <1>17, <1>18 DEF Table

(* What kh_resize does when the table is to grow, or to stay as it is.     *)
LEMMA Resized ==
  ASSUME HashOK, NEW m, NEW t, Table(t, m), NEW want,
         NEW n \in Nat, n = Max({4, ac_roundup32(want)}), Sized(n), n >= 4, m <= n,
         t.size < ac_hash_upper(n), NEW d, d = kh_resize(t, want)
  PROVE  /\ Table(d, n) /\ Assoc(d) = Assoc(t)
         /\ d.n_occupied = t.size /\ d.upper_bound = ac_hash_upper(n)
<1>1. t.size \in Nat
  BY Sizes
<1>2. ac_hash_upper(n) \in Nat /\ ac_hash_upper(n) < n
  BY Upper
<1>3. PICK w : w = Rehash(t, n) /\ Working(t, n, w) /\ w.at = n /\ w.hand = NoEntry
  <2>1. t.size < n
    BY <1>1, <1>2
  <2>2. QED
    BY <2>1, Rehashed
<1>4. d = Settling(t, n, w)
  <2>1. ~ t.size >= ac_hash_upper(n)
    BY <1>1, <1>2
  <2>2. QED
    BY <2>1, <1>3 DEF kh_resize, Settling
<1>5. QED
  BY <1>1, <1>3, <1>4, Settled

(* Powers of two ascend.                                                   *)
LEMMA PowersAscend == \A i, j \in Nat : i <= j => Power[i] <= Power[j]
<1> DEFINE A == {j \in Nat : \A i \in Nat : i <= j => Power[i] <= Power[j]}
<1>1. 0 \in A
  BY PowersGrow
<1>2. \A j \in A : j + 1 \in A
  <2>1. TAKE j \in A
  <2>2. Power[j + 1] = 2 * Power[j] /\ Power[j] \in Nat
    BY Powers, PowersGrow
  <2>3. \A i \in Nat : i <= j + 1 => Power[i] <= Power[j + 1]
    <3>1. SUFFICES ASSUME NEW i \in Nat, i <= j + 1 PROVE Power[i] <= Power[j + 1]
      OBVIOUS
    <3>2. Power[i] \in Nat
      BY PowersGrow
    <3>3. CASE i = j + 1
      BY <3>2, <3>3
    <3>4. CASE i # j + 1
      <4>1. i <= j
        BY <2>1, <3>1, <3>4
      <4>2. Power[i] <= Power[j]
        BY <2>1, <4>1
      <4>3. QED
        BY <2>2, <3>2, <4>2
    <3>5. QED
      BY <3>3, <3>4
  <2>4. QED
    BY <2>1, <2>3
<1>3. A = Nat
  <2>1. A \in SUBSET Nat
    OBVIOUS
  <2> HIDE DEF A
  <2>2. QED
    BY <1>1, <1>2, <2>1, NatInd
<1>4. QED
  BY <1>3

(* The first power that is enough.                                         *)
LEMMA RoundUp ==
  ASSUME NEW x \in Nat, NEW j \in 0 .. x, Power[j] >= x,
         \A i \in Nat : j = i + 1 => Power[i] < x
  PROVE  ac_roundup32(x) = Power[j]
<1> DEFINE T == {i \in 0 .. x : Power[i] >= x}
           z == Min(T)
<1>1. T \in SUBSET Nat /\ j \in T /\ \A i \in T : Power[i] >= x
  OBVIOUS
<1>2. ac_roundup32(x) = Power[z]
  BY DEF ac_roundup32
<1> HIDE DEF T
<1>3. z \in T /\ z <= j
  BY <1>1, MinIs
<1>4. z \in Nat /\ Power[z] >= x
  BY <1>1, <1>3
<1> HIDE DEF z
<1>5. z = j
  <2>1. SUFFICES ASSUME z # j PROVE FALSE
    OBVIOUS
  <2>2. PICK i \in Nat : j = i + 1 /\ z <= i
    <3>1. j - 1 \in Nat /\ j = (j - 1) + 1 /\ z <= j - 1
      BY <2>1, <1>3, <1>4
    <3>2. QED
      BY <3>1
  <2>3. Power[i] < x /\ Power[z] <= Power[i]
    BY <2>2, <1>4, PowersAscend
  <2>4. Power[i] \in Nat /\ Power[z] \in Nat
    BY <1>4, PowersGrow
  <2>5. QED
    BY <2>3, <2>4, <1>4
<1>6. QED
  BY <1>2, <1>5

(* kh_resize makes four buckets at least.                                  *)
LEMMA FourOr ==
  ASSUME NEW x \in Nat
  PROVE  Max({4, x}) = IF x >= 4 THEN x ELSE 4
<1>1. {4, x} \in SUBSET (0 .. x + 4) /\ {4, x} # {} /\ x + 4 \in Nat
  OBVIOUS
<1>2. Max({4, x}) \in {4, x} /\ \A y \in {4, x} : Max({4, x}) >= y
  BY <1>1, MaxIs
<1>3. PICK z : z = Max({4, x})
  OBVIOUS
<1>4. (z = 4 \/ z = x) /\ z >= 4 /\ z >= x
  BY <1>2, <1>3
<1>5. z = IF x >= 4 THEN x ELSE 4
  BY <1>4
<1>6. QED
  BY <1>3, <1>5

(* From the second power of two on, each has a half of two or more.        *)
LEMMA Halves ==
  ASSUME NEW i \in Nat, i >= 2
  PROVE  \E h \in Nat : Power[i] = 2 * h /\ Power[i - 1] = h /\ h >= 2
<1>1. i - 1 \in Nat /\ (i - 1) + 1 = i
  OBVIOUS
<1>2. Power[i] = 2 * Power[i - 1] /\ Power[i - 1] \in Nat /\ Power[i - 1] >= (i - 1) + 1
  BY <1>1, Powers, PowersGrow
<1>3. QED
  BY <1>2

(* A table about to be put to has room, and the same entries.  A rehash in *)
(* place leaves fewer buckets filled than before, by two at least.         *)
LEMMA Roomy ==
  ASSUME HashOK, NEW m, NEW t, Table(t, m), NEW d, d = WithRoom(t)
  PROVE  \E n : /\ Table(d, n) /\ Assoc(d) = Assoc(t) /\ d.n_occupied < d.upper_bound
                /\ (d = t /\ n = m) \/ n # m \/ d.n_occupied + 1 < t.n_occupied
<1>1. m \in Nat /\ Sized(m) /\ t.flags \in [0 .. m - 1 -> Flags] /\ Counts(t, m)
  BY DEF Table, Contents
<1>2. /\ n_buckets(t) = m /\ t.size \in Nat /\ t.n_occupied \in Nat /\ t.size <= t.n_occupied
  BY <1>1, Buckets DEF Counts
<1>3. /\ t.n_occupied <= t.upper_bound
      /\ t.upper_bound = IF m = 0 THEN 0 ELSE ac_hash_upper(m)
  BY <1>1 DEF Counts
<1>4. CASE t.n_occupied < t.upper_bound
  <2>1. d = t
    BY <1>4 DEF WithRoom
  <2>2. QED
    BY <2>1, <1>4
<1>5. CASE ~ t.n_occupied < t.upper_bound
  <2>1. d = kh_resize(t, IF m > 2 * t.size THEN m - 1 ELSE m + 1)
    BY <1>2, <1>5 DEF WithRoom
  <2>2. ASSUME NEW want, d = kh_resize(t, want), NEW n \in Nat, NEW j \in Nat, j >= 2, n = Power[j],
               n = Max({4, ac_roundup32(want)}), m <= n, t.size < ac_hash_upper(n),
               n # m \/ t.size + 1 < t.n_occupied
        PROVE  \E q : /\ Table(d, q) /\ Assoc(d) = Assoc(t) /\ d.n_occupied < d.upper_bound
                      /\ (d = t /\ q = m) \/ q # m \/ d.n_occupied + 1 < t.n_occupied
    <3>1. Sized(n) /\ n >= 4
      BY <2>2, FourAtLeast DEF Sized
    <3>2. /\ Table(d, n) /\ Assoc(d) = Assoc(t)
          /\ d.n_occupied = t.size /\ d.upper_bound = ac_hash_upper(n)
      BY <2>2, <3>1, Resized
    <3>3. QED
      BY <2>2, <3>2
  <2>3. CASE m = 0
    <3>1. t.size = 0
      BY <2>3, <1>2, <1>3
    <3>2. d = kh_resize(t, 1)
      BY <2>1, <2>3, <3>1
    <3>3. ac_roundup32(1) = 1
      <4>1. Power[0] = 1 /\ 0 \in 0 .. 1 /\ 1 \in Nat
        BY Powers
      <4>2. \A i \in Nat : 0 = i + 1 => Power[i] < 1
        OBVIOUS
      <4>3. QED
        BY <4>1, <4>2, RoundUp
    <3>4. Max({4, ac_roundup32(1)}) = 4
      BY <3>3, FourOr
    <3>5. Power[2] = 4
      <4>1. Power[0] = 1 /\ Power[0 + 1] = 2 * Power[0] /\ Power[1 + 1] = 2 * Power[1]
        BY Powers
      <4>2. QED
        BY <4>1
    <3>6. ac_hash_upper(4) \in Nat /\ 0 < ac_hash_upper(4)
      BY Upper
    <3>7. QED
      BY <2>2, <2>3, <3>1, <3>2, <3>4, <3>5, <3>6
  <2>4. CASE m # 0
    <3>1. PICK i \in Nat : i >= 2 /\ m = Power[i]
      BY <2>4, <1>1 DEF Sized
    <3>2. PICK h \in Nat : m = 2 * h /\ Power[i - 1] = h /\ h >= 2
      BY <3>1, Halves
    <3>3. m >= i + 1 /\ m >= 4
      BY <3>1, <3>2, PowersGrow
    <3>4. PICK u \in Nat : u = ac_hash_upper(m) /\ t.n_occupied = u
      <4>1. ac_hash_upper(m) \in Nat
        BY <3>3, <1>1, Upper
      <4>2. t.upper_bound = ac_hash_upper(m) /\ t.n_occupied = t.upper_bound
        BY <2>4, <4>1, <1>2, <1>3, <1>5
      <4>3. QED
        BY <4>1, <4>2
    <3>5. CASE m > 2 * t.size
      <4>1. d = kh_resize(t, m - 1)
        BY <2>1, <3>5
      <4>2. ac_roundup32(m - 1) = m
        <5>1. m - 1 \in Nat /\ i \in 0 .. m - 1 /\ Power[i] >= m - 1
          BY <3>1, <3>3, <1>1
        <5>2. \A l \in Nat : i = l + 1 => Power[l] < m - 1
          <6>1. TAKE l \in Nat
          <6>2. SUFFICES ASSUME i = l + 1 PROVE Power[l] < m - 1
            OBVIOUS
          <6>3. l = i - 1
            BY <6>2
          <6>4. QED
            BY <6>3, <3>2
        <5>3. QED
          BY <5>1, <5>2, <3>1, RoundUp
      <4>3. Max({4, ac_roundup32(m - 1)}) = m
        BY <4>2, <3>3, <1>1, FourOr
      <4>4. t.size + 1 < u
        <5>1. 2 * t.size < m /\ \E l \in Nat : m = 2 * l
          BY <3>2, <3>5, <1>2
        <5>2. QED
          BY <5>1, <3>3, <3>4, <1>1, <1>2, Upper
      <4>5. t.size < ac_hash_upper(m) /\ t.size + 1 < t.n_occupied
        BY <4>4, <3>4, <1>2
      <4>6. PICK want : d = kh_resize(t, want) /\ m = Max({4, ac_roundup32(want)})
        BY <4>1, <4>3
      <4>7. PICK n \in Nat : n = m /\ m <= n
        BY <1>1
      <4>8. n = Power[i] /\ n = Max({4, ac_roundup32(want)}) /\ t.size < ac_hash_upper(n)
        BY <3>1, <4>5, <4>6, <4>7
      <4>9. QED
        BY <2>2, <3>1, <4>5, <4>6, <4>7, <4>8
    <3>6. CASE ~ m > 2 * t.size
      <4>1. d = kh_resize(t, m + 1)
        BY <2>1, <3>6
      <4>2. Power[i + 1] = 2 * m
        BY <3>1, Powers
      <4>3. ac_roundup32(m + 1) = 2 * m
        <5>1. m + 1 \in Nat /\ i + 1 \in 0 .. m + 1 /\ Power[i + 1] >= m + 1
          BY <3>1, <3>3, <4>2, <1>1
        <5>2. \A l \in Nat : i + 1 = l + 1 => Power[l] < m + 1
          <6>1. TAKE l \in Nat
          <6>2. SUFFICES ASSUME i + 1 = l + 1 PROVE Power[l] < m + 1
            OBVIOUS
          <6>3. l = i
            BY <6>2
          <6>4. QED
            BY <6>3, <3>1, <1>1
        <5>3. QED
          BY <5>1, <5>2, <4>2, RoundUp
      <4>4. Max({4, ac_roundup32(m + 1)}) = 2 * m
        <5>1. 2 * m \in Nat /\ 2 * m >= 4
          BY <3>3, <1>1
        <5>2. QED
          BY <4>3, <5>1, FourOr
      <4>5. t.size < ac_hash_upper(2 * m)
        <5>1. PICK w \in Nat : w = ac_hash_upper(2 * m) /\ u < w
          <6>1. 2 * m \in Nat /\ 2 * m >= 4
            BY <3>3, <1>1
          <6>2. ac_hash_upper(2 * m) \in Nat
            BY <6>1, Upper
          <6>3. ac_hash_upper(m) < ac_hash_upper(2 * m)
            BY <3>3, <1>1, Upper
          <6>4. QED
            BY <6>2, <6>3, <3>4
        <5>2. QED
          BY <5>1, <3>4, <1>2
      <4>6. PICK n \in Nat : n = 2 * m /\ m <= n /\ n # m
        BY <3>3, <1>1
      <4>7. i + 1 \in Nat /\ i + 1 >= 2
        BY <3>1
      <4>8. QED
        BY <2>2, <4>1, <4>2, <4>4, <4>5, <4>6, <4>7
    <3>7. QED
      BY <3>5, <3>6
  <2>5. QED
    BY <2>3, <2>4
<1>6. QED
  BY <1>4, <1>5

(* What a put does to a table.                                             *)
LEMMA Put ==
  ASSUME HashOK, NEW m, NEW t, Table(t, m), NEW k \in Key, NEW v \in Val,
         NEW d, d = kh_put(t, k, v)
  PROVE  \E n : /\ Table(d, n)
                /\ Assoc(d) = Others(t, k) \union {Entry(k, v)}
                /\ \/ /\ n = m /\ d.n_occupied >= t.n_occupied
                      /\ \A b \in Used(t) : b \in Used(d) /\ d.slots[b].key = t.slots[b].key
                   \/ n # m
                   \/ d.n_occupied < t.n_occupied
<1>1. PICK r, x : r = WithRoom(t) /\ x = Site(r, k)
  OBVIOUS
<1>2. d = Putting(r, x, k, v)
  BY <1>1 DEF kh_put, Putting
<1>3. PICK n : /\ Table(r, n) /\ Assoc(r) = Assoc(t) /\ r.n_occupied < r.upper_bound
               /\ (r = t /\ n = m) \/ n # m \/ r.n_occupied + 1 < t.n_occupied
  BY <1>1, Roomy
<1>4. /\ Table(d, n)
      /\ Used(d) = Used(r) \union {x}
      /\ d.slots[x] = Entry(k, v)
      /\ \A b \in Used(r) \ {x} : d.slots[b] = r.slots[b] /\ r.slots[b].key # k
      /\ x \in Used(r) => r.slots[x].key = k
      /\ d.n_occupied >= r.n_occupied /\ d.n_occupied <= r.n_occupied + 1
  BY <1>1, <1>2, <1>3, PutIn
<1>5. Entry(k, v).key = k
  BY DEF Entry
<1>6. Assoc(d) = Others(t, k) \union {Entry(k, v)}
  <2>1. \A e \in Assoc(d) : e = Entry(k, v) \/ (e \in Assoc(r) /\ e.key # k)
    <3>1. TAKE e \in Assoc(d)
    <3>2. PICK b \in Used(d) : e = d.slots[b]
      BY DEF Assoc
    <3>3. CASE b = x
      BY <3>2, <3>3, <1>4
    <3>4. CASE b # x
      <4>1. b \in Used(r) \ {x}
        BY <3>2, <3>4, <1>4
      <4>2. e = r.slots[b] /\ e.key # k
        BY <3>2, <4>1, <1>4
      <4>3. QED
        BY <4>1, <4>2 DEF Assoc
    <3>5. QED
      BY <3>3, <3>4
  <2>2. Entry(k, v) \in Assoc(d)
    BY <1>4 DEF Assoc
  <2>3. \A e \in Assoc(r) : e.key # k => e \in Assoc(d)
    <3>1. TAKE e \in Assoc(r)
    <3>2. PICK b \in Used(r) : e = r.slots[b]
      BY DEF Assoc
    <3>3. SUFFICES ASSUME e.key # k PROVE e \in Assoc(d)
      OBVIOUS
    <3>4. b \in Used(r) \ {x}
      BY <3>2, <3>3, <1>4
    <3>5. b \in Used(d) /\ d.slots[b] = e
      BY <3>2, <3>4, <1>4
    <3>6. QED
      BY <3>5 DEF Assoc
  <2>4. QED
    BY <2>1, <2>2, <2>3, <1>3 DEF Others
<1>7. r.n_occupied \in Nat /\ t.n_occupied \in Nat /\ d.n_occupied \in Nat
  BY <1>3, <1>4, Sizes
<1>8. CASE r = t /\ n = m
  <2>1. \A b \in Used(t) : b \in Used(d) /\ d.slots[b].key = t.slots[b].key
    <3>1. TAKE b \in Used(t)
    <3>2. CASE b = x
      BY <3>2, <1>4, <1>5, <1>8
    <3>3. CASE b # x
      BY <3>3, <1>4, <1>8
    <3>4. QED
      BY <3>2, <3>3
  <2>2. d.n_occupied >= t.n_occupied
    BY <1>4, <1>8
  <2>3. QED
    BY <2>1, <2>2, <1>3, <1>4, <1>6, <1>8
<1>9. CASE n # m
  BY <1>3, <1>4, <1>6, <1>9
<1>10. CASE r.n_occupied + 1 < t.n_occupied
  <2>1. d.n_occupied < t.n_occupied
    BY <1>4, <1>7, <1>10
  <2>2. QED
    BY <2>1, <1>3, <1>4, <1>6
<1>11. QED
  BY <1>3, <1>8, <1>9, <1>10

-----------------------------------------------------------------------------
(* Dictionaries made from lists.                                           *)

(* kh_init makes a table with nothing in it.                               *)
LEMMA EmptyTable == Table(kh_init, 0) /\ Assoc(kh_init) = {}
<1>1. PICK t : t = kh_init
  OBVIOUS
<1>2. /\ t.flags = << >> /\ t.slots = << >> /\ t.size = 0 /\ t.n_occupied = 0
      /\ t.upper_bound = 0 /\ Fields(t)
  BY <1>1 DEF kh_init, Fields
<1>3. 0 .. 0 - 1 = {}
  OBVIOUS
<1>4. t.flags \in [0 .. 0 - 1 -> Flags] /\ t.slots \in [0 .. 0 - 1 -> Entries \union {NoEntry}]
  <2>1. \A S : << >> \in [{} -> S]
    OBVIOUS
  <2>2. QED
    BY <2>1, <1>2, <1>3
<1>5. Used(t) = {} /\ Filled(t.flags) = {}
  <2>1. DOMAIN t.flags = {}
    BY <1>3, <1>4
  <2>2. QED
    BY <2>1 DEF Used, Filled
<1>6. Cardinality(Used(t)) = 0 /\ Cardinality(Filled(t.flags)) = 0
  BY <1>5, FS_EmptySet
<1>7. Contents(t, 0)
  BY <1>4, <1>5 DEF Contents
<1>8. Counts(t, 0)
  BY <1>2, <1>6 DEF Counts
<1>9. Assoc(t) = {}
  BY <1>5 DEF Assoc
<1>10. QED
  BY <1>1, <1>2, <1>7, <1>8, <1>9 DEF Table, Sized

(* The associations of the first i pairs of a list that later ones of them *)
(* leave to count.                                                         *)
Latest(l, i) ==
  {Entry(l[j][1], l[j][2]) : j \in {j \in 1 .. i : \A q \in 1 .. i : q > j => l[q][1] # l[j][1]}}

(* One more pair of a list takes the place of those with its key.          *)
LEMMA LatestNext ==
  ASSUME NEW l, NEW i \in Nat
  PROVE  Latest(l, i + 1) =
           {e \in Latest(l, i) : e.key # l[i + 1][1]} \union {Entry(l[i + 1][1], l[i + 1][2])}
<1> DEFINE J(m) == {j \in 1 .. m : \A q \in 1 .. m : q > j => l[q][1] # l[j][1]}
           E(j) == Entry(l[j][1], l[j][2])
<1>1. J(i + 1) = {j \in J(i) : l[i + 1][1] # l[j][1]} \union {i + 1}
  <2>1. \A q : q \in 1 .. i + 1 <=> q \in 1 .. i \/ q = i + 1
    OBVIOUS
  <2>2. \A q \in 1 .. i : q < i + 1 /\ ~ q > i + 1 /\ i + 1 > q
    OBVIOUS
  <2>3. ~ i + 1 > i + 1
    OBVIOUS
  <2>4. QED
    BY <2>1, <2>2, <2>3
<1>2. Latest(l, i) = {E(j) : j \in J(i)} /\ Latest(l, i + 1) = {E(j) : j \in J(i + 1)}
  BY DEF Latest
<1>3. \A j : E(j).key = l[j][1]
  BY DEF Entry
<1> HIDE DEF J, E
<1>4. {E(j) : j \in J(i + 1)} =
        {e \in {E(j) : j \in J(i)} : e.key # l[i + 1][1]} \union {E(i + 1)}
  BY <1>1, <1>3
<1>5. QED
  BY <1>2, <1>4 DEF E

Tables ==
  [flags : UNION {[0 .. n - 1 -> Flags] : n \in Nat},
   slots : UNION {[0 .. n - 1 -> Entries \union {NoEntry}] : n \in Nat},
   size : Nat, n_occupied : Nat, upper_bound : Nat]

(* Tables are members of one set, as a function on them must have it.      *)
LEMMA TableIn ==
  ASSUME NEW n, NEW t, Table(t, n)
  PROVE  t \in Tables
<1>1. /\ n \in Nat /\ Fields(t) /\ Counts(t, n)
      /\ t.flags \in [0 .. n - 1 -> Flags] /\ t.slots \in [0 .. n - 1 -> Entries \union {NoEntry}]
  BY DEF Table, Contents
<1>2. t.size \in Nat /\ t.n_occupied \in Nat
  BY Sizes
<1>3. t.upper_bound \in Nat
  <2>1. ac_hash_upper(n) \in Nat
    BY <1>1 DEF ac_hash_upper
  <2>2. QED
    BY <2>1, <1>1 DEF Counts
<1>4. PICK F, S : /\ F = UNION {[0 .. m - 1 -> Flags] : m \in Nat}
                  /\ S = UNION {[0 .. m - 1 -> Entries \union {NoEntry}] : m \in Nat}
  OBVIOUS
<1>5. t.flags \in F /\ t.slots \in S
  BY <1>1, <1>4
<1>6. t \in [flags : F, slots : S, size : Nat, n_occupied : Nat, upper_bound : Nat]
  BY <1>1, <1>2, <1>3, <1>5 DEF Fields
<1>7. QED
  BY <1>4, <1>6 DEF Tables

(* pic_dict_dictionary makes a table with the latest value of each key.    *)
LEMMA FromPairs ==
  ASSUME HashOK, NEW l \in Seq(Key \X Val)
  PROVE  /\ \E n : Table(pic_dict_dictionary(l), n)
         /\ Assoc(pic_dict_dictionary(l)) = Latest(l, Len(l))
<1> DEFINE N == Len(l)
           U == {t \in Tables : \E n : Table(t, n)}
           Step(i, t) == kh_put(t, l[i][1], l[i][2])
           g == [p \in (1 .. N) \X U |-> Step(p[1], p[2])]
<1>1. N \in Nat /\ \A i \in 1 .. N : l[i] \in Key \X Val
  OBVIOUS
<1>2. \A i \in 1 .. N : l[i][1] \in Key /\ l[i][2] \in Val
  BY <1>1
<1>3. \A t : t \in U <=> \E n : Table(t, n)
  BY TableIn
<1> HIDE DEF U, N
<1>4. ASSUME NEW i \in 1 .. N, NEW t \in U
      PROVE  /\ Step(i, t) \in U
             /\ Assoc(Step(i, t)) = {e \in Assoc(t) : e.key # l[i][1]} \union {Entry(l[i][1], l[i][2])}
  <2>1. PICK m : Table(t, m)
    BY <1>3
  <2>2. PICK d : d = Step(i, t)
    OBVIOUS
  <2>3. PICK n : /\ Table(d, n)
                 /\ Assoc(d) = {e \in Assoc(t) : e.key # l[i][1]} \union {Entry(l[i][1], l[i][2])}
    <3>1. PICK k \in Key, v \in Val : k = l[i][1] /\ v = l[i][2] /\ d = kh_put(t, k, v)
      BY <2>2, <1>2
    <3>2. PICK n : Table(d, n) /\ Assoc(d) = Others(t, k) \union {Entry(k, v)}
      BY <2>1, <3>1, Put
    <3>3. QED
      BY <3>1, <3>2 DEF Others
  <2>4. QED
    BY <2>2, <2>3, <1>3
<1> HIDE DEF Step
<1>5. kh_init \in U
  BY <1>3, EmptyTable
<1>6. g \in [(1 .. N) \X U -> U]
  BY <1>4
<1>7. \A i \in 1 .. N : \A t \in U : g[<< i, t >>] = Step(i, t)
  OBVIOUS
<1> HIDE DEF g
<1>8. PICK f : /\ f = [k \in 0 .. N |-> f[k]] /\ f[0] = kh_init
               /\ \A k \in 1 .. N : f[k - 1] \in U /\ f[k] = g[<< k, f[k - 1] >>]
  <2>1. \E f : Trace(f, U, N, kh_init, g)
    BY <1>1, <1>5, <1>6, FoldExists
  <2>2. QED
    BY <2>1 DEF Trace
<1>9. ASSUME NEW k \in 0 .. N
      PROVE  f[k] = IF k = 0 THEN kh_init ELSE Step(k, f[k - 1])
  <2>1. CASE k = 0
    BY <1>8, <2>1
  <2>2. CASE k # 0
    <3>1. k \in 1 .. N
      BY <1>1, <2>2
    <3>2. QED
      BY <1>7, <1>8, <2>2, <3>1
  <2>3. QED
    BY <2>1, <2>2
<1> DEFINE t[i \in 0 .. N] == IF i = 0 THEN kh_init ELSE Step(i, t[i - 1])
<1>10. t = [i \in 0 .. N |-> IF i = 0 THEN kh_init ELSE Step(i, t[i - 1])]
  <2>1. f = [i \in 0 .. N |-> IF i = 0 THEN kh_init ELSE Step(i, f[i - 1])]
    BY <1>8, <1>9
  <2>2. QED
    BY <2>1
<1>11. pic_dict_dictionary(l) = t[N]
  BY DEF pic_dict_dictionary, N, Step
<1> HIDE DEF t
<1>12. t[0] = kh_init /\ \A i \in 1 .. N : t[i] = Step(i, t[i - 1])
  <2>1. 0 \in 0 .. N /\ \A i \in 1 .. N : i \in 0 .. N /\ i # 0
    BY <1>1
  <2>2. QED
    BY <2>1, <1>10
<1> DEFINE So(i) == t[i] \in U /\ Assoc(t[i]) = Latest(l, i)
           A == {i \in Nat : i <= N => So(i)}
<1>13. 0 \in A
  <2>1. Latest(l, 0) = {}
    BY DEF Latest
  <2>2. QED
    BY <2>1, <1>5, <1>12, EmptyTable
<1>14. \A i \in A : i + 1 \in A
  <2>1. TAKE i \in A
  <2>2. SUFFICES ASSUME i + 1 <= N PROVE So(i + 1)
    OBVIOUS
  <2>3. i \in Nat /\ So(i)
    BY <1>1, <2>1, <2>2
  <2>4. i + 1 \in 1 .. N /\ (i + 1) - 1 = i
    BY <1>1, <2>2, <2>3
  <2>5. t[i + 1] = Step(i + 1, t[i])
    BY <2>4, <1>12
  <2>6. /\ t[i + 1] \in U
        /\ Assoc(t[i + 1]) = {e \in Latest(l, i) : e.key # l[i + 1][1]} \union {Entry(l[i + 1][1], l[i + 1][2])}
    BY <2>3, <2>4, <2>5, <1>4
  <2>7. QED
    BY <2>3, <2>6, LatestNext
<1>15. A = Nat
  <2>1. A \in SUBSET Nat
    OBVIOUS
  <2> HIDE DEF A
  <2>2. QED
    BY <1>13, <1>14, <2>1, NatInd
<1>16. So(N)
  BY <1>1, <1>15
<1>17. QED
  BY <1>3, <1>11, <1>16 DEF N

-----------------------------------------------------------------------------
(* Lists come to pic_reverse, and plists in pairs.                         *)

(* A list turned around is one of associations still.                      *)
LEMMA Reversed ==
  ASSUME NEW l \in Seq(Key \X Val)
  PROVE  Reverse(l) \in Seq(Key \X Val) /\ Len(Reverse(l)) = Len(l)
<1>1. Reverse(l) = [i \in 1 .. Len(l) |-> l[(Len(l) - i) + 1]]
  BY DEF Reverse
<1>2. \A i \in 1 .. Len(l) : (Len(l) - i) + 1 \in 1 .. Len(l)
  OBVIOUS
<1>3. QED
  BY <1>1, <1>2

Pairs(e) == [i \in 1 .. Len(e) \div 2 |-> << e[2 * i], e[2 * i - 1] >>]

(* A plist turned around, taken in pairs, has the associations from the    *)
(* last on.                                                                *)
LEMMA PairsBack ==
  ASSUME NEW l \in Seq(Key \X Val)
  PROVE  Pairs(Reverse(Plist(l))) = Reverse(l)
<1>1. PICK n \in Nat : n = Len(l)
  OBVIOUS
<1>2. PICK p : p = Plist(l)
  OBVIOUS
<1>3. p = [i \in 1 .. 2 * n |-> l[(i + 1) \div 2][2 - (i % 2)]]
  BY <1>1, <1>2 DEF Plist
<1>4. Len(p) = 2 * n
  <2>1. 2 * n \in Nat
    OBVIOUS
  <2>2. QED
    BY <2>1, <1>3
<1>5. PICK e : e = Reverse(p)
  OBVIOUS
<1>6. e = [i \in 1 .. 2 * n |-> p[(2 * n - i) + 1]]
  BY <1>4, <1>5 DEF Reverse
<1>7. Len(e) = 2 * n
  <2>1. 2 * n \in Nat
    OBVIOUS
  <2>2. QED
    BY <2>1, <1>6
<1>8. (2 * n) \div 2 = n
  OBVIOUS
<1>9. Pairs(e) = [i \in 1 .. n |-> << e[2 * i], e[2 * i - 1] >>]
  BY <1>7, <1>8 DEF Pairs
<1>10. \A i \in 1 .. n : << e[2 * i], e[2 * i - 1] >> = l[(n - i) + 1]
  <2>1. TAKE i \in 1 .. n
  <2>2. PICK j \in 1 .. n : j = (n - i) + 1
    OBVIOUS
  <2>3. e[2 * i] = p[2 * j - 1]
    <3>1. 2 * i \in 1 .. 2 * n /\ (2 * n - 2 * i) + 1 = 2 * j - 1
      BY <2>2
    <3>2. QED
      BY <3>1, <1>6
  <2>4. e[2 * i - 1] = p[2 * j]
    <3>1. 2 * i - 1 \in 1 .. 2 * n /\ (2 * n - (2 * i - 1)) + 1 = 2 * j
      BY <2>2
    <3>2. QED
      BY <3>1, <1>6
  <2>5. p[2 * j - 1] = l[j][1]
    <3>1. 2 * j - 1 \in 1 .. 2 * n /\ ((2 * j - 1) + 1) \div 2 = j /\ 2 - ((2 * j - 1) % 2) = 1
      OBVIOUS
    <3>2. p[2 * j - 1] = l[((2 * j - 1) + 1) \div 2][2 - ((2 * j - 1) % 2)]
      BY <3>1, <1>3
    <3>3. QED
      BY <3>1, <3>2
  <2>6. p[2 * j] = l[j][2]
    <3>1. 2 * j \in 1 .. 2 * n /\ (2 * j + 1) \div 2 = j /\ 2 - ((2 * j) % 2) = 2
      OBVIOUS
    <3>2. p[2 * j] = l[(2 * j + 1) \div 2][2 - ((2 * j) % 2)]
      BY <3>1, <1>3
    <3>3. QED
      BY <3>1, <3>2
  <2>7. l[j] \in Key \X Val
    BY <1>1
  <2>8. l[j] = << l[j][1], l[j][2] >>
    BY <2>7
  <2>9. QED
    BY <2>2, <2>3, <2>4, <2>5, <2>6, <2>8
<1>11. Reverse(l) = [i \in 1 .. n |-> l[(n - i) + 1]]
  BY <1>1 DEF Reverse
<1>12. QED
  BY <1>2, <1>5, <1>9, <1>10, <1>11

-----------------------------------------------------------------------------
(* What a table stands for.                                                *)

MapOf(t) == [k \in KeysOf(t) |-> t.slots[CHOOSE i \in Used(t) : t.slots[i].key = k].val]

(* A table's map has the keys and the values of its entries.               *)
LEMMA MapIs ==
  ASSUME NEW n, NEW t, Table(t, n)
  PROVE  /\ DOMAIN MapOf(t) = KeysOf(t) /\ KeysOf(t) \subseteq Key
         /\ \A k : k \in KeysOf(t) <=> \E e \in Assoc(t) : e.key = k
         /\ \A b \in Used(t) : MapOf(t)[t.slots[b].key] = t.slots[b].val
         /\ \A e \in Assoc(t) : MapOf(t)[e.key] = e.val
<1>1. /\ \A b \in Used(t) : t.slots[b] \in Entries
      /\ \A b, c \in Used(t) : t.slots[b].key = t.slots[c].key => b = c
  BY DEF Table, Contents
<1>2. DOMAIN MapOf(t) = KeysOf(t)
  BY DEF MapOf
<1>3. KeysOf(t) \subseteq Key
  BY <1>1 DEF KeysOf, Entries
<1>4. \A k : k \in KeysOf(t) <=> \E e \in Assoc(t) : e.key = k
  BY DEF KeysOf, Assoc
<1>5. ASSUME NEW b \in Used(t) PROVE MapOf(t)[t.slots[b].key] = t.slots[b].val
  <2>1. PICK k : k = t.slots[b].key /\ k \in KeysOf(t)
    BY DEF KeysOf
  <2>2. PICK c : c = CHOOSE i \in Used(t) : t.slots[i].key = k
    OBVIOUS
  <2>3. c \in Used(t) /\ t.slots[c].key = k
    BY <2>1, <2>2
  <2>4. c = b
    BY <2>1, <2>3, <1>1
  <2>5. MapOf(t)[k] = t.slots[c].val
    BY <2>1, <2>2 DEF MapOf
  <2>6. QED
    BY <2>1, <2>4, <2>5
<1>6. \A e \in Assoc(t) : MapOf(t)[e.key] = e.val
  BY <1>5 DEF Assoc
<1>7. QED
  BY <1>2, <1>3, <1>4, <1>5, <1>6

(* A function with the keys and the values of the entries is that map.     *)
LEMMA SameMap ==
  ASSUME NEW n, NEW t, Table(t, n), NEW f, f = [x \in DOMAIN f |-> f[x]],
         \A k : k \in DOMAIN f <=> \E e \in Assoc(t) : e.key = k,
         \A e \in Assoc(t) : f[e.key] = e.val
  PROVE  MapOf(t) = f
<1>1. DOMAIN MapOf(t) = DOMAIN f
  BY MapIs
<1>2. \A k \in DOMAIN f : MapOf(t)[k] = f[k]
  <2>1. TAKE k \in DOMAIN f
  <2>2. PICK e \in Assoc(t) : e.key = k
    OBVIOUS
  <2>3. QED
    BY <2>2, MapIs
<1>3. MapOf(t) = [x \in DOMAIN MapOf(t) |-> MapOf(t)[x]]
  BY DEF MapOf
<1>4. QED
  BY <1>1, <1>2, <1>3

(* Deleting takes the key out of the table and moves no entry.             *)
LEMMA DeleteKey ==
  ASSUME HashOK, NEW n, NEW t, Table(t, n), NEW k \in Key, NEW d, d = pic_dict_del(t, k)
  PROVE  /\ Table(d, n) /\ d.n_occupied = t.n_occupied
         /\ Assoc(d) = Others(t, k)
         /\ \A b \in Used(t) : t.slots[b].key # k => b \in Used(d) /\ d.slots[b] = t.slots[b]
         /\ \A b \in Used(d) : d.slots[b].key # k
<1>1. n \in Nat /\ t.flags \in [0 .. n - 1 -> Flags]
  BY DEF Table, Contents
<1>2. \A b \in Used(t) : b \in 0 .. n - 1
  BY <1>1, Buckets
<1>3. PICK x : x = kh_get(t, k)
  OBVIOUS
<1>4. /\ \A b \in Used(t) : t.slots[b].key = k => x = b
      /\ (\A b \in Used(t) : t.slots[b].key # k) => x = n
  BY <1>3, Get
<1>5. x \in 0 .. n
  <2>1. \A b \in 0 .. n - 1 : b \in 0 .. n
    BY <1>1
  <2>2. n \in 0 .. n
    BY <1>1
  <2>3. QED
    BY <2>1, <2>2, <1>2, <1>4
<1>6. x \in Used(t) => t.slots[x].key = k
  <2>1. SUFFICES ASSUME x \in Used(t), t.slots[x].key # k PROVE FALSE
    OBVIOUS
  <2>2. x = n
    BY <2>1, <1>4
  <2>3. n \notin 0 .. n - 1
    BY <1>1
  <2>4. QED
    BY <2>1, <2>2, <2>3, <1>2
<1>7. d = kh_del(t, x)
  BY <1>3 DEF pic_dict_del
<1>8. /\ Table(d, n) /\ Used(d) = Used(t) \ {x}
      /\ \A b \in Used(t) \ {x} : d.slots[b] = t.slots[b]
      /\ d.n_occupied = t.n_occupied
  BY <1>5, <1>7, Del
<1>9. \A b \in Used(t) : b # x <=> t.slots[b].key # k
  BY <1>4, <1>6
<1>10. Assoc(d) = Others(t, k)
  <2>1. \A e \in Assoc(d) : e \in Assoc(t) /\ e.key # k
    <3>1. TAKE e \in Assoc(d)
    <3>2. PICK b \in Used(d) : e = d.slots[b]
      BY DEF Assoc
    <3>3. b \in Used(t) /\ e = t.slots[b] /\ e.key # k
      BY <3>2, <1>8, <1>9
    <3>4. QED
      BY <3>3 DEF Assoc
  <2>2. \A e \in Assoc(t) : e.key # k => e \in Assoc(d)
    <3>1. TAKE e \in Assoc(t)
    <3>2. PICK b \in Used(t) : e = t.slots[b]
      BY DEF Assoc
    <3>3. e.key # k => b \in Used(d) /\ e = d.slots[b]
      BY <3>2, <1>8, <1>9
    <3>4. QED
      BY <3>3 DEF Assoc
  <2>3. QED
    BY <2>1, <2>2 DEF Others
<1>11. /\ \A b \in Used(t) : t.slots[b].key # k => b \in Used(d) /\ d.slots[b] = t.slots[b]
       /\ \A b \in Used(d) : d.slots[b].key # k
  BY <1>8, <1>9
<1>12. QED
  BY <1>8, <1>10, <1>11

-----------------------------------------------------------------------------
(* The invariant, and the counts.                                          *)

DictOK == HashOK /\ \E n : Table(dict, n)

(* The invariant holds at the start, of a table with nothing in it.        *)
LEMMA DictStart ==
  ASSUME Init
  PROVE  DictOK /\ Assoc(dict) = {}
BY EmptyTable, KeyAssumption DEF Init, DictOK, HashOK

(* The hash of a key never changes, so a step may be seen in the old state.*)
LEMMA SameHash ==
  ASSUME hash' = hash, NEW n \in Nat, Table(dict', n), HashOK
  PROVE  DictOK'
<1>1. HashOK'
  BY DEF HashOK
<1>2. Table(dict, n)'
  BY DEF Table, Contents, Reached, Probe
<1>3. QED
  BY <1>1, <1>2 DEF DictOK

(* A dictionary made from a list is a table.                               *)
LEMMA MakeOK ==
  ASSUME DictOK, NEW l \in Seq(Key \X Val), Make(l)
  PROVE  DictOK'
<1>1. HashOK /\ hash' = hash /\ dict' = pic_dict_dictionary(l)
  BY DEF Make, DictOK
<1>2. PICK n : Table(dict', n)
  BY <1>1, FromPairs
<1>3. n \in Nat
  BY <1>2 DEF Table
<1>4. QED
  BY <1>1, <1>2, <1>3, SameHash

(* What dictionary-set! does to the entries, and which of them may move.   *)
Effect(m, n, k, v) ==
  /\ Table(dict, m) /\ Table(dict', n)
  /\ Assoc(dict') = Others(dict, k) \union (IF v = Undef THEN {} ELSE {Entry(k, v)})
  /\ \/ /\ n = m /\ dict'.n_occupied >= dict.n_occupied
        /\ \A b \in Used(dict) :
             \/ b \in Used(dict') /\ dict'.slots[b].key = dict.slots[b].key
             \/ v = Undef /\ dict.slots[b].key = k
     \/ n # m
     \/ dict'.n_occupied < dict.n_occupied

(* Both ways of dictionary-set! do that.                                   *)
LEMMA SetEffect ==
  ASSUME DictOK, NEW k \in Key, NEW v \in Val \union {Undef}, pic_dict_dictionary_set(k, v)
  PROVE  \E m, n : Effect(m, n, k, v)
<1>1. PICK t, d : t = dict /\ d = dict'
  OBVIOUS
<1>0. HashOK
  BY DEF DictOK
<1>2. d = IF v = Undef THEN pic_dict_del(t, k) ELSE kh_put(t, k, v)
  BY <1>1 DEF pic_dict_dictionary_set
<1>3. PICK m : Table(t, m)
  BY <1>1 DEF DictOK
<1>4. CASE v = Undef
  <2>1. d = pic_dict_del(t, k)
    BY <1>2, <1>4
  <2>2. /\ Table(d, m) /\ d.n_occupied = t.n_occupied
        /\ Assoc(d) = Others(t, k)
        /\ \A b \in Used(t) : t.slots[b].key # k => b \in Used(d) /\ d.slots[b] = t.slots[b]
    BY <2>1, <1>0, <1>3, DeleteKey
  <2>3. t.n_occupied \in Nat
    BY <1>3, Sizes
  <2>4. d.n_occupied >= t.n_occupied
    BY <2>2, <2>3
  <2>5. Effect(m, m, k, v)
    BY <2>2, <2>4, <1>1, <1>3, <1>4 DEF Effect
  <2>6. QED
    BY <2>5
<1>5. CASE v # Undef
  <2>1. d = kh_put(t, k, v) /\ v \in Val
    BY <1>2, <1>5
  <2>2. PICK n : /\ Table(d, n)
                 /\ Assoc(d) = Others(t, k) \union {Entry(k, v)}
                 /\ \/ /\ n = m /\ d.n_occupied >= t.n_occupied
                       /\ \A b \in Used(t) : b \in Used(d) /\ d.slots[b].key = t.slots[b].key
                    \/ n # m
                    \/ d.n_occupied < t.n_occupied
    BY <2>1, <1>0, <1>3, Put
  <2>3. Effect(m, n, k, v)
    BY <2>2, <1>1, <1>3, <1>5 DEF Effect
  <2>4. QED
    BY <2>3
<1>6. QED
  BY <1>4, <1>5

(* dictionary-set! keeps the invariant.                                    *)
LEMMA SetOK ==
  ASSUME DictOK, NEW k \in Key, NEW v \in Val \union {Undef}, pic_dict_dictionary_set(k, v)
  PROVE  DictOK'
<1>1. PICK m, n : Effect(m, n, k, v)
  BY SetEffect
<1>2. n \in Nat /\ Table(dict', n)
  BY <1>1 DEF Effect, Table
<1>3. HashOK /\ hash' = hash
  BY DEF DictOK, pic_dict_dictionary_set
<1>4. QED
  BY <1>2, <1>3, SameHash

(* The lists a call makes a dictionary from.                               *)
LEMMA MakesOf ==
  ASSUME NEW l \in Lists
  PROVE  /\ l \in Seq(Key \X Val) /\ Reverse(l) \in Seq(Key \X Val)
         /\ pic_dict_alist_to_dictionary(l) <=> Make(Reverse(l))
         /\ pic_dict_plist_to_dictionary(Plist(l)) <=> Make(Reverse(l))
<1>1. l \in Seq(Key \X Val)
  BY ListAssumption
<1>2. Pairs(Reverse(Plist(l))) = Reverse(l)
  BY <1>1, PairsBack
<1>3. pic_dict_plist_to_dictionary(Plist(l)) <=> Make(Pairs(Reverse(Plist(l))))
  BY DEF pic_dict_plist_to_dictionary, Pairs
<1>4. QED
  BY <1>1, <1>2, <1>3, Reversed DEF pic_dict_alist_to_dictionary

(* What the steps are to the dictionary.                                   *)
LEMMA Steps ==
  ASSUME Next
  PROVE  \/ UNCHANGED << hash, dict >>
         \/ \E k \in Key, v \in Val \union {Undef} : pic_dict_dictionary_set(k, v)
         \/ \E l \in Lists : Make(l) \/ Make(Reverse(l))
BY MakesOf DEF Next, pic_dict_dictionary_ref, pic_dict_dictionary_size, pic_dict_dictionary_to_alist,
   pic_dict_dictionary_to_plist, pic_dict_dictionary_map, pic_dict_dictionary_for_each, Begin,
   IterNext, Escape

(* Steps that leave the table alone keep it.                               *)
LEMMA UnchangedOK ==
  ASSUME DictOK, UNCHANGED << hash, dict >>
  PROVE  DictOK'
<1>1. PICK n : Table(dict', n) /\ n \in Nat
  BY DEF DictOK, Table
<1>2. QED
  BY <1>1, SameHash DEF DictOK

(* Every table is one that khash.h's functions keep: what is in it is      *)
(* found, once, and its counts are those of its buckets.                   *)
THEOREM Invariant == Spec => []DictOK
<1>1. Init => DictOK
  BY DictStart
<1>2. DictOK /\ [Next]_vars => DictOK'
  <2>1. SUFFICES ASSUME DictOK, [Next]_vars PROVE DictOK'
    OBVIOUS
  <2>2. CASE UNCHANGED << hash, dict >>
    BY <2>1, <2>2, UnchangedOK
  <2>3. ASSUME NEW k \in Key, NEW v \in Val \union {Undef}, pic_dict_dictionary_set(k, v)
        PROVE  DictOK'
    BY <2>1, <2>3, SetOK
  <2>4. ASSUME NEW l \in Lists, Make(l) \/ Make(Reverse(l)) PROVE DictOK'
    BY <2>1, <2>4, MakesOf, MakeOK
  <2>5. UNCHANGED vars => UNCHANGED << hash, dict >>
    BY DEF vars
  <2>6. QED
    BY <2>1, <2>2, <2>3, <2>4, <2>5, Steps
<1>3. QED
  BY <1>1, <1>2, PTL DEF Spec

(* RoomLeft (khash.h's loops over buckets end): the counts are right, and  *)
(* an empty bucket is left in every table that has any.                    *)
THEOREM RoomIsLeft == Spec => []RoomLeft
<1>1. DictOK => RoomLeft
  <2>1. SUFFICES ASSUME DictOK PROVE RoomLeft
    OBVIOUS
  <2>2. PICK n : Table(dict, n)
    BY <2>1 DEF DictOK
  <2>3. n \in Nat /\ Sized(n) /\ dict.flags \in [0 .. n - 1 -> Flags] /\ Counts(dict, n)
    BY <2>2 DEF Table, Contents
  <2>4. kh_end(dict) = n /\ Cardinality(Filled(dict.flags)) \in Nat
    BY <2>3, Buckets
  <2>5. ASSUME n > 0 PROVE \E i \in DOMAIN dict.flags : dict.flags[i] = "empty"
    <3>1. n >= 4
      BY <2>3, <2>5, FourAtLeast DEF Sized
    <3>2. ac_hash_upper(n) \in Nat /\ ac_hash_upper(n) < n
      BY <2>3, <3>1, Upper
    <3>3. Cardinality(Filled(dict.flags)) < n
      BY <2>3, <2>4, <2>5, <3>2 DEF Counts
    <3>4. QED
      BY <2>3, <3>3, Buckets
  <2>6. QED
    BY <2>3, <2>4, <2>5 DEF RoomLeft, Counts, Filled
<1>2. QED
  BY <1>1, Invariant, PTL

-----------------------------------------------------------------------------
(* The iteration.                                                          *)

(* Of a bucket before the iterator the key has been called with, of one    *)
(* from it on it has not.                                                  *)
Counted(proc, count, b, it) ==
  IF proc = "map" THEN count = IF b < it THEN 1 ELSE 0
  ELSE count \in {0, 1} /\ (b >= it => count = 0)

IterOK ==
  iter # NoIter =>
    /\ iter = [proc |-> iter.proc, it |-> iter.it, calls |-> iter.calls]
    /\ iter.it \in Nat
    /\ DOMAIN iter.calls \subseteq KeysOf(dict)
    /\ iter.calls = [k \in DOMAIN iter.calls |-> iter.calls[k]]
    /\ \A b \in Used(dict) :
         dict.slots[b].key \in DOMAIN iter.calls =>
           Counted(iter.proc, iter.calls[dict.slots[b].key], b, iter.it)

(* An iteration begins with no call made.                                  *)
LEMMA BeginIter ==
  ASSUME NEW n, Table(dict, n), NEW proc, NEW it \in Nat, proc = "map" => it = 0, Begin(proc, it)
  PROVE  IterOK'
<1>1. dict' = dict /\ iter' = [proc |-> proc, it |-> it, calls |-> [k \in KeysOf(dict) |-> 0]]
  BY DEF Begin
<1>2. \A b \in Used(dict) : b \in Nat /\ dict.slots[b].key \in KeysOf(dict)
  <2>1. \A b \in Used(dict) : b \in 0 .. n - 1
    BY Sizes, Buckets
  <2>2. n \in Nat
    BY Sizes
  <2>3. QED
    BY <2>1, <2>2 DEF KeysOf
<1>3. /\ iter'.proc = proc /\ iter'.it = it /\ iter'.calls = [k \in KeysOf(dict) |-> 0]
      /\ DOMAIN iter'.calls = KeysOf(dict)
      /\ iter' = [proc |-> iter'.proc, it |-> iter'.it, calls |-> iter'.calls]
  BY <1>1
<1>4. \A b \in Used(dict) : Counted(proc, 0, b, it)
  BY <1>2 DEF Counted
<1>5. QED
  BY <1>1, <1>2, <1>3, <1>4 DEF IterOK

(* Its next call is for the first bucket in use from the iterator on,      *)
(* which then is past it.                                                  *)
LEMMA NextIter ==
  ASSUME NEW n, Table(dict, n), IterOK, IterNext
  PROVE  IterOK'
<1>1. iter # NoIter /\ dict' = dict
  BY DEF IterNext
<1>2. /\ iter = [proc |-> iter.proc, it |-> iter.it, calls |-> iter.calls]
      /\ iter.it \in Nat /\ DOMAIN iter.calls \subseteq KeysOf(dict)
      /\ iter.calls = [k \in DOMAIN iter.calls |-> iter.calls[k]]
      /\ \A b \in Used(dict) :
           dict.slots[b].key \in DOMAIN iter.calls =>
             Counted(iter.proc, iter.calls[dict.slots[b].key], b, iter.it)
  BY <1>1 DEF IterOK
<1>3. n \in Nat /\ Used(dict) \in SUBSET Nat
  <2>1. \A b \in Used(dict) : b \in 0 .. n - 1
    BY Sizes, Buckets
  <2>2. n \in Nat
    BY Sizes
  <2>3. QED
    BY <2>1, <2>2
<1>4. \A b, c \in Used(dict) : dict.slots[b].key = dict.slots[c].key => b = c
  BY DEF Table, Contents
<1> DEFINE left == {j \in Used(dict) : j >= iter.it}
           p == pic_dict_next(iter.it)
<1>5. CASE left = {}
  <2>1. ~ p.found
    BY <1>5 DEF pic_dict_next
  <2>2. iter' = NoIter
    BY <2>1 DEF IterNext
  <2>3. QED
    BY <2>2 DEF IterOK
<1>6. CASE left # {}
  <2>1. PICK x : x = Min(left)
    OBVIOUS
  <2>2. p.found /\ p.at = x /\ p.it = x + 1
    BY <2>1, <1>6 DEF pic_dict_next
  <2>3. x \in left /\ \A b \in left : x <= b
    <3>1. left \in SUBSET Nat
      BY <1>3
    <3> HIDE DEF left
    <3>2. QED
      BY <2>1, <3>1, <1>6, MinIs
  <2>4. x \in Used(dict) /\ x \in Nat /\ x >= iter.it
    BY <2>3, <1>3
  <2>5. PICK key : key = dict.slots[x].key
    OBVIOUS
  <2>6. iter' = [iter EXCEPT !.it = x + 1,
                             !.calls = [k \in DOMAIN iter.calls |->
                               IF k = key THEN iter.calls[k] + 1 ELSE iter.calls[k]]]
    <3> HIDE DEF p
    <3>1. QED
      BY <2>2, <2>5 DEF IterNext, p
  <2>7. /\ iter' = [proc |-> iter'.proc, it |-> iter'.it, calls |-> iter'.calls]
        /\ iter'.proc = iter.proc /\ iter'.it = x + 1
        /\ DOMAIN iter'.calls = DOMAIN iter.calls
        /\ \A k \in DOMAIN iter.calls :
             iter'.calls[k] = IF k = key THEN iter.calls[k] + 1 ELSE iter.calls[k]
        /\ iter'.calls = [k \in DOMAIN iter'.calls |-> iter'.calls[k]]
    BY <2>6, <1>2
  <2>8. ASSUME NEW b \in Used(dict), dict.slots[b].key \in DOMAIN iter.calls
        PROVE  Counted(iter.proc, iter'.calls[dict.slots[b].key], b, x + 1)
    <3>1. Counted(iter.proc, iter.calls[dict.slots[b].key], b, iter.it) /\ b \in Nat
      BY <2>8, <1>2, <1>3
    <3>2. CASE b = x
      <4>1. iter.calls[dict.slots[b].key] = 0
        BY <2>4, <3>1, <3>2, <1>2 DEF Counted
      <4>2. iter'.calls[dict.slots[b].key] = 1
        BY <2>5, <2>7, <2>8, <3>2, <4>1
      <4>3. QED
        BY <2>4, <3>2, <4>2 DEF Counted
    <3>3. CASE b # x
      <4>1. dict.slots[b].key # key
        BY <2>4, <2>5, <3>3, <1>4
      <4>2. iter'.calls[dict.slots[b].key] = iter.calls[dict.slots[b].key]
        BY <2>7, <2>8, <4>1
      <4>3. b >= iter.it => b >= x + 1
        BY <2>3, <2>4, <3>1, <3>3
      <4>4. b < iter.it => b < x + 1
        BY <2>4, <3>1, <1>2
      <4>5. (b < iter.it <=> b < x + 1) /\ (b >= x + 1 => b >= iter.it)
        BY <2>4, <3>1, <4>3, <4>4, <1>2
      <4>6. QED
        BY <3>1, <4>2, <4>5 DEF Counted
    <3>4. QED
      BY <3>2, <3>3
  <2>9. QED
    BY <2>4, <2>7, <2>8, <1>1, <1>2 DEF IterOK
<1>7. QED
  BY <1>5, <1>6

(* What the procedure called does to the dictionary leaves the calls of    *)
(* the keys that stay in their buckets as they are.                        *)
LEMMA SetIter ==
  ASSUME DictOK, IterOK, NEW k \in Key, NEW v \in Val \union {Undef}, pic_dict_dictionary_set(k, v)
  PROVE  IterOK'
<1>1. PICK m, n : Effect(m, n, k, v)
  BY SetEffect
<1>2. PICK d : d = dict'
  OBVIOUS
<1>3. /\ Table(dict, m) /\ Table(d, n)
      /\ Assoc(d) = Others(dict, k) \union (IF v = Undef THEN {} ELSE {Entry(k, v)})
      /\ \/ /\ n = m /\ d.n_occupied >= dict.n_occupied
            /\ \A b \in Used(dict) :
                 \/ b \in Used(d) /\ d.slots[b].key = dict.slots[b].key
                 \/ v = Undef /\ dict.slots[b].key = k
         \/ n # m
         \/ d.n_occupied < dict.n_occupied
  BY <1>1, <1>2 DEF Effect
<1>4. SUFFICES ASSUME iter' # NoIter PROVE IterOK'
  BY DEF IterOK
<1>5. iter # NoIter
  BY <1>4 DEF pic_dict_dictionary_set, Watch
<1>6. /\ iter = [proc |-> iter.proc, it |-> iter.it, calls |-> iter.calls]
      /\ iter.it \in Nat /\ DOMAIN iter.calls \subseteq KeysOf(dict)
      /\ iter.calls = [j \in DOMAIN iter.calls |-> iter.calls[j]]
      /\ \A b \in Used(dict) :
           dict.slots[b].key \in DOMAIN iter.calls =>
             Counted(iter.proc, iter.calls[dict.slots[b].key], b, iter.it)
  BY <1>5 DEF IterOK
<1>7. PICK S : S = {j \in DOMAIN iter.calls : ~Moved(d) /\ kh_get(d, j) # kh_end(d)}
  OBVIOUS
<1>8. iter' = [iter EXCEPT !.calls = [j \in S |-> iter.calls[j]]]
  BY <1>2, <1>5, <1>7 DEF pic_dict_dictionary_set, Watch, Restrict
<1>9. /\ iter' = [proc |-> iter'.proc, it |-> iter'.it, calls |-> iter'.calls]
      /\ iter'.proc = iter.proc /\ iter'.it = iter.it
      /\ DOMAIN iter'.calls = S
      /\ \A j \in S : iter'.calls[j] = iter.calls[j]
      /\ iter'.calls = [j \in DOMAIN iter'.calls |-> iter'.calls[j]]
  BY <1>6, <1>8
<1>10. n_buckets(dict) = m /\ n_buckets(d) = n /\ kh_end(d) = n
  <2>1. m \in Nat /\ dict.flags \in [0 .. m - 1 -> Flags] /\ n \in Nat /\ d.flags \in [0 .. n - 1 -> Flags]
    BY <1>3, Sizes
  <2>2. QED
    BY <2>1, Buckets
<1>11. dict.n_occupied \in Nat /\ d.n_occupied \in Nat
  BY <1>3, Sizes
<1>0. HashOK
  BY DEF DictOK
<1>12. S \subseteq KeysOf(d)
  <2>1. SUFFICES ASSUME NEW j \in S PROVE j \in KeysOf(d)
    OBVIOUS
  <2>2. j \in Key
    BY <1>3, <1>6, <1>7, MapIs
  <2>3. kh_get(d, j) # n
    BY <1>7, <1>10
  <2>4. PICK b \in Used(d) : d.slots[b].key = j
    BY <2>2, <2>3, <1>0, <1>3, Get
  <2>5. QED
    BY <2>4 DEF KeysOf
<1>13. ASSUME NEW c \in Used(d), d.slots[c].key \in S
       PROVE  Counted(iter.proc, iter.calls[d.slots[c].key], c, iter.it)
  <2>1. PICK j \in DOMAIN iter.calls : j = d.slots[c].key /\ ~ Moved(d)
    BY <1>7, <1>13
  <2>2. ~ n # m /\ ~ d.n_occupied < dict.n_occupied
    BY <2>1, <1>10 DEF Moved
  <2>3. PICK b \in Used(dict) : dict.slots[b].key = j
    BY <1>6 DEF KeysOf
  <2>4. ~ (v = Undef /\ j = k)
    <3>1. SUFFICES ASSUME v = Undef, j = k PROVE FALSE
      OBVIOUS
    <3>2. d.slots[c] \in Assoc(d)
      BY DEF Assoc
    <3>3. d.slots[c] \in Others(dict, k)
      BY <3>1, <3>2, <1>3
    <3>4. QED
      BY <2>1, <3>1, <3>3 DEF Others
  <2>5. b \in Used(d) /\ d.slots[b].key = j
    BY <2>2, <2>3, <2>4, <1>3
  <2>6. b = c
    BY <2>1, <2>5, <1>3 DEF Table, Contents
  <2>7. QED
    BY <2>1, <2>3, <2>6, <1>6
<1>14. QED
  BY <1>2, <1>6, <1>9, <1>12, <1>13 DEF IterOK

(* EachKeyOnce (dictionary-map and dictionary-for-each, dict.c).           *)
THEOREM KeysOnce == Spec => []EachKeyOnce
<1>1. Init => IterOK
  BY DEF Init, IterOK
<1>2. DictOK /\ IterOK /\ [Next]_vars => IterOK'
  <2>1. SUFFICES ASSUME DictOK, IterOK, [Next]_vars PROVE IterOK'
    OBVIOUS
  <2>2. PICK n : Table(dict, n)
    BY <2>1 DEF DictOK
  <2>3. CASE UNCHANGED << dict, iter >>
    BY <2>1, <2>3 DEF IterOK
  <2>4. CASE iter' = NoIter
    BY <2>4 DEF IterOK
  <2>5. CASE UNCHANGED vars
    BY <2>3, <2>5 DEF vars
  <2>6. ASSUME NEW k \in Key, pic_dict_dictionary_ref(k) PROVE IterOK'
    BY <2>3, <2>6 DEF pic_dict_dictionary_ref
  <2>7. ASSUME NEW k \in Key, NEW v \in Val \union {Undef}, pic_dict_dictionary_set(k, v) PROVE IterOK'
    BY <2>1, <2>7, SetIter
  <2>8. CASE pic_dict_dictionary_size \/ pic_dict_dictionary_to_alist \/ pic_dict_dictionary_to_plist
    BY <2>3, <2>8 DEF pic_dict_dictionary_size, pic_dict_dictionary_to_alist, pic_dict_dictionary_to_plist
  <2>9. ASSUME NEW l, Make(l) PROVE IterOK'
    BY <2>4, <2>9 DEF Make
  <2>10. ASSUME NEW l \in Lists, pic_dict_alist_to_dictionary(l) \/ pic_dict_plist_to_dictionary(Plist(l))
         PROVE  IterOK'
    BY <2>9, <2>10, MakesOf
  <2>11. CASE pic_dict_dictionary_map
    BY <2>2, <2>11, BeginIter DEF pic_dict_dictionary_map
  <2>12. CASE pic_dict_dictionary_for_each
    <3>1. kh_end(dict) \in Nat
      BY <2>2, Sizes, Buckets
    <3>2. PICK it \in 0 .. kh_end(dict) : Begin("for-each", it)
      BY <2>12 DEF pic_dict_dictionary_for_each
    <3>3. it \in Nat
      BY <3>1, <3>2
    <3>4. QED
      BY <2>2, <3>2, <3>3, BeginIter
  <2>13. CASE IterNext
    BY <2>1, <2>2, <2>13, NextIter
  <2>14. CASE Escape
    BY <2>4, <2>14 DEF Escape
  <2>15. QED
    BY <2>1, <2>5, <2>6, <2>7, <2>8, <2>9, <2>10, <2>11, <2>12, <2>13, <2>14 DEF Next
<1>3. DictOK /\ IterOK => EachKeyOnce
  <2>1. SUFFICES ASSUME DictOK, IterOK, iter # NoIter, NEW k \in DOMAIN iter.calls
                 PROVE  IF iter.proc = "map"
                          THEN iter.calls[k] = IF kh_get(dict, k) < iter.it THEN 1 ELSE 0
                          ELSE iter.calls[k] <= 1
    BY DEF EachKeyOnce
  <2>2. PICK n : Table(dict, n)
    BY <2>1 DEF DictOK
  <2>3. PICK b \in Used(dict) : dict.slots[b].key = k
    BY <2>1 DEF IterOK, KeysOf
  <2>4. k \in Key
    BY <2>1, <2>2, MapIs DEF IterOK
  <2>5. kh_get(dict, k) = b
    BY <2>1, <2>2, <2>3, <2>4, Get DEF DictOK
  <2>6. Counted(iter.proc, iter.calls[k], b, iter.it)
    BY <2>1, <2>3 DEF IterOK
  <2>7. QED
    BY <2>5, <2>6 DEF Counted
<1>4. QED
  BY <1>1, <1>2, <1>3, Invariant, PTL DEF Spec

-----------------------------------------------------------------------------
(* The refinement.                                                         *)

(* at takes the elements of S from the greatest down.                      *)
Descends(at, S) ==
  /\ at \in [1 .. Cardinality(S) -> S]
  /\ \A i, j \in DOMAIN at : i < j => at[i] > at[j]

(* Any set of buckets can be taken so.                                     *)
LEMMA DescentExists ==
  ASSUME NEW n \in Nat, NEW S \in SUBSET (0 .. n - 1)
  PROVE  IsFiniteSet(S) /\ \E at : Descends(at, S)
<1> DEFINE Ok(k) == \A T \in SUBSET (0 .. k - 1) : IsFiniteSet(T) /\ \E at : Descends(at, T)
           A == {k \in Nat : Ok(k)}
<1>1. Ok(0)
  <2>1. \A T \in SUBSET (0 .. 0 - 1) : T = {}
    OBVIOUS
  <2>2. Descends(<< >>, {})
    <3>1. Cardinality({}) = 0 /\ 1 .. 0 = {}
      BY FS_EmptySet
    <3>2. << >> \in [{} -> {}] /\ DOMAIN << >> = {}
      OBVIOUS
    <3>3. QED
      BY <3>1, <3>2 DEF Descends
  <2>3. IsFiniteSet({})
    BY FS_EmptySet
  <2>4. QED
    BY <2>1, <2>2, <2>3
<1>2. ASSUME NEW k \in Nat, Ok(k) PROVE Ok(k + 1)
  <2>2. SUFFICES ASSUME NEW T \in SUBSET (0 .. (k + 1) - 1)
                 PROVE  IsFiniteSet(T) /\ \E at : Descends(at, T)
    OBVIOUS
  <2>3. CASE k \notin T
    <3>1. T \in SUBSET (0 .. k - 1)
      BY <2>3
    <3>2. QED
      BY <1>2, <3>1
  <2>4. CASE k \in T
    <3>1. PICK U : U = T \ {k}
      OBVIOUS
    <3>2. U \in SUBSET (0 .. k - 1) /\ T = U \union {k} /\ k \notin U
      BY <3>1, <2>4
    <3>3. IsFiniteSet(U) /\ \E at : Descends(at, U)
      BY <1>2, <3>2
    <3>4. PICK at : Descends(at, U)
      BY <3>3
    <3>5. PICK c \in Nat : c = Cardinality(U)
      BY <3>3, FS_CardinalityType
    <3>6. IsFiniteSet(T) /\ Cardinality(T) = c + 1
      <4>1. /\ IsFiniteSet(U \union {k})
            /\ Cardinality(U \union {k}) = IF k \in U THEN Cardinality(U) ELSE Cardinality(U) + 1
        BY <3>3, FS_AddElement
      <4>2. QED
        BY <4>1, <3>2, <3>5
    <3>7. at \in [1 .. c -> U] /\ \A i, j \in 1 .. c : i < j => at[i] > at[j]
      BY <3>4, <3>5 DEF Descends
    <3>8. PICK f : f = [i \in 1 .. c + 1 |-> IF i = 1 THEN k ELSE at[i - 1]]
      OBVIOUS
    <3>9. \A i \in 1 .. c : at[i] \in U /\ at[i] \in 0 .. k - 1
      BY <3>7, <3>2
    <3>10. \A i \in 1 .. c + 1 : i # 1 => i - 1 \in 1 .. c
      OBVIOUS
    <3>11. f \in [1 .. c + 1 -> T]
      BY <3>2, <3>8, <3>9, <3>10
    <3>12. \A i, j \in 1 .. c + 1 : i < j => f[i] > f[j]
      <4>1. SUFFICES ASSUME NEW i \in 1 .. c + 1, NEW j \in 1 .. c + 1, i < j PROVE f[i] > f[j]
        OBVIOUS
      <4>2. j # 1 /\ j - 1 \in 1 .. c /\ f[j] = at[j - 1]
        BY <4>1, <3>8, <3>10
      <4>3. CASE i = 1
        BY <4>2, <4>3, <3>8, <3>9
      <4>4. CASE i # 1
        BY <4>1, <4>2, <4>4, <3>7, <3>8, <3>10
      <4>5. QED
        BY <4>3, <4>4
    <3>13. Descends(f, T)
      BY <3>6, <3>8, <3>11, <3>12 DEF Descends
    <3>14. QED
      BY <3>6, <3>13
  <2>5. QED
    BY <2>3, <2>4
<1>3. A = Nat
  <2> HIDE DEF Ok
  <2>1. A \in SUBSET Nat /\ 0 \in A /\ \A k \in A : k + 1 \in A
    BY <1>1, <1>2
  <2> HIDE DEF A
  <2>2. QED
    BY <2>1, NatInd
<1>4. QED
  BY <1>3

(* Backwards(S) takes each element of S once.                              *)
LEMMA BackwardsIs ==
  ASSUME NEW n \in Nat, NEW S \in SUBSET (0 .. n - 1)
  PROVE  /\ Backwards(S) \in [1 .. Cardinality(S) -> S]
         /\ \A i, j \in 1 .. Cardinality(S) : i # j => Backwards(S)[i] # Backwards(S)[j]
<1>1. IsFiniteSet(S) /\ \E at : Descends(at, S)
  BY DescentExists
<1>2. PICK c \in Nat : c = Cardinality(S)
  BY <1>1, FS_CardinalityType
<1>3. PICK at : at = Backwards(S)
  OBVIOUS
<1>4. at \in [1 .. c -> S] /\ \A i, j \in DOMAIN at : i < j => at[i] > at[j]
  BY <1>1, <1>2, <1>3 DEF Backwards, Descends
<1>5. \A i, j \in 1 .. c : i # j => at[i] # at[j]
  <2>1. SUFFICES ASSUME NEW i \in 1 .. c, NEW j \in 1 .. c, i < j PROVE at[i] # at[j]
    BY <1>4
  <2>2. at[i] > at[j] /\ at[i] \in 0 .. n - 1
    BY <2>1, <1>4
  <2>3. QED
    BY <2>2
<1>6. QED
  BY <1>2, <1>3, <1>4, <1>5

(* The associations of a map.                                              *)
PairsOf(f) == {<< k, f[k] >> : k \in DOMAIN f}

Pair(t, b) == << t.slots[b].key, t.slots[b].val >>

(* There are as many keys, and as many associations, as buckets in use.    *)
LEMMA AsMany ==
  ASSUME NEW n, NEW t, Table(t, n)
  PROVE  /\ Cardinality(DOMAIN MapOf(t)) = Cardinality(Used(t))
         /\ Cardinality(PairsOf(MapOf(t))) = Cardinality(Used(t))
         /\ \A b \in Used(t) : Pair(t, b) \in PairsOf(MapOf(t))
         /\ \A b, c \in Used(t) : b # c => Pair(t, b) # Pair(t, c)
<1>1. n \in Nat /\ t.flags \in [0 .. n - 1 -> Flags]
  BY Sizes
<1>2. IsFiniteSet(Used(t))
  BY <1>1, Buckets
<1>3. \A b, c \in Used(t) : t.slots[b].key = t.slots[c].key => b = c
  BY DEF Table, Contents
<1>4. DOMAIN MapOf(t) = KeysOf(t) /\ \A b \in Used(t) : MapOf(t)[t.slots[b].key] = t.slots[b].val
  BY MapIs
<1>5. PairsOf(MapOf(t)) = {Pair(t, b) : b \in Used(t)}
  BY <1>4 DEF PairsOf, Pair, KeysOf
<1>6. \A b, c \in Used(t) : b # c => Pair(t, b) # Pair(t, c)
  BY <1>3 DEF Pair
<1>7. Cardinality(KeysOf(t)) = Cardinality(Used(t))
  <2>1. PICK f : f = [b \in Used(t) |-> t.slots[b].key]
    OBVIOUS
  <2>2. f \in Bijection(Used(t), KeysOf(t))
    BY <2>1, <1>3 DEF Bijection, Injection, Surjection, IsInjective, KeysOf
  <2>3. QED
    BY <2>2, <1>2, FS_Bijection DEF ExistsBijection
<1>8. Cardinality(PairsOf(MapOf(t))) = Cardinality(Used(t))
  <2>1. PICK f : f = [b \in Used(t) |-> Pair(t, b)]
    OBVIOUS
  <2>2. f \in Bijection(Used(t), PairsOf(MapOf(t)))
    BY <2>1, <1>5, <1>6 DEF Bijection, Injection, Surjection, IsInjective
  <2>3. QED
    BY <2>2, <1>2, FS_Bijection DEF ExistsBijection
<1>9. QED
  BY <1>4, <1>5, <1>6, <1>7, <1>8

(* The list of associations has each once.                                 *)
LEMMA ListsAll ==
  ASSUME DictOK
  PROVE  Associations \in SetToSeqs(PairsOf(MapOf(dict)))
<1>1. PICK n : Table(dict, n)
  BY DEF DictOK
<1>2. n \in Nat /\ Used(dict) \in SUBSET (0 .. n - 1)
  <2>1. n \in Nat /\ dict.flags \in [0 .. n - 1 -> Flags]
    BY <1>1, Sizes
  <2>2. QED
    BY <2>1, Buckets
<1>3. PICK c, at : c = Cardinality(Used(dict)) /\ at = Backwards(Used(dict))
  OBVIOUS
<1>4. at \in [1 .. c -> Used(dict)] /\ \A i, j \in 1 .. c : i # j => at[i] # at[j]
  BY <1>2, <1>3, BackwardsIs
<1>5. PICK P : P = PairsOf(MapOf(dict))
  OBVIOUS
<1>6. /\ Cardinality(P) = c
      /\ \A b \in Used(dict) : Pair(dict, b) \in P
      /\ \A a, b \in Used(dict) : a # b => Pair(dict, a) # Pair(dict, b)
  BY <1>1, <1>3, <1>5, AsMany
<1>7. PICK l : l = Associations
  OBVIOUS
<1>8. l = [j \in 1 .. c |-> Pair(dict, at[j])]
  BY <1>3, <1>4, <1>7 DEF Associations, Pair
<1>9. l \in [1 .. c -> P]
  BY <1>4, <1>6, <1>8
<1>10. \A i, j \in 1 .. c : i # j => l[i] # l[j]
  BY <1>4, <1>6, <1>8
<1>11. l \in SetToSeqs(P)
  BY <1>6, <1>9, <1>10 DEF SetToSeqs
<1>12. QED
  BY <1>5, <1>7, <1>11

(* The operators of Maps on lists and sets are those of this module.       *)
LEMMA SameOperators ==
  ASSUME NEW l
  PROVE  /\ AMap!Plist(l) = Plist(l) /\ AMap!Reverse(l) = Reverse(l)
         /\ AMap!Cardinality(l) = Cardinality(l) /\ AMap!SetToSeqs(l) = SetToSeqs(l)
<1>1. \A S : AMap!Cardinality(S) = Cardinality(S)
  BY DEF Cardinality, AMap!Cardinality
<1>2. AMap!Plist(l) = Plist(l)
  BY DEF AMap!Plist, Plist
<1>3. AMap!Reverse(l) = Reverse(l)
  BY DEF AMap!Reverse, Reverse
<1>4. AMap!SetToSeqs(l) = SetToSeqs(l)
  BY <1>1 DEF AMap!SetToSeqs, SetToSeqs
<1>5. QED
  BY <1>1, <1>2, <1>3, <1>4

(* The last association of each key of a list is the one the map has.      *)
LEMMA LatestIsMap ==
  ASSUME NEW l \in Seq(Key \X Val)
  PROVE  /\ AMap!FromList(l) = [x \in DOMAIN AMap!FromList(l) |-> AMap!FromList(l)[x]]
         /\ \A k : k \in DOMAIN AMap!FromList(l) <=> \E e \in Latest(l, Len(l)) : e.key = k
         /\ \A e \in Latest(l, Len(l)) : AMap!FromList(l)[e.key] = e.val
<1>1. PICK f : f = AMap!FromList(l)
  OBVIOUS
<1>2. PICK N \in Nat : N = Len(l) /\ DOMAIN l = 1 .. N
  OBVIOUS
<1> DEFINE Final(i, k) == l[i][1] = k /\ \A j \in i + 1 .. N : l[j][1] # k
<1>3. f = [k \in {l[i][1] : i \in 1 .. N} |-> l[CHOOSE i \in 1 .. N : Final(i, k)][2]]
  BY <1>1, <1>2 DEF AMap!FromList
<1>4. f = [x \in DOMAIN f |-> f[x]] /\ DOMAIN f = {l[i][1] : i \in 1 .. N}
  BY <1>3
<1>5. \A i, j \in 1 .. N : \A k : Final(i, k) /\ Final(j, k) => i = j
  <2>1. SUFFICES ASSUME NEW i \in 1 .. N, NEW j \in 1 .. N, NEW k, Final(i, k), Final(j, k), i < j
                 PROVE  FALSE
    OBVIOUS
  <2>2. j \in i + 1 .. N
    BY <2>1
  <2>3. QED
    BY <2>1, <2>2
<1>6. ASSUME NEW k \in DOMAIN f PROVE \E i \in 1 .. N : Final(i, k)
  <2>1. PICK T : T = {i \in 1 .. N : l[i][1] = k}
    OBVIOUS
  <2>2. T \in SUBSET (0 .. N) /\ T # {}
    BY <2>1, <1>4, <1>6
  <2>3. PICK i : i \in T /\ \A y \in T : i >= y
    BY <2>2, MaxIs
  <2>4. \A j \in i + 1 .. N : j \in 1 .. N /\ ~ i >= j
    BY <2>1, <2>3
  <2>5. Final(i, k)
    BY <2>1, <2>3, <2>4
  <2>6. QED
    BY <2>1, <2>3, <2>5
<1>7. \A e : e \in Latest(l, N) <=>
               \E j \in 1 .. N : e = Entry(l[j][1], l[j][2]) /\ Final(j, l[j][1])
  <2>1. \A j \in 1 .. N : (\A q \in 1 .. N : q > j => l[q][1] # l[j][1]) <=> Final(j, l[j][1])
    <3>1. \A j \in 1 .. N : \A q : q \in j + 1 .. N <=> q \in 1 .. N /\ q > j
      OBVIOUS
    <3>2. QED
      BY <3>1
  <2>2. QED
    BY <2>1 DEF Latest
<1> HIDE DEF Final
<1>8. \A e \in Latest(l, N) : e.key \in DOMAIN f /\ f[e.key] = e.val
  <2>1. TAKE e \in Latest(l, N)
  <2>2. PICK j \in 1 .. N : e = Entry(l[j][1], l[j][2]) /\ Final(j, l[j][1])
    BY <1>7
  <2>3. PICK k : k = l[j][1] /\ k \in DOMAIN f
    BY <1>4
  <2>4. PICK i : i = CHOOSE c \in 1 .. N : Final(c, k)
    OBVIOUS
  <2>5. i \in 1 .. N /\ Final(i, k)
    BY <2>2, <2>3, <2>4
  <2>6. i = j
    BY <2>2, <2>3, <2>5, <1>5
  <2>7. f[k] = l[i][2]
    BY <2>3, <2>4, <1>3
  <2>8. QED
    BY <2>2, <2>3, <2>6, <2>7 DEF Entry
<1>9. \A k \in DOMAIN f : \E e \in Latest(l, N) : e.key = k
  <2>1. TAKE k \in DOMAIN f
  <2>2. PICK i \in 1 .. N : Final(i, k)
    BY <1>6
  <2>3. l[i][1] = k
    BY <2>2 DEF Final
  <2>4. PICK e : e = Entry(k, l[i][2])
    OBVIOUS
  <2>5. e \in Latest(l, N) /\ e.key = k
    <3>1. e \in Latest(l, N)
      BY <2>2, <2>3, <2>4, <1>7
    <3>2. QED
      BY <3>1, <2>4 DEF Entry
  <2>6. QED
    BY <2>5
<1>10. QED
  BY <1>1, <1>2, <1>4, <1>8, <1>9

(* Making a dictionary makes the map of its list.                          *)
LEMMA MakeMaps ==
  ASSUME DictOK, NEW l \in Seq(Key \X Val), Make(l)
  PROVE  AsMap' = AMap!FromList(l) /\ result' = [op |-> "make"]
<1>1. HashOK /\ dict' = pic_dict_dictionary(l) /\ result' = [op |-> "make"]
  BY DEF Make, DictOK
<1>2. PICK d, f, N : d = dict' /\ f = AMap!FromList(l) /\ N = Len(l)
  OBVIOUS
<1>3. PICK n : Table(d, n) /\ Assoc(d) = Latest(l, N)
  BY <1>1, <1>2, FromPairs
<1>4. /\ f = [x \in DOMAIN f |-> f[x]]
      /\ \A k : k \in DOMAIN f <=> \E e \in Assoc(d) : e.key = k
      /\ \A e \in Assoc(d) : f[e.key] = e.val
  BY <1>2, <1>3, LatestIsMap
<1>5. MapOf(d) = f
  BY <1>3, <1>4, SameMap
<1>6. AsMap' = MapOf(d)
  BY <1>2 DEF AsMap, MapOf
<1>7. QED
  BY <1>1, <1>2, <1>5, <1>6

(* dictionary-set! changes the map at its key alone.                       *)
LEMMA SetMaps ==
  ASSUME DictOK, NEW k \in Key, NEW v \in Val \union {Undef}, pic_dict_dictionary_set(k, v)
  PROVE  AMap!Set(k)
<1>1. PICK m, n : Effect(m, n, k, v)
  BY SetEffect
<1>2. PICK t, d : t = dict /\ d = dict'
  OBVIOUS
<1>3. /\ Table(t, m) /\ Table(d, n)
      /\ Assoc(d) = Others(t, k) \union (IF v = Undef THEN {} ELSE {Entry(k, v)})
  BY <1>1, <1>2 DEF Effect
<1>4. PICK f : f = MapOf(t)
  OBVIOUS
<1>5. /\ \A j : j \in DOMAIN f <=> \E e \in Assoc(t) : e.key = j
      /\ \A e \in Assoc(t) : f[e.key] = e.val
  BY <1>3, <1>4, MapIs
<1>6. AsMap = f /\ AsMap' = MapOf(d)
  BY <1>2, <1>4 DEF AsMap, MapOf
<1>7. result' = [op |-> "set"]
  BY DEF pic_dict_dictionary_set
<1>8. CASE v = Undef
  <2>1. PICK g : g = AMap!Without(f, k)
    OBVIOUS
  <2>2. g = [x \in DOMAIN f \ {k} |-> f[x]]
    BY <2>1 DEF AMap!Without
  <2>3. \A e : e \in Assoc(d) <=> e \in Assoc(t) /\ e.key # k
    BY <1>3, <1>8 DEF Others
  <2>4. /\ g = [x \in DOMAIN g |-> g[x]]
        /\ \A j : j \in DOMAIN g <=> \E e \in Assoc(d) : e.key = j
        /\ \A e \in Assoc(d) : g[e.key] = e.val
    BY <2>2, <2>3, <1>5
  <2>5. MapOf(d) = g
    BY <2>4, <1>3, SameMap
  <2>6. QED
    BY <2>1, <2>5, <1>6, <1>7 DEF AMap!Set
<1>9. CASE v # Undef
  <2>1. PICK g : g = AMap!Put(f, k, v)
    OBVIOUS
  <2>2. g = [x \in DOMAIN f \union {k} |-> IF x = k THEN v ELSE f[x]]
    BY <2>1 DEF AMap!Put
  <2>3. \A e : e \in Assoc(d) <=> (e \in Assoc(t) /\ e.key # k) \/ e = Entry(k, v)
    BY <1>3, <1>9 DEF Others
  <2>4. Entry(k, v).key = k /\ Entry(k, v).val = v
    BY DEF Entry
  <2>5. g = [x \in DOMAIN g |-> g[x]]
    BY <2>2
  <2>6. \A j : j \in DOMAIN g <=> \E e \in Assoc(d) : e.key = j
    BY <2>2, <2>3, <2>4, <1>5
  <2>7. \A e \in Assoc(d) : g[e.key] = e.val
    BY <2>2, <2>3, <2>4, <1>5
  <2>8. MapOf(d) = g
    BY <2>5, <2>6, <2>7, <1>3, SameMap
  <2>9. QED
    BY <2>1, <2>8, <1>6, <1>7, <1>9 DEF AMap!Set
<1>10. QED
  BY <1>8, <1>9

(* Every step is one of the map, or none.                                  *)
LEMMA StepMaps ==
  ASSUME DictOK, [Next]_vars
  PROVE  [AMap!Next]_<< AsMap, result >>
<1>1. PICK n : Table(dict, n)
  BY DEF DictOK
<1>2. HashOK
  BY DEF DictOK
<1>3. AsMap = MapOf(dict)
  BY DEF AsMap, MapOf
<1>4. UNCHANGED dict => UNCHANGED AsMap
  BY DEF AsMap, KeysOf, Used, kh_exist
<1>5. CASE UNCHANGED vars
  BY <1>4, <1>5 DEF vars
<1>6. ASSUME NEW k \in Key, pic_dict_dictionary_ref(k) PROVE AMap!Next
  <2>1. kh_end(dict) = n
    BY <1>1, Sizes, Buckets
  <2>2. result' = [op |-> "ref", val |-> IF kh_get(dict, k) = n THEN False
                                         ELSE dict.slots[kh_get(dict, k)].val]
    BY <2>1, <1>6 DEF pic_dict_dictionary_ref
  <2>3. /\ \A b \in Used(dict) : dict.slots[b].key = k => kh_get(dict, k) = b
        /\ (\A b \in Used(dict) : dict.slots[b].key # k) => kh_get(dict, k) = n
    BY <1>1, <1>2, Get
  <2>4. /\ DOMAIN AsMap = KeysOf(dict)
        /\ \A b \in Used(dict) : AsMap[dict.slots[b].key] = dict.slots[b].val
    BY <1>1, <1>3, MapIs
  <2>5. result' = [op |-> "ref", val |-> IF k \in DOMAIN AsMap THEN AsMap[k] ELSE False]
    <3>1. CASE k \in DOMAIN AsMap
      <4>1. PICK b \in Used(dict) : dict.slots[b].key = k
        BY <2>4, <3>1 DEF KeysOf
      <4>2. b # n
        <5>1. n \in Nat /\ dict.flags \in [0 .. n - 1 -> Flags]
          BY <1>1, Sizes
        <5>2. b \in 0 .. n - 1
          BY <5>1, Buckets
        <5>3. QED
          BY <5>1, <5>2
      <4>3. QED
        BY <2>2, <2>3, <2>4, <3>1, <4>1, <4>2
    <3>2. CASE k \notin DOMAIN AsMap
      <4>1. \A b \in Used(dict) : dict.slots[b].key # k
        BY <2>4, <3>2 DEF KeysOf
      <4>2. QED
        BY <2>2, <2>3, <3>2, <4>1
    <3>3. QED
      BY <3>1, <3>2
  <2>6. UNCHANGED AsMap
    BY <1>4, <1>6 DEF pic_dict_dictionary_ref
  <2>7. QED
    BY <2>5, <2>6 DEF AMap!Next, AMap!Ref
<1>7. ASSUME NEW k \in Key, NEW v \in Val \union {Undef}, pic_dict_dictionary_set(k, v) PROVE AMap!Next
  BY <1>7, SetMaps DEF AMap!Next
<1>8. CASE pic_dict_dictionary_size
  <2>1. Cardinality(DOMAIN AsMap) = dict.size
    <3>1. Cardinality(DOMAIN AsMap) = Cardinality(Used(dict))
      BY <1>1, <1>3, AsMany
    <3>2. dict.size = Cardinality(Used(dict))
      BY <1>1 DEF Table, Counts
    <3>3. QED
      BY <3>1, <3>2
  <2>2. AMap!Cardinality(DOMAIN AsMap) = dict.size
    BY <2>1, SameOperators
  <2>3. UNCHANGED AsMap /\ result' = [op |-> "size", n |-> dict.size]
    BY <1>4, <1>8 DEF pic_dict_dictionary_size
  <2>4. AMap!Size
    BY <2>2, <2>3 DEF AMap!Size
  <2>5. QED
    BY <2>4 DEF AMap!Next
<1>9. CASE pic_dict_dictionary_to_alist \/ pic_dict_dictionary_to_plist
  <2>1. PICK l : l = Associations
    OBVIOUS
  <2>2. UNCHANGED AsMap /\ result' \in {[op |-> "alist", of |-> l], [op |-> "plist", of |-> Plist(l)]}
    BY <2>1, <1>4, <1>9 DEF pic_dict_dictionary_to_alist, pic_dict_dictionary_to_plist
  <2>3. l \in SetToSeqs(PairsOf(AsMap))
    BY <2>1, <1>3, ListsAll
  <2>4. l \in AMap!SetToSeqs({<< k, AsMap[k] >> : k \in DOMAIN AsMap})
    BY <2>3, SameOperators DEF PairsOf
  <2>5. AMap!Plist(l) = Plist(l)
    BY SameOperators
  <2>6. AMap!ToList
    BY <2>2, <2>4, <2>5 DEF AMap!ToList
  <2>7. QED
    BY <2>6 DEF AMap!Next
<1>10. ASSUME NEW l \in Lists, Make(l) \/ Make(Reverse(l)) PROVE AMap!Next
  <2>1. l \in Seq(Key \X Val) /\ Reverse(l) \in Seq(Key \X Val)
    BY MakesOf
  <2>2. /\ AsMap' = AMap!FromList(l) \/ AsMap' = AMap!FromList(Reverse(l))
        /\ result' = [op |-> "make"]
    BY <2>1, <1>10, MakeMaps
  <2>3. AMap!Reverse(l) = Reverse(l)
    BY SameOperators
  <2>4. AMap!Make
    BY <2>2, <2>3 DEF AMap!Make
  <2>5. QED
    BY <2>4 DEF AMap!Next
<1>11. CASE pic_dict_dictionary_map \/ pic_dict_dictionary_for_each \/ IterNext
  <2>1. UNCHANGED AsMap /\ result' = [op |-> "iterate"]
    BY <1>4, <1>11 DEF pic_dict_dictionary_map, pic_dict_dictionary_for_each, Begin, IterNext
  <2>2. QED
    BY <2>1 DEF AMap!Next, AMap!Iterate
<1>12. CASE Escape
  BY <1>4, <1>12 DEF Escape
<1>13. QED
  <2>1. ASSUME NEW l \in Lists, pic_dict_alist_to_dictionary(l) \/ pic_dict_plist_to_dictionary(Plist(l))
        PROVE  AMap!Next
    BY <2>1, <1>10, MakesOf
  <2>2. QED
    BY <1>5, <1>6, <1>7, <1>8, <1>9, <1>10, <1>11, <1>12, <2>1 DEF Next

(* ImplementsMap (the procedures of dict.c): the table, with its buckets   *)
(* and its rehashes, behaves as a map from symbols to values.              *)
THEOREM Implements == Spec => ImplementsMap
<1>1. Init => AMap!Init
  <2>1. SUFFICES ASSUME Init PROVE AMap!Init
    OBVIOUS
  <2>2. PICK n : Table(dict, n) /\ Assoc(dict) = {}
    BY <2>1, DictStart DEF DictOK
  <2>3. << >> = [x \in DOMAIN << >> |-> << >>[x]] /\ DOMAIN << >> = {}
    OBVIOUS
  <2>4. MapOf(dict) = << >>
    BY <2>2, <2>3, SameMap
  <2>5. AsMap = << >>
    BY <2>4 DEF AsMap, MapOf
  <2>6. QED
    BY <2>1, <2>5 DEF Init, AMap!Init
<1>2. DictOK /\ [Next]_vars => [AMap!Next]_<< AsMap, result >>
  BY StepMaps
<1>3. QED
  BY <1>1, <1>2, Invariant, PTL DEF Spec, ImplementsMap, AMap!Spec
=============================================================================
