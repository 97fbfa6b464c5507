------------------------------ MODULE HeapProofs ------------------------------
(***************************************************************************)
(* What holds of the free list and of the sweep for any pages, block sizes *)
(* and addresses: the list and the objects tile the pages, next-fit finds  *)
(* room wherever there is some, a sweep meets every object once, and all   *)
(* of it is a block store.                                                 *)
(***************************************************************************)
EXTENDS Heap, Induction, FiniteSetTheorems, SequenceTheorems

(* f links the addresses of its domain into one circle that goes up except *)
(* at one place: there is no address between an address and the next.      *)
Circle(f) ==
  /\ f \in [DOMAIN f -> DOMAIN f] /\ DOMAIN f \subseteq Nat
  /\ \E t \in DOMAIN f : f[t] <= t
  /\ \A b, c \in DOMAIN f : b < f[b] => ~ (b < c /\ c < f[b])
  /\ \A b, c \in DOMAIN f : f[b] <= b => c <= b /\ f[b] <= c

(* The blocks of memory m, which are free or in os.                        *)
Free(m) == {b \in DOMAIN m.ptr : m.size[b] > 0}
Blocks(m, os) == os \cup Free(m)
End(m, b) == b + m.size[b]

MemType(m, os) ==
  /\ m = [ptr |-> m.ptr, size |-> m.size, freep |-> m.freep]
  /\ Circle(m.ptr) /\ m.freep \in DOMAIN m.ptr
  /\ m.size \in [DOMAIN m.ptr \cup os -> Nat]
  /\ os \subseteq Nat /\ os \cap DOMAIN m.ptr = {}
  /\ \A o \in os : m.size[o] > 0

(* The list and the objects of os together fill the pages pgs.             *)
MemTiles(m, pgs, os) ==
  /\ MemType(m, os)
  /\ base \in BaseAddrs /\ pgs \subseteq PageAddrs
  /\ {b \in DOMAIN m.ptr : m.size[b] = 0} = pgs \cup {base}
  /\ \A b, c \in Blocks(m, os) : b < c => End(m, b) <= c
  /\ \A b \in Blocks(m, os) :
       \E a \in pgs : b > a /\ End(m, b) <= a + PageUnits
  /\ \A a \in pgs : \A u \in Units(a) :
       \E b \in Blocks(m, os) : b <= u /\ u < End(m, b)

(* Free blocks with the next block on the list right behind them.          *)
Seams(m) == {b \in Free(m) : m.ptr[b] \in Free(m) /\ End(m, b) = m.ptr[b]}

MemInv(m, pgs, os) == MemTiles(m, pgs, os) /\ Seams(m) = {}

-----------------------------------------------------------------------------

-----------------------------------------------------------------------------
(* Circles of addresses. *)

(* Above the last address the circle goes on with the first.               *)
LEMMA CircleTurn ==
  ASSUME NEW f, Circle(f), NEW q \in DOMAIN f, f[q] <= q
  PROVE  \A c \in DOMAIN f : c <= q /\ f[q] <= c
BY DEF Circle

(* An address that no link points past lies between a block and the next,  *)
(* or before the first, or after the last: in one place only.              *)
LEMMA PlaceExists ==
  ASSUME NEW f, Circle(f), NEW b \in Nat, b \notin DOMAIN f
  PROVE  \E q \in DOMAIN f : \/ q < b /\ b < f[q]
                             \/ q >= f[q] /\ (b > q \/ b < f[q])
<1>1. PICK t \in DOMAIN f : f[t] <= t
  BY DEF Circle
<1>2. DOMAIN f \subseteq Nat /\ f \in [DOMAIN f -> DOMAIN f]
  BY DEF Circle
<1>3. CASE b > t \/ b < f[t]
  BY <1>1, <1>2, <1>3
<1>4. CASE ~ (b > t \/ b < f[t])
  <2> DEFINE A == {c \in DOMAIN f : b < c}
  <2>1. A \in SUBSET Nat /\ t \in A
    BY <1>1, <1>2, <1>4
  <2>2. PICK c \in A : \A d \in A : c <= d
    BY <2>1, NatMin
  <2>3. \A d \in DOMAIN f : d < c => d < b
    BY <1>2, <2>2
  <2>4. \E q \in DOMAIN f : q < b /\ f[q] = c
    <3> DEFINE B == {q \in DOMAIN f : q < b}
    <3>1. f[t] \in B
      BY <1>1, <1>2, <1>4
    <3>2. \E q \in B : \A d \in B : d <= q
      <4> DEFINE U == {n \in Nat : \A d \in B : d <= n}
      <4>1. U \in SUBSET Nat /\ b \in U
        BY <1>2
      <4>2. PICK u \in U : \A v \in U : u <= v
        BY <4>1, NatMin
      <4>3. u \in B
        <5>1. SUFFICES ASSUME u \notin B PROVE FALSE
          OBVIOUS
        <5>2. \A d \in B : d < u /\ d \in Nat
          BY <1>2, <4>2, <5>1
        <5>3. u - 1 \in Nat /\ \A d \in B : d <= u - 1
          BY <3>1, <4>2, <5>2
        <5>4. u - 1 \in U
          BY <5>3
        <5>5. QED
          BY <4>2, <5>3, <5>4
      <4>4. QED
        BY <4>2, <4>3
    <3>3. PICK q \in B : \A d \in B : d <= q
      BY <3>2
    <3>4. q \in DOMAIN f /\ q < b /\ c \in DOMAIN f /\ b < c /\ f[q] \in DOMAIN f
      BY <1>2, <2>2, <3>3
    <3>5. q < f[q]
      <4>1. CASE f[q] <= q
        BY <1>2, <3>4, <4>1, CircleTurn
      <4>2. QED
        BY <1>2, <3>4, <4>1
    <3>6. ~ (q < c /\ c < f[q])
      BY <3>4, <3>5 DEF Circle
    <3>7. f[q] \in A
      <4>1. f[q] # b
        BY <3>4
      <4>2. ~ (f[q] < b)
        BY <1>2, <3>3, <3>4, <3>5
      <4>3. QED
        BY <1>2, <3>4, <4>1, <4>2
    <3>8. f[q] = c
      BY <1>2, <2>2, <3>4, <3>6, <3>7
    <3>9. QED
      BY <3>4, <3>8
  <2>5. QED
    BY <2>2, <2>4
<1>5. QED
  BY <1>3, <1>4

(* A new address, put in its place.                                        *)
LEMMA CircleInsert ==
  ASSUME NEW f, Circle(f), NEW b \in Nat, b \notin DOMAIN f, NEW q \in DOMAIN f,
         \/ q < b /\ b < f[q]
         \/ q >= f[q] /\ (b > q \/ b < f[q]),
         NEW g, DOMAIN g = DOMAIN f \cup {b},
         g = [c \in DOMAIN g |-> IF c = q THEN b ELSE IF c = b THEN f[q] ELSE f[c]]
  PROVE  Circle(g)
<1>1. DOMAIN f \subseteq Nat /\ f \in [DOMAIN f -> DOMAIN f] /\ f[q] \in DOMAIN f
  BY DEF Circle
<1>2. g \in [DOMAIN g -> DOMAIN g] /\ DOMAIN g \subseteq Nat
  BY <1>1
<1>3. g[q] = b /\ g[b] = f[q] /\ \A c \in DOMAIN f : c # q => g[c] = f[c]
  BY <1>1
<1>4. \A c, d \in DOMAIN f : c < f[c] => ~ (c < d /\ d < f[c])
  BY DEF Circle
<1>5. \A c, d \in DOMAIN f : f[c] <= c => d <= c /\ f[c] <= d
  BY DEF Circle
<1>6. \E t \in DOMAIN g : g[t] <= t
  <2>1. CASE q < b /\ b < f[q]
    <3>1. PICK t \in DOMAIN f : f[t] <= t
      BY DEF Circle
    <3>2. t # q
      BY <1>1, <2>1, <3>1
    <3>3. QED
      BY <1>3, <3>1, <3>2
  <2>2. CASE q >= f[q] /\ b > q
    BY <1>1, <1>3, <2>2
  <2>3. CASE q >= f[q] /\ b < f[q]
    BY <1>1, <1>3, <2>3
  <2>4. QED
    BY <2>1, <2>2, <2>3
<1>7. ASSUME NEW c \in DOMAIN g, NEW d \in DOMAIN g, c < g[c]
      PROVE  ~ (c < d /\ d < g[c])
  <2>1. CASE c = q
    BY <1>1, <1>3, <1>4, <1>5, <1>7, <2>1
  <2>2. CASE c = b
    BY <1>1, <1>3, <1>4, <1>5, <1>7, <2>2
  <2>3. CASE c # q /\ c # b
    <3>1. c \in DOMAIN f /\ g[c] = f[c] /\ f[c] \in DOMAIN f
      BY <1>1, <1>3, <2>3
    <3>2. CASE d \in DOMAIN f
      BY <1>4, <1>7, <3>1, <3>2
    <3>3. CASE d = b
      <4>1. ~ (c < q /\ q < f[c]) /\ (q < f[q] => ~ (q < c /\ c < f[q]))
        BY <1>1, <1>4, <1>7, <3>1
      <4>2. \A e \in DOMAIN f : f[q] <= q => e <= q /\ f[q] <= e
        BY <1>5
      <4>3. QED
        BY <1>1, <1>7, <2>3, <3>1, <3>3, <4>1, <4>2
    <3>4. QED
      BY <3>2, <3>3
  <2>4. QED
    BY <2>1, <2>2, <2>3
<1>8. ASSUME NEW c \in DOMAIN g, NEW d \in DOMAIN g, g[c] <= c
      PROVE  d <= c /\ g[c] <= d
  <2>1. CASE c = q
    BY <1>1, <1>3, <1>5, <1>8, <2>1
  <2>2. CASE c = b
    BY <1>1, <1>3, <1>5, <1>8, <2>2
  <2>3. CASE c # q /\ c # b
    <3>1. c \in DOMAIN f /\ g[c] = f[c] /\ f[c] \in DOMAIN f
      BY <1>1, <1>3, <2>3
    <3>2. q <= c /\ f[c] <= q /\ f[q] <= c /\ f[c] <= f[q]
      BY <1>1, <1>5, <1>8, <3>1
    <3>3. CASE d \in DOMAIN f
      BY <1>5, <1>8, <3>1, <3>3
    <3>4. CASE d = b
      <4>1. \A e \in DOMAIN f : f[q] <= q => e <= q
        BY <1>5
      <4>2. QED
        BY <1>1, <2>3, <3>1, <3>2, <3>4, <4>1
    <3>5. QED
      BY <3>3, <3>4
  <2>4. QED
    BY <2>1, <2>2, <2>3
<1>9. QED
  BY <1>2, <1>6, <1>7, <1>8 DEF Circle

(* A block taken out: the one before it is linked to the one after it.     *)
LEMMA CircleRemove ==
  ASSUME NEW f, Circle(f), NEW x \in DOMAIN f, NEW q \in DOMAIN f, f[q] = x, q # x,
         NEW g, DOMAIN g = DOMAIN f \ {x},
         g = [c \in DOMAIN g |-> IF c = q THEN f[x] ELSE f[c]]
  PROVE  Circle(g)
<1>1. DOMAIN f \subseteq Nat /\ f \in [DOMAIN f -> DOMAIN f] /\ f[x] \in DOMAIN f
  BY DEF Circle
<1>2. \A c, d \in DOMAIN f : c < f[c] => ~ (c < d /\ d < f[c])
  BY DEF Circle
<1>3. \A c, d \in DOMAIN f : f[c] <= c => d <= c /\ f[c] <= d
  BY DEF Circle
<1>4. f[x] # x
  BY <1>1, <1>3
<1>5. \A c \in DOMAIN f : c # q => f[c] # x
  <2>1. SUFFICES ASSUME NEW c \in DOMAIN f, c # q, f[c] = x
                 PROVE  FALSE
    OBVIOUS
  <2>2. CASE x <= c /\ x <= q
    BY <1>1, <1>3, <2>1, <2>2
  <2>3. CASE c < x /\ q < x
    BY <1>1, <1>2, <2>1, <2>3
  <2>4. CASE c < x /\ x <= q
    BY <1>1, <1>3, <2>1, <2>4
  <2>5. CASE x <= c /\ q < x
    BY <1>1, <1>3, <2>1, <2>5
  <2>6. QED
    BY <1>1, <2>2, <2>3, <2>4, <2>5
<1>6. /\ g[q] = f[x] /\ \A c \in DOMAIN g : c # q => g[c] = f[c]
      /\ g \in [DOMAIN g -> DOMAIN g] /\ DOMAIN g \subseteq Nat
  BY <1>1, <1>4, <1>5
<1>7. \E t \in DOMAIN g : g[t] <= t
  <2>1. PICK t \in DOMAIN f : f[t] <= t
    BY DEF Circle
  <2>2. CASE t = x
    BY <1>1, <1>3, <1>6, <2>1, <2>2
  <2>3. CASE t = q
    <3>1. f[x] <= q
      BY <1>1, <1>3, <2>1, <2>3
    <3>2. QED
      BY <1>6, <3>1
  <2>4. CASE t # x /\ t # q
    BY <1>6, <2>1, <2>4
  <2>5. QED
    BY <2>2, <2>3, <2>4
<1>8. ASSUME NEW c \in DOMAIN g, NEW d \in DOMAIN g, c < g[c]
      PROVE  ~ (c < d /\ d < g[c])
  <2>1. CASE c = q
    BY <1>1, <1>2, <1>3, <1>6, <1>8, <2>1
  <2>2. CASE c # q
    BY <1>2, <1>6, <1>8, <2>2
  <2>3. QED
    BY <2>1, <2>2
<1>9. ASSUME NEW c \in DOMAIN g, NEW d \in DOMAIN g, g[c] <= c
      PROVE  d <= c /\ g[c] <= d
  <2>1. CASE c = q
    BY <1>1, <1>2, <1>3, <1>6, <1>9, <2>1
  <2>2. CASE c # q
    BY <1>3, <1>6, <1>9, <2>2
  <2>3. QED
    BY <2>1, <2>2
<1>10. QED
  BY <1>6, <1>7, <1>8, <1>9 DEF Circle

-----------------------------------------------------------------------------
(* Going round a circle. *)

LEMMA CircleFinite ==
  ASSUME NEW f, Circle(f)
  PROVE  IsFiniteSet(DOMAIN f) /\ Cardinality(DOMAIN f) \in Nat
<1>1. PICK t \in DOMAIN f : f[t] <= t
  BY DEF Circle
<1>2. t \in Nat /\ DOMAIN f \in SUBSET Nat /\ \A c \in DOMAIN f : c <= t
  BY <1>1, CircleTurn DEF Circle
<1>3. IsFiniteSet(DOMAIN f)
  BY <1>2, FS_BoundedSetOfNaturals
<1>4. QED
  BY <1>3, FS_CardinalityType

(* The addresses at which the order turns are one. *)
LEMMA CircleOneTurn ==
  ASSUME NEW f, Circle(f)
  PROVE  Cardinality({b \in DOMAIN f : f[b] <= b}) = 1
<1>1. PICK t \in DOMAIN f : f[t] <= t
  BY DEF Circle
<1>2. \A b \in DOMAIN f : f[b] <= b => b = t
  BY <1>1, CircleTurn DEF Circle
<1>3. {b \in DOMAIN f : f[b] <= b} = {t}
  BY <1>1, <1>2
<1>4. QED
  BY <1>3, FS_Singleton

(* A set that no link leads out of is the whole circle.                    *)
LEMMA CircleClosed ==
  ASSUME NEW f, Circle(f), NEW R \in SUBSET (DOMAIN f), R # {},
         \A c \in R : f[c] \in R
  PROVE  R = DOMAIN f
<1>1. DOMAIN f \subseteq Nat /\ f \in [DOMAIN f -> DOMAIN f]
  BY DEF Circle
<1>2. PICK t \in DOMAIN f : f[t] <= t
  BY DEF Circle
<1>3. \A c \in DOMAIN f : c <= t /\ f[t] <= c
  BY <1>2, CircleTurn
<1>4. t \in R
  <2>1. SUFFICES ASSUME t \notin R PROVE FALSE
    OBVIOUS
  <2>2. \A c \in R : c < f[c]
    <3>1. SUFFICES ASSUME NEW c \in R, f[c] <= c PROVE FALSE
      BY <1>1
    <3>2. t <= c
      BY <3>1, CircleTurn
    <3>3. QED
      BY <1>1, <1>3, <2>1, <3>2
  <2> DEFINE U == {n \in Nat : \E c \in R : c + n = t}
  <2>3. U \in SUBSET Nat /\ U # {}
    <3>1. PICK c \in R : TRUE
      OBVIOUS
    <3>2. t - c \in Nat /\ c + (t - c) = t
      BY <1>1, <1>3
    <3>3. QED
      BY <3>2
  <2>4. PICK n \in U : \A k \in U : n <= k
    BY <2>3, NatMin
  <2>5. PICK c \in R : c + n = t
    BY <2>4
  <2>6. f[c] \in R /\ c < f[c] /\ f[c] <= t
    BY <1>3, <2>2, <2>5
  <2>7. t - f[c] \in Nat /\ f[c] + (t - f[c]) = t /\ t - f[c] < n
    BY <1>1, <2>4, <2>5, <2>6
  <2>8. t - f[c] \in U
    BY <2>6, <2>7
  <2>9. QED
    BY <2>4, <2>7, <2>8
<1>5. SUFFICES ASSUME DOMAIN f \ R # {} PROVE FALSE
  OBVIOUS
<1>6. DOMAIN f \ R \in SUBSET Nat
  BY <1>1
<1>7. PICK c \in DOMAIN f \ R : \A d \in DOMAIN f \ R : c <= d
  BY <1>5, <1>6, NatMin
<1>8. f[t] \in R /\ f[t] < c
  BY <1>1, <1>3, <1>4, <1>7
<1> DEFINE V == {n \in Nat : \E b \in DOMAIN f : b + n = c /\ n # 0}
<1>9. V \in SUBSET Nat /\ V # {}
  <2>1. c - f[t] \in Nat /\ f[t] + (c - f[t]) = c /\ c - f[t] # 0
    BY <1>1, <1>8
  <2>2. QED
    BY <1>1, <1>8, <2>1
<1>10. PICK n \in V : \A k \in V : n <= k
  BY <1>9, NatMin
<1>11. PICK b \in DOMAIN f : b + n = c /\ n # 0
  BY <1>10
<1>12. b < c /\ b \in R /\ f[b] \in R
  BY <1>1, <1>7, <1>11
<1>13. b < f[b]
  <2>1. SUFFICES ASSUME f[b] <= b PROVE FALSE
    BY <1>1, <1>12
  <2>2. c <= b
    BY <1>12, <2>1, CircleTurn
  <2>3. QED
    BY <1>1, <1>12, <2>2
<1>14. f[b] # c /\ ~ (b < c /\ c < f[b])
  BY <1>7, <1>12, <1>13 DEF Circle
<1>15. f[b] < c /\ f[b] \in Nat /\ c \in Nat
  BY <1>1, <1>12, <1>14
<1>16. c - f[b] \in Nat /\ f[b] + (c - f[b]) = c /\ c - f[b] # 0 /\ c - f[b] < n
  BY <1>1, <1>11, <1>12, <1>13, <1>15
<1>17. c - f[b] \in V
  BY <1>12, <1>16
<1>18. QED
  BY <1>10, <1>16, <1>17

(* One turn of the walk meets every address.                               *)
LEMMA CircleWalk ==
  ASSUME NEW f, Circle(f), NEW a \in DOMAIN f
  PROVE  {Walk(f, a)[k] : k \in 1 .. Cardinality(DOMAIN f)} = DOMAIN f
<1> DEFINE D == DOMAIN f
           n == Cardinality(D)
           W == Walk(f, a)
<1>1. f \in [D -> D] /\ IsFiniteSet(D) /\ n \in Nat
  BY CircleFinite DEF Circle
<1>2. W \in [Nat -> D] /\ \A k \in Nat : W[k + 1] = f[W[k]]
  BY <1>1, WalkSteps
<1> HIDE DEF W
<1>3. \A k \in 1 .. n : W[k] \in D
  BY <1>1, <1>2
<1>4. CASE \A i, j \in 1 .. n : W[i] = W[j] => i = j
  <2> DEFINE g == [k \in 1 .. n |-> W[k]]
  <2>1. g \in Injection(1 .. n, D)
    <3>1. g \in [1 .. n -> D]
      BY <1>3
    <3>2. \A i, j \in 1 .. n : g[i] = g[j] => i = j
      BY <1>4
    <3>3. QED
      BY <3>1, <3>2 DEF Injection, IsInjective
  <2>2. IsFiniteSet(1 .. n) /\ Cardinality(1 .. n) = n
    BY <1>1, FS_Interval
  <2>3. g \in Surjection(1 .. n, D)
    BY <1>1, <2>1, <2>2, FS_Injection
  <2>4. \A x \in D : \E k \in 1 .. n : W[k] = x
    BY <2>3 DEF Surjection
  <2>5. QED
    BY <1>3, <2>4 DEF W
<1>5. CASE \E i, j \in 1 .. n : W[i] = W[j] /\ i # j
  <2>1. PICK i \in 1 .. n, j \in 1 .. n : W[i] = W[j] /\ i < j
    BY <1>1, <1>5
  <2> DEFINE R == {W[k] : k \in 1 .. j - 1}
  <2>2. R \in SUBSET D /\ W[i] \in R
    BY <1>1, <1>3, <2>1
  <2>3. \A c \in R : f[c] \in R
    <3>1. TAKE c \in R
    <3>2. PICK k \in 1 .. j - 1 : c = W[k]
      BY <3>1
    <3>3. f[c] = W[k + 1]
      BY <1>2, <3>2
    <3>4. CASE k = j - 1
      BY <1>1, <2>1, <2>2, <3>3, <3>4
    <3>5. CASE k # j - 1
      <4>1. k + 1 \in 1 .. j - 1
        BY <1>1, <3>2, <3>5
      <4>2. QED
        BY <3>3, <4>1
    <3>6. QED
      BY <3>4, <3>5
  <2> HIDE DEF R
  <2>4. R = D
    BY <2>2, <2>3, CircleClosed
  <2>5. \A x \in D : \E k \in 1 .. n : W[k] = x
    <3>1. \A k \in 1 .. j - 1 : k \in 1 .. n
      BY <1>1, <2>1
    <3>2. QED
      BY <2>4, <3>1 DEF R
  <2>6. QED
    BY <1>3, <2>5 DEF W
<1>6. QED
  BY <1>4, <1>5

LEMMA LinkIsWalk ==
  ASSUME NEW m
  PROVE  Link(m) = Walk(m.ptr, m.freep)
BY DEF Link, Walk

LEMMA LinkSteps ==
  ASSUME NEW m, Circle(m.ptr), m.freep \in DOMAIN m.ptr
  PROVE  /\ Link(m) \in [Nat -> DOMAIN m.ptr] /\ Link(m)[0] = m.freep
         /\ \A k \in Nat : Link(m)[k + 1] = m.ptr[Link(m)[k]]
<1>1. m.ptr \in [DOMAIN m.ptr -> DOMAIN m.ptr]
  BY DEF Circle
<1>2. PICK f, a : f = m.ptr /\ a = m.freep
  OBVIOUS
<1>3. Link(m) = Walk(f, a)
  BY <1>2, LinkIsWalk
<1>4. /\ Walk(f, a) \in [Nat -> DOMAIN f] /\ Walk(f, a)[0] = a
      /\ \A k \in Nat : Walk(f, a)[k + 1] = f[Walk(f, a)[k]]
  <2>1. f \in [DOMAIN f -> DOMAIN f] /\ a \in DOMAIN f
    BY <1>1, <1>2
  <2>2. QED
    BY <2>1, WalkSteps
<1>5. QED
  BY <1>2, <1>3, <1>4

(* heap_alloc finds room wherever there is some.                           *)
LEMMA NoneFitting ==
  ASSUME NEW m, Circle(m.ptr), m.freep \in DOMAIN m.ptr,
         m.size \in [DOMAIN m.size -> Nat], DOMAIN m.ptr \subseteq DOMAIN m.size,
         NEW n \in Nat, Fitting(m, n) = {}
  PROVE  \A b \in DOMAIN m.ptr : m.size[b] < n
<1> DEFINE D == DOMAIN m.ptr
           c == Cardinality(D)
           W == Link(m)
<1>1. c \in Nat /\ {W[k] : k \in 1 .. c} = D
  <2>1. {Walk(m.ptr, m.freep)[k] : k \in 1 .. c} = D
    BY CircleWalk
  <2>2. W = Walk(m.ptr, m.freep)
    BY LinkIsWalk
  <2>3. QED
    BY <2>1, <2>2, CircleFinite
<1>2. W \in [Nat -> D] /\ W[0] = m.freep /\ \A k \in Nat : W[k + 1] = m.ptr[W[k]]
  BY LinkSteps
<1>3. \A k \in Nat : m.size[W[k]] \in Nat
  BY <1>2
<1> HIDE DEF W, c
<1>4. SUFFICES ASSUME NEW b \in D, ~ (m.size[b] < n) PROVE FALSE
  OBVIOUS
<1> DEFINE A == {k \in 1 .. c : m.size[W[k]] >= n}
<1>5. A \in SUBSET Nat /\ A # {}
  <2>1. PICK k \in 1 .. c : W[k] = b
    BY <1>1, <1>4
  <2>2. m.size[b] >= n
    BY <1>1, <1>3, <1>4, <2>1
  <2>3. QED
    BY <1>1, <2>1, <2>2
<1>6. PICK k \in A : \A j \in A : k <= j
  BY <1>5, NatMin
<1>7. k \in 1 .. c /\ k \in Nat /\ m.size[W[k]] >= n
  BY <1>1, <1>6
<1>8. \A j \in 1 .. k - 1 : m.size[W[j]] < n
  BY <1>1, <1>3, <1>6, <1>7
<1>9. k \notin Fitting(m, n)
  OBVIOUS
<1>10. PICK j \in 1 .. k - 1 : W[j] = m.freep
  BY <1>7, <1>8, <1>9 DEF Fitting, W, c
<1>11. j \in Nat /\ k - j \in Nat
  BY <1>7, <1>10
<1>12. \A i \in Nat : W[j + i] = W[i]
  <2> DEFINE I == {i \in Nat : W[j + i] = W[i]}
  <2>1. 0 \in I
    BY <1>2, <1>10, <1>11
  <2>2. \A i \in I : i + 1 \in I
    <3>1. TAKE i \in I
    <3>2. W[(j + i) + 1] = m.ptr[W[j + i]] /\ W[i + 1] = m.ptr[W[i]]
      BY <1>2, <1>11
    <3>3. (j + i) + 1 = j + (i + 1)
      BY <1>11
    <3>4. QED
      BY <3>2, <3>3
  <2>3. I \in SUBSET Nat
    OBVIOUS
  <2> HIDE DEF I
  <2>4. I = Nat
    BY <2>1, <2>2, <2>3, NatInd
  <2>5. QED
    BY <2>4 DEF I
<1>13. W[j + (k - j)] = W[k - j] /\ j + (k - j) = k
  BY <1>11, <1>12
<1>14. k - j \in 1 .. k - 1
  BY <1>7, <1>10
<1>15. m.size[W[k - j]] < n
  BY <1>8, <1>14
<1>16. QED
  BY <1>3, <1>7, <1>11, <1>13, <1>15

(* What it finds is a block, and the one before it in the list.            *)
LEMMA FittingBlock ==
  ASSUME NEW m, Circle(m.ptr), m.freep \in DOMAIN m.ptr,
         NEW n, NEW k \in Fitting(m, n)
  PROVE  /\ Link(m)[k - 1] \in DOMAIN m.ptr /\ Link(m)[k] \in DOMAIN m.ptr
         /\ Link(m)[k] = m.ptr[Link(m)[k - 1]]
         /\ m.size[Link(m)[k]] >= n
<1>1. Cardinality(DOMAIN m.ptr) \in Nat
  BY CircleFinite
<1>2. k \in Nat /\ k - 1 \in Nat /\ (k - 1) + 1 = k /\ m.size[Link(m)[k]] >= n
  BY <1>1 DEF Fitting
<1>3. /\ Link(m) \in [Nat -> DOMAIN m.ptr]
      /\ \A j \in Nat : Link(m)[j + 1] = m.ptr[Link(m)[j]]
  BY LinkSteps
<1>4. QED
  BY <1>2, <1>3

-----------------------------------------------------------------------------
(* heap_free, one change at a time: the block is put in its place, eats    *)
(* the one after it, and is eaten by the one before it.                    *)

(* Two pages have no unit in common.                                       *)
LEMMA PagesApart ==
  ASSUME NEW a \in PageAddrs, NEW b \in PageAddrs, a # b
  PROVE  a \in Nat /\ b \in Nat /\ (a + PageUnits <= b \/ b + PageUnits <= a)
<1>1. a \in Nat /\ b \in Nat /\ PageUnits \in Nat /\ PageUnits >= 2
  BY UnitAssumption, SizeAssumption
<1>2. Extent(a, PageUnits) \cap Extent(b, PageUnits) = {}
  BY UnitAssumption
<1>3. CASE a <= b /\ b < a + PageUnits
  <2>1. b \in Extent(a, PageUnits) /\ b \in Extent(b, PageUnits)
    BY <1>1, <1>3 DEF Extent
  <2>2. QED
    BY <1>2, <2>1
<1>4. CASE b <= a /\ a < b + PageUnits
  <2>1. a \in Extent(a, PageUnits) /\ a \in Extent(b, PageUnits)
    BY <1>1, <1>4 DEF Extent
  <2>2. QED
    BY <1>2, <2>1
<1>5. QED
  BY <1>1, <1>3, <1>4

LEMMA BaseApart ==
  ASSUME NEW a \in PageAddrs, NEW b \in BaseAddrs
  PROVE  a \in Nat /\ b \in Nat /\ (b < a \/ a + PageUnits <= b)
<1>1. a \in Nat /\ b \in Nat /\ PageUnits \in Nat /\ PageUnits >= 2
  BY UnitAssumption, SizeAssumption
<1>2. b \notin Extent(a, PageUnits)
  BY UnitAssumption
<1>3. QED
  BY <1>1, <1>2 DEF Extent

LEMMA EnlistIs ==
  ASSUME NEW m, m = [ptr |-> m.ptr, size |-> m.size, freep |-> m.freep],
         NEW q \in DOMAIN m.ptr, NEW b, b \notin DOMAIN m.ptr
  PROVE  LET e == Enlist(m, q, b) IN
         /\ e = [ptr |-> e.ptr, size |-> e.size, freep |-> e.freep]
         /\ e.size = m.size /\ e.freep = q
         /\ DOMAIN e.ptr = DOMAIN m.ptr \cup {b}
         /\ e.ptr = [c \in DOMAIN e.ptr |-> IF c = q THEN b ELSE IF c = b THEN m.ptr[q] ELSE m.ptr[c]]
<1> DEFINE e == Enlist(m, q, b)
           g == Put(Put(m.ptr, b, m.ptr[q]), q, b)
<1>1. e = [ptr |-> g, size |-> m.size, freep |-> q]
  BY DEF Enlist
<1>2. DOMAIN g = DOMAIN m.ptr \cup {b}
  BY DEF Put
<1>3. g = [c \in DOMAIN g |-> IF c = q THEN b ELSE IF c = b THEN m.ptr[q] ELSE m.ptr[c]]
  BY DEF Put
<1> HIDE DEF g, e
<1>4. QED
  BY <1>1, <1>2, <1>3 DEF e

LEMMA MeltIs ==
  ASSUME NEW m, m = [ptr |-> m.ptr, size |-> m.size, freep |-> m.freep],
         NEW x \in DOMAIN m.ptr
  PROVE  LET e == Melt(m, x)
             y == m.ptr[x] IN
         /\ e = [ptr |-> e.ptr, size |-> e.size, freep |-> e.freep]
         /\ e.freep = m.freep
         /\ DOMAIN e.ptr = DOMAIN m.ptr \ {y}
         /\ e.ptr = [c \in DOMAIN e.ptr |-> IF c = x THEN m.ptr[y] ELSE m.ptr[c]]
         /\ e.size = [c \in DOMAIN m.size \ {y} |-> IF c = x THEN m.size[x] + m.size[y] ELSE m.size[c]]
<1> DEFINE e == Melt(m, x)
           y == m.ptr[x]
           g == [c \in DOMAIN m.ptr \ {y} |-> IF c = x THEN m.ptr[y] ELSE m.ptr[c]]
           h == [c \in DOMAIN m.size \ {y} |-> IF c = x THEN m.size[x] + m.size[y] ELSE m.size[c]]
<1>1. e = [ptr |-> g, size |-> h, freep |-> m.freep]
  BY DEF Melt, Unlink
<1>2. g = [c \in DOMAIN g |-> IF c = x THEN m.ptr[y] ELSE m.ptr[c]] /\ DOMAIN g = DOMAIN m.ptr \ {y}
  OBVIOUS
<1> HIDE DEF g, e, y
<1>3. QED
  BY <1>1, <1>2 DEF e, y

(* The facts of MemTiles, for use one by one.                              *)
LEMMA TilesFacts ==
  ASSUME NEW m, NEW pgs, NEW os, MemTiles(m, pgs, os)
  PROVE  /\ m = [ptr |-> m.ptr, size |-> m.size, freep |-> m.freep]
         /\ Circle(m.ptr) /\ m.freep \in DOMAIN m.ptr
         /\ m.ptr \in [DOMAIN m.ptr -> DOMAIN m.ptr] /\ DOMAIN m.ptr \subseteq Nat
         /\ DOMAIN m.size = DOMAIN m.ptr \cup os
         /\ \A c \in DOMAIN m.ptr : m.size[c] \in Nat
         /\ \A o \in os : o \in Nat /\ m.size[o] \in Nat /\ m.size[o] > 0
         /\ os \cap DOMAIN m.ptr = {}
         /\ base \in DOMAIN m.ptr /\ m.size[base] = 0
         /\ \A b \in Blocks(m, os) : b \in Nat /\ m.size[b] \in Nat /\ m.size[b] > 0 /\ End(m, b) \in Nat /\ b < End(m, b)
<1>1. MemType(m, os)
  BY DEF MemTiles
<1>2. /\ m = [ptr |-> m.ptr, size |-> m.size, freep |-> m.freep]
      /\ Circle(m.ptr) /\ m.freep \in DOMAIN m.ptr
      /\ m.ptr \in [DOMAIN m.ptr -> DOMAIN m.ptr] /\ DOMAIN m.ptr \subseteq Nat
  BY <1>1 DEF MemType, Circle
<1>3. m.size \in [DOMAIN m.ptr \cup os -> Nat] /\ os \subseteq Nat
      /\ os \cap DOMAIN m.ptr = {} /\ \A o \in os : m.size[o] > 0
  BY <1>1 DEF MemType
<1>4. DOMAIN m.size = DOMAIN m.ptr \cup os
  BY <1>3
<1>5. \A c \in DOMAIN m.ptr : m.size[c] \in Nat
  BY <1>3
<1>6. \A o \in os : o \in Nat /\ m.size[o] \in Nat /\ m.size[o] > 0
  BY <1>3
<1>7. base \in DOMAIN m.ptr /\ m.size[base] = 0
  BY DEF MemTiles
<1>8. ASSUME NEW b \in Blocks(m, os)
      PROVE  b \in Nat /\ m.size[b] \in Nat /\ m.size[b] > 0 /\ End(m, b) \in Nat /\ b < End(m, b)
  <2>1. b \in Nat /\ m.size[b] \in Nat /\ m.size[b] > 0
    BY <1>2, <1>5, <1>6, <1>8 DEF Blocks, Free
  <2>2. QED
    BY <2>1 DEF End
<1>9. QED
  BY <1>2, <1>3, <1>4, <1>5, <1>6, <1>7, <1>8

(* The list has at least two headers as soon as there is a free block:     *)
(* none is linked to itself.                                               *)
LEMMA NoSelfLink ==
  ASSUME NEW m, NEW pgs, NEW os, MemTiles(m, pgs, os), NEW x \in Free(m), NEW c \in DOMAIN m.ptr
  PROVE  m.ptr[c] # c
<1>1. SUFFICES ASSUME m.ptr[c] = c PROVE FALSE
  OBVIOUS
<1>2. Circle(m.ptr) /\ base \in DOMAIN m.ptr /\ m.size[base] = 0 /\ DOMAIN m.ptr \subseteq Nat
  BY TilesFacts
<1>3. c \in Nat /\ base \in Nat /\ x \in Nat /\ x \in DOMAIN m.ptr /\ m.size[x] > 0
  BY <1>2 DEF Free
<1>4. m.ptr[c] <= c
  BY <1>1, <1>3
<1>5. \A d \in DOMAIN m.ptr : d <= c /\ m.ptr[c] <= d
  BY <1>2, <1>4, CircleTurn
<1>6. base = c /\ x = c
  BY <1>1, <1>2, <1>3, <1>5
<1>7. QED
  BY <1>2, <1>3, <1>6

(* Two blocks that meet are in one page: between the pages are headers     *)
(* that are in no block.                                                   *)
LEMMA MeetInPage ==
  ASSUME NEW m, NEW pgs, NEW os, MemTiles(m, pgs, os),
         NEW x \in Blocks(m, os), NEW y \in Blocks(m, os), End(m, x) = y
  PROVE  \E a \in pgs : x > a /\ End(m, y) <= a + PageUnits
<1>1. PICK a \in pgs : x > a /\ End(m, x) <= a + PageUnits
  BY DEF MemTiles
<1>2. PICK b \in pgs : y > b /\ End(m, y) <= b + PageUnits
  BY DEF MemTiles
<1>3. a \in PageAddrs /\ b \in PageAddrs
  BY DEF MemTiles
<1>4. a \in Nat /\ b \in Nat /\ PageUnits \in Nat
  BY <1>3, UnitAssumption, SizeAssumption
<1>5. x \in Nat /\ y \in Nat /\ End(m, y) \in Nat /\ x < y /\ y < End(m, y)
  BY TilesFacts
<1>6. CASE a # b
  <2>1. a + PageUnits <= b \/ b + PageUnits <= a
    BY <1>3, <1>6, PagesApart
  <2>2. QED
    BY <1>1, <1>2, <1>4, <1>5, <2>1
<1>7. QED
  BY <1>1, <1>2, <1>6

(* x eats y, the block right behind it: the pages stay filled, and the     *)
(* place where they met is no seam any more.                               *)
LEMMA MeltKept ==
  ASSUME NEW m, NEW pgs, NEW os, MemTiles(m, pgs, os), NEW x \in Seams(m),
         m.ptr[x] # m.freep
  PROVE  LET e == Melt(m, x)
             y == m.ptr[x] IN
         /\ MemTiles(e, pgs, os)
         /\ \A o \in os : e.size[o] = m.size[o]
         /\ Seams(e) \subseteq (Seams(m) \ {x, y}) \cup (IF y \in Seams(m) THEN {x} ELSE {})
         /\ e.freep = m.freep
         /\ \A c \in DOMAIN m.ptr : c # x /\ c # y =>
              c \in DOMAIN e.ptr /\ e.ptr[c] = m.ptr[c] /\ e.size[c] = m.size[c]
         /\ x \in Free(e)
<1> DEFINE y == m.ptr[x]
<1>0. /\ m = [ptr |-> m.ptr, size |-> m.size, freep |-> m.freep]
      /\ Circle(m.ptr) /\ m.freep \in DOMAIN m.ptr
      /\ m.ptr \in [DOMAIN m.ptr -> DOMAIN m.ptr] /\ DOMAIN m.ptr \subseteq Nat
      /\ DOMAIN m.size = DOMAIN m.ptr \cup os
      /\ \A c \in DOMAIN m.ptr : m.size[c] \in Nat
      /\ \A o \in os : o \in Nat /\ m.size[o] \in Nat /\ m.size[o] > 0
      /\ os \cap DOMAIN m.ptr = {}
      /\ base \in DOMAIN m.ptr /\ m.size[base] = 0
      /\ \A b \in Blocks(m, os) : b \in Nat /\ m.size[b] \in Nat /\ m.size[b] > 0 /\ End(m, b) \in Nat /\ b < End(m, b)
  BY TilesFacts
<1>1. x \in Free(m) /\ y \in Free(m) /\ End(m, x) = y
  BY DEF Seams
<1>2. x \in DOMAIN m.ptr /\ y \in DOMAIN m.ptr /\ x \in Blocks(m, os) /\ y \in Blocks(m, os)
  BY <1>1 DEF Free, Blocks
<1>3. x < y /\ x \in Nat /\ y \in Nat /\ m.size[x] \in Nat /\ m.size[y] \in Nat /\ m.size[x] > 0 /\ m.size[y] > 0
      /\ x # y /\ End(m, y) \in Nat /\ y < End(m, y)
  BY <1>0, <1>1, <1>2
<1>4. PICK e : e = Melt(m, x)
  OBVIOUS
<1>5. /\ e = [ptr |-> e.ptr, size |-> e.size, freep |-> e.freep]
      /\ e.freep = m.freep
      /\ DOMAIN e.ptr = DOMAIN m.ptr \ {y}
      /\ e.ptr = [c \in DOMAIN e.ptr |-> IF c = x THEN m.ptr[y] ELSE m.ptr[c]]
      /\ e.size = [c \in DOMAIN m.size \ {y} |-> IF c = x THEN m.size[x] + m.size[y] ELSE m.size[c]]
  BY <1>0, <1>2, <1>4, MeltIs
<1>6. Circle(e.ptr)
  <2>1. PICK f, g : f = m.ptr /\ g = e.ptr
    OBVIOUS
  <2>2. Circle(f) /\ x \in DOMAIN f /\ y \in DOMAIN f /\ f[x] = y /\ x # y
    BY <1>0, <1>2, <1>3, <2>1
  <2>3. DOMAIN g = DOMAIN f \ {y}
    BY <1>5, <2>1
  <2>4. g = [c \in DOMAIN g |-> IF c = x THEN f[y] ELSE f[c]]
    BY <1>5, <2>1
  <2> HIDE DEF y
  <2>5. Circle(g)
    BY <2>2, <2>3, <2>4, CircleRemove
  <2>6. QED
    BY <2>1, <2>5
<1>7. /\ \A c \in DOMAIN m.ptr : c # y => c \in DOMAIN e.ptr
      /\ \A c \in DOMAIN m.ptr : c # y /\ c # x => e.ptr[c] = m.ptr[c] /\ e.size[c] = m.size[c]
      /\ e.ptr[x] = m.ptr[y] /\ e.size[x] = m.size[x] + m.size[y] /\ x \in DOMAIN e.ptr
  BY <1>0, <1>2, <1>3, <1>5
<1>8. \A o \in os : e.size[o] = m.size[o] /\ o \notin DOMAIN m.ptr
  BY <1>0, <1>2, <1>5
<1>9. e.size \in [DOMAIN e.ptr \cup os -> Nat]
  <2>1. DOMAIN e.size = DOMAIN e.ptr \cup os
    BY <1>0, <1>2, <1>5, <1>8
  <2>2. \A c \in DOMAIN e.ptr \cup os : e.size[c] \in Nat
    BY <1>0, <1>3, <1>5, <1>7, <1>8
  <2>3. QED
    BY <1>5, <2>1, <2>2
<1>10. MemType(e, os)
  <2>1. os \subseteq Nat /\ os \cap DOMAIN e.ptr = {}
    BY <1>0, <1>5
  <2>2. \A o \in os : e.size[o] > 0
    BY <1>0, <1>8
  <2>3. e.freep \in DOMAIN e.ptr
    BY <1>0, <1>5
  <2>4. QED
    BY <1>5, <1>6, <1>9, <2>1, <2>2, <2>3 DEF MemType
<1>11. Free(e) = Free(m) \ {y}
  <2>1. \A c : c \in Free(e) => c \in Free(m) \ {y}
    BY <1>1, <1>5, <1>7 DEF Free
  <2>2. ASSUME NEW c \in Free(m), c # y PROVE c \in Free(e)
    <3>1. c \in DOMAIN m.ptr /\ m.size[c] > 0
      BY <2>2 DEF Free
    <3>2. c \in DOMAIN e.ptr /\ e.size[c] > 0
      <4>1. CASE c = x
        BY <1>3, <1>7, <4>1
      <4>2. CASE c # x
        BY <1>7, <2>2, <3>1, <4>2
      <4>3. QED
        BY <4>1, <4>2
    <3>3. QED
      BY <3>2 DEF Free
  <2>3. QED
    BY <2>1, <2>2
<1>12. Blocks(e, os) = Blocks(m, os) \ {y}
  BY <1>2, <1>8, <1>11 DEF Blocks
<1>13. End(e, x) = End(m, y) /\ \A c \in Blocks(e, os) : c # x => End(e, c) = End(m, c)
  <2>1. End(e, x) = End(m, y)
    <3>1. m.size[x] + x = y
      BY <1>1, <1>3 DEF End
    <3>2. QED
      BY <1>3, <1>7, <3>1 DEF End
  <2>2. ASSUME NEW c \in Blocks(e, os), c # x
        PROVE  End(e, c) = End(m, c)
    <3>1. c \in Blocks(m, os) /\ c # y
      BY <1>12, <2>2
    <3>2. e.size[c] = m.size[c]
      BY <1>7, <1>8, <2>2, <3>1 DEF Blocks, Free
    <3>3. QED
      BY <3>2 DEF End
  <2>3. QED
    BY <2>1, <2>2
<1>14. {c \in DOMAIN e.ptr : e.size[c] = 0} = pgs \cup {base}
  <2>1. {c \in DOMAIN m.ptr : m.size[c] = 0} = pgs \cup {base}
    BY DEF MemTiles
  <2>2. ASSUME NEW c \in DOMAIN e.ptr, e.size[c] = 0 PROVE m.size[c] = 0 /\ c \in DOMAIN m.ptr
    <3>1. c \in DOMAIN m.ptr /\ c # y
      BY <1>5, <2>2
    <3>2. c # x
      BY <1>3, <1>7, <2>2
    <3>3. QED
      BY <1>7, <2>2, <3>1, <3>2
  <2>3. ASSUME NEW c \in DOMAIN m.ptr, m.size[c] = 0 PROVE e.size[c] = 0 /\ c \in DOMAIN e.ptr
    <3>1. c # x /\ c # y
      BY <1>3, <2>3
    <3>2. QED
      BY <1>7, <2>3, <3>1
  <2>4. {c \in DOMAIN e.ptr : e.size[c] = 0} = {c \in DOMAIN m.ptr : m.size[c] = 0}
    BY <2>2, <2>3
  <2>5. QED
    BY <2>1, <2>4
<1>15. ASSUME NEW c \in Blocks(e, os), NEW d \in Blocks(e, os), c < d
       PROVE  End(e, c) <= d
  <2>1. c \in Blocks(m, os) /\ d \in Blocks(m, os) /\ d # y /\ d \in Nat
    BY <1>0, <1>12
  <2>2. \A b1, b2 \in Blocks(m, os) : b1 < b2 => End(m, b1) <= b2
    BY DEF MemTiles
  <2>3. CASE c = x
    <3>1. y <= d
      BY <1>1, <1>2, <1>15, <2>1, <2>2, <2>3
    <3>2. y < d
      BY <1>3, <2>1, <3>1
    <3>3. End(m, y) <= d
      BY <1>2, <2>1, <2>2, <3>2
    <3>4. QED
      BY <1>13, <2>3, <3>3
  <2>4. CASE c # x
    BY <1>13, <1>15, <2>1, <2>2, <2>4
  <2>5. QED
    BY <2>3, <2>4
<1>16. ASSUME NEW c \in Blocks(e, os)
       PROVE  \E a \in pgs : c > a /\ End(e, c) <= a + PageUnits
  <2>1. CASE c = x
    <3>1. \E a \in pgs : x > a /\ End(m, y) <= a + PageUnits
      BY <1>1, <1>2, MeetInPage
    <3>2. QED
      BY <1>13, <2>1, <3>1
  <2>2. CASE c # x
    <3>1. \E a \in pgs : c > a /\ End(m, c) <= a + PageUnits
      BY <1>12 DEF MemTiles
    <3>2. QED
      BY <1>13, <1>16, <2>2, <3>1
  <2>3. QED
    BY <2>1, <2>2
<1>17. ASSUME NEW a \in pgs, NEW u \in Units(a)
       PROVE  \E c \in Blocks(e, os) : c <= u /\ u < End(e, c)
  <2>1. PICK c \in Blocks(m, os) : c <= u /\ u < End(m, c)
    BY DEF MemTiles
  <2>2. a \in Nat
    BY UnitAssumption DEF MemTiles
  <2>3. u \in Nat
    <3>1. u \in Int /\ u >= a + 1
      BY SizeAssumption, <2>2 DEF Units, Extent
    <3>2. QED
      BY <2>2, <3>1
  <2>4. c \in Nat /\ x \in Blocks(e, os)
    BY <1>0, <1>2, <1>3, <1>12, <2>1
  <2>5. CASE c = y \/ c = x
    <3>1. x <= u /\ u < End(m, y)
      <4>1. CASE c = y
        BY <1>3, <2>1, <2>3, <4>1
      <4>2. CASE c = x
        BY <1>1, <1>3, <2>1, <2>3, <4>2
      <4>3. QED
        BY <2>5, <4>1, <4>2
    <3>2. QED
      BY <1>13, <2>4, <3>1
  <2>6. CASE c # y /\ c # x
    <3>1. c \in Blocks(e, os) /\ End(e, c) = End(m, c)
      BY <1>12, <1>13, <2>1, <2>6
    <3>2. QED
      BY <2>1, <3>1
  <2>7. QED
    BY <2>5, <2>6
<1>18. MemTiles(e, pgs, os)
  <2>1. base \in BaseAddrs /\ pgs \subseteq PageAddrs
    BY DEF MemTiles
  <2>2. QED
    BY <1>10, <1>14, <1>15, <1>16, <1>17, <2>1 DEF MemTiles
<1>19. ASSUME NEW z \in Seams(e)
       PROVE  z \in (Seams(m) \ {x, y}) \cup (IF y \in Seams(m) THEN {x} ELSE {})
  <2>1. z \in Free(e) /\ e.ptr[z] \in Free(e) /\ End(e, z) = e.ptr[z]
    BY <1>19 DEF Seams
  <2>2. z \in Free(m) /\ z # y /\ e.ptr[z] \in Free(m) /\ z \in DOMAIN m.ptr
    BY <1>11, <2>1 DEF Free
  <2>3. CASE z = x
    <3>1. m.ptr[y] \in Free(m) /\ End(m, y) = m.ptr[y]
      BY <1>7, <1>13, <2>1, <2>2, <2>3
    <3>2. y \in Seams(m)
      BY <1>1, <3>1 DEF Seams
    <3>3. QED
      BY <2>3, <3>2
  <2>4. CASE z # x
    <3>1. e.ptr[z] = m.ptr[z] /\ e.size[z] = m.size[z]
      BY <1>7, <2>2, <2>4
    <3>2. End(m, z) = m.ptr[z]
      BY <2>1, <3>1 DEF End
    <3>3. z \in Seams(m)
      BY <2>2, <3>1, <3>2 DEF Seams
    <3>4. QED
      BY <2>2, <2>4, <3>3
  <2>5. QED
    BY <2>3, <2>4
<1>20. x \in Free(e)
  BY <1>1, <1>3, <1>11
<1>21. QED
  BY <1>4, <1>5, <1>7, <1>8, <1>18, <1>19, <1>20

-----------------------------------------------------------------------------
(* heap_free puts the block where the list stays ordered.                  *)
LEMMA PlaceFollows ==
  ASSUME NEW m, Circle(m.ptr), NEW b \in Nat, b \notin DOMAIN m.ptr
  PROVE  Place(m, b) \in DOMAIN m.ptr /\ Follows(m, b, Place(m, b))
<1>1. PICK f : f = m.ptr
  OBVIOUS
<1>2. \E q \in DOMAIN f : \/ q < b /\ b < f[q]
                          \/ q >= f[q] /\ (b > q \/ b < f[q])
  BY <1>1, PlaceExists
<1>3. \E q \in DOMAIN m.ptr : Follows(m, b, q)
  BY <1>1, <1>2 DEF Follows
<1>4. QED
  BY <1>3 DEF Place

(* A block of os is put on the list: it may meet the block before and the  *)
(* one after it.                                                           *)
LEMMA EnlistKept ==
  ASSUME NEW m, NEW pgs, NEW os, MemInv(m, pgs, os), NEW b \in os
  PROVE  LET q == Place(m, b)
             e == Enlist(m, q, b) IN
         /\ MemTiles(e, pgs, os \ {b})
         /\ Seams(e) \subseteq {b, q}
         /\ e.size = m.size /\ e.freep = q
         /\ q \in DOMAIN m.ptr /\ q # b /\ DOMAIN e.ptr = DOMAIN m.ptr \cup {b}
         /\ e.ptr[q] = b /\ e.ptr[b] = m.ptr[q]
         /\ Free(e) = Free(m) \cup {b}
<1>0. MemTiles(m, pgs, os) /\ Seams(m) = {}
  BY DEF MemInv
<1>1. /\ m = [ptr |-> m.ptr, size |-> m.size, freep |-> m.freep]
      /\ Circle(m.ptr)
      /\ m.ptr \in [DOMAIN m.ptr -> DOMAIN m.ptr] /\ DOMAIN m.ptr \subseteq Nat
      /\ b \in Nat /\ m.size[b] \in Nat /\ m.size[b] > 0 /\ b \notin DOMAIN m.ptr
  BY <1>0, TilesFacts
<1>2. PICK q : q = Place(m, b)
  OBVIOUS
<1>3. q \in DOMAIN m.ptr /\ Follows(m, b, q) /\ q # b
  BY <1>1, <1>2, PlaceFollows
<1>4. PICK e : e = Enlist(m, q, b)
  OBVIOUS
<1>5. /\ e = [ptr |-> e.ptr, size |-> e.size, freep |-> e.freep]
      /\ e.size = m.size /\ e.freep = q
      /\ DOMAIN e.ptr = DOMAIN m.ptr \cup {b}
      /\ e.ptr = [c \in DOMAIN e.ptr |-> IF c = q THEN b ELSE IF c = b THEN m.ptr[q] ELSE m.ptr[c]]
  BY <1>1, <1>3, <1>4, EnlistIs
<1>6. Circle(e.ptr)
  <2>1. PICK f, g : f = m.ptr /\ g = e.ptr
    OBVIOUS
  <2>2. Circle(f) /\ b \notin DOMAIN f /\ q \in DOMAIN f
    BY <1>1, <1>3, <2>1
  <2>3. \/ q < b /\ b < f[q]
        \/ q >= f[q] /\ (b > q \/ b < f[q])
    BY <1>3, <2>1 DEF Follows
  <2>4. DOMAIN g = DOMAIN f \cup {b}
    BY <1>5, <2>1
  <2>5. g = [c \in DOMAIN g |-> IF c = q THEN b ELSE IF c = b THEN f[q] ELSE f[c]]
    BY <1>5, <2>1
  <2>6. Circle(g)
    BY <1>1, <2>2, <2>3, <2>4, <2>5, CircleInsert
  <2>7. QED
    BY <2>1, <2>6
<1>7. /\ e.ptr[q] = b /\ e.ptr[b] = m.ptr[q]
      /\ \A c \in DOMAIN m.ptr : c # q => e.ptr[c] = m.ptr[c]
  BY <1>1, <1>3, <1>5
<1>8. MemType(e, os \ {b})
  <2>1. e.freep \in DOMAIN e.ptr
    BY <1>3, <1>5
  <2>2. m.size \in [DOMAIN m.ptr \cup os -> Nat] /\ os \subseteq Nat /\ os \cap DOMAIN m.ptr = {}
        /\ \A o \in os : m.size[o] > 0
    BY <1>0 DEF MemTiles, MemType
  <2>3. DOMAIN e.ptr \cup (os \ {b}) = DOMAIN m.ptr \cup os
    BY <1>5
  <2>4. e.size \in [DOMAIN e.ptr \cup (os \ {b}) -> Nat]
    BY <1>5, <2>2, <2>3
  <2>5. os \ {b} \subseteq Nat /\ (os \ {b}) \cap DOMAIN e.ptr = {} /\ \A o \in os \ {b} : e.size[o] > 0
    BY <1>5, <2>2
  <2>6. QED
    BY <1>5, <1>6, <2>1, <2>4, <2>5 DEF MemType
<1>9. Free(e) = Free(m) \cup {b}
  BY <1>1, <1>5 DEF Free
<1>10. Blocks(e, os \ {b}) = Blocks(m, os) /\ \A c : End(e, c) = End(m, c)
  BY <1>5, <1>9 DEF Blocks, End
<1>11. {c \in DOMAIN e.ptr : e.size[c] = 0} = pgs \cup {base}
  <2>1. {c \in DOMAIN m.ptr : m.size[c] = 0} = pgs \cup {base}
    BY <1>0 DEF MemTiles
  <2>2. \A c : c \in DOMAIN e.ptr /\ e.size[c] = 0 <=> c \in DOMAIN m.ptr /\ m.size[c] = 0
    BY <1>1, <1>5
  <2>3. QED
    BY <2>1, <2>2
<1>12. MemTiles(e, pgs, os \ {b})
  BY <1>0, <1>8, <1>10, <1>11 DEF MemTiles
<1>13. ASSUME NEW z \in Seams(e)
       PROVE  z \in {b, q}
  <2>1. SUFFICES ASSUME z # b, z # q PROVE FALSE
    OBVIOUS
  <2>2. z \in Free(e) /\ e.ptr[z] \in Free(e) /\ End(e, z) = e.ptr[z]
    BY <1>13 DEF Seams
  <2>3. z \in Free(m) /\ z \in DOMAIN m.ptr
    BY <1>9, <2>1, <2>2 DEF Free
  <2>4. e.ptr[z] = m.ptr[z] /\ m.ptr[z] # b
    BY <1>1, <1>7, <2>1, <2>3
  <2>5. z \in Seams(m)
    BY <1>9, <1>10, <2>2, <2>3, <2>4 DEF Seams
  <2>6. QED
    BY <1>0, <2>5
<1>14. QED
  BY <1>2, <1>3, <1>4, <1>5, <1>7, <1>9, <1>12, <1>13

(* heap_free: the block is free, joined to its neighbours where it meets   *)
(* them; the other objects are not touched.                                *)
LEMMA FreeKept ==
  ASSUME NEW m, NEW pgs, NEW os, MemInv(m, pgs, os), NEW b \in os
  PROVE  /\ MemInv(heap_free(m, b), pgs, os \ {b})
         /\ \A o \in os \ {b} : heap_free(m, b).size[o] = m.size[o]
<1>1. PICK q : q = Place(m, b)
  OBVIOUS
<1>2. PICK m1 : m1 = Enlist(m, q, b)
  OBVIOUS
<1> DEFINE os1 == os \ {b}
           eats == b + m.size[b] = m.ptr[q] /\ m.size[m.ptr[q]] > 0
           y == m.ptr[q]
<1>3. PICK m2 : m2 = IF eats THEN Melt(m1, b) ELSE m1
  OBVIOUS
<1> DEFINE eaten == q + m.size[q] = b /\ m.size[b] > 0
<1>4. PICK m3 : m3 = IF eaten THEN Melt(m2, q) ELSE m2
  OBVIOUS
<1>5. heap_free(m, b) = m3
  BY <1>1, <1>2, <1>3, <1>4 DEF heap_free
<1>6. /\ MemTiles(m1, pgs, os1)
      /\ Seams(m1) \subseteq {b, q}
      /\ m1.size = m.size /\ m1.freep = q
      /\ q \in DOMAIN m.ptr /\ q # b /\ DOMAIN m1.ptr = DOMAIN m.ptr \cup {b}
      /\ m1.ptr[q] = b /\ m1.ptr[b] = y
      /\ Free(m1) = Free(m) \cup {b}
  BY <1>1, <1>2, EnlistKept
<1>7. MemTiles(m, pgs, os)
  BY DEF MemInv
<1>8. /\ m.ptr \in [DOMAIN m.ptr -> DOMAIN m.ptr] /\ DOMAIN m.ptr \subseteq Nat
      /\ \A c \in DOMAIN m.ptr : m.size[c] \in Nat
      /\ b \in Nat /\ m.size[b] \in Nat /\ m.size[b] > 0 /\ b \notin DOMAIN m.ptr
  BY <1>7, TilesFacts
<1>9. q \in Nat /\ m.size[q] \in Nat /\ y \in DOMAIN m.ptr /\ y \in Nat /\ m.size[y] \in Nat /\ y # b
  BY <1>6, <1>8
<1>10. eats <=> b \in Seams(m1)
  <2>1. End(m1, b) = b + m.size[b]
    BY <1>6 DEF End
  <2>2. y \in Free(m1) <=> m.size[y] > 0
    BY <1>6, <1>9 DEF Free
  <2>3. b \in Free(m1)
    BY <1>6
  <2>4. QED
    BY <1>6, <2>1, <2>2, <2>3 DEF Seams
<1>11. eats => y # q
  <2>1. SUFFICES ASSUME eats PROVE y # q
    OBVIOUS
  <2>2. y \in Free(m)
    BY <1>9, <2>1 DEF Free
  <2>3. QED
    BY <1>6, <1>7, <2>2, NoSelfLink
<1>12. /\ MemTiles(m2, pgs, os1) /\ Seams(m2) \subseteq {q}
       /\ \A o \in os1 : m2.size[o] = m.size[o]
       /\ m2.freep = q /\ q \in DOMAIN m2.ptr
       /\ m2.ptr[q] = b /\ m2.size[q] = m.size[q] /\ b \in Free(m2)
  <2>1. CASE eats
    <3>1. m2 = Melt(m1, b) /\ b \in Seams(m1) /\ m1.ptr[b] # m1.freep
      BY <1>3, <1>6, <1>10, <1>11, <2>1
    <3>2. /\ MemTiles(m2, pgs, os1)
          /\ \A o \in os1 : m2.size[o] = m1.size[o]
          /\ Seams(m2) \subseteq (Seams(m1) \ {b, m1.ptr[b]}) \cup (IF m1.ptr[b] \in Seams(m1) THEN {b} ELSE {})
          /\ m2.freep = m1.freep
          /\ \A c \in DOMAIN m1.ptr : c # b /\ c # m1.ptr[b] =>
               c \in DOMAIN m2.ptr /\ m2.ptr[c] = m1.ptr[c] /\ m2.size[c] = m1.size[c]
          /\ b \in Free(m2)
      BY <1>6, <3>1, MeltKept
    <3>3. y \notin Seams(m1)
      BY <1>6, <1>9, <1>11, <2>1
    <3>4. Seams(m2) \subseteq {q}
      BY <1>6, <3>2, <3>3
    <3>5. q \in DOMAIN m1.ptr /\ q # b /\ q # m1.ptr[b]
      BY <1>6, <1>11, <2>1
    <3>6. q \in DOMAIN m2.ptr /\ m2.ptr[q] = m1.ptr[q] /\ m2.size[q] = m1.size[q]
      BY <3>2, <3>5
    <3>7. QED
      BY <1>6, <3>2, <3>4, <3>6
  <2>2. CASE ~ eats
    <3>1. m2 = m1
      BY <1>3, <2>2
    <3>2. Seams(m1) \subseteq {q}
      BY <1>6, <1>10, <2>2
    <3>3. b \in Free(m1)
      BY <1>6
    <3>4. QED
      BY <1>6, <3>1, <3>2, <3>3
  <2>3. QED
    BY <2>1, <2>2
<1>13. eaten <=> q \in Seams(m2)
  <2>1. End(m2, q) = q + m.size[q]
    BY <1>12 DEF End
  <2>2. q + m.size[q] = b => m.size[q] > 0
    BY <1>6, <1>8, <1>9
  <2>3. q + m.size[q] = b => q \in Free(m2)
    BY <1>12, <2>2 DEF Free
  <2>4. QED
    BY <1>8, <1>12, <2>1, <2>3 DEF Seams
<1>14. /\ MemTiles(m3, pgs, os1) /\ Seams(m3) = {}
       /\ \A o \in os1 : m3.size[o] = m.size[o]
  <2>1. CASE eaten
    <3>1. m3 = Melt(m2, q) /\ q \in Seams(m2) /\ m2.ptr[q] # m2.freep /\ m2.ptr[q] \notin Seams(m2)
      BY <1>4, <1>6, <1>12, <1>13, <2>1
    <3>2. /\ MemTiles(m3, pgs, os1)
          /\ \A o \in os1 : m3.size[o] = m2.size[o]
          /\ Seams(m3) \subseteq (Seams(m2) \ {q, m2.ptr[q]}) \cup (IF m2.ptr[q] \in Seams(m2) THEN {q} ELSE {})
      BY <1>12, <3>1, MeltKept
    <3>3. QED
      BY <1>12, <3>1, <3>2
  <2>2. CASE ~ eaten
    BY <1>4, <1>12, <1>13, <2>2
  <2>3. QED
    BY <2>1, <2>2
<1>15. QED
  BY <1>5, <1>14 DEF MemInv

-----------------------------------------------------------------------------
(* heap_morecore. *)

(* Nothing of the heap is in a page that is not yet its own.               *)
LEMMA NewPage ==
  ASSUME NEW m, NEW pgs, NEW os, MemTiles(m, pgs, os),
         NEW a \in PageAddrs, a \notin pgs, NEW c \in DOMAIN m.ptr \cup os
  PROVE  c < a \/ a + PageUnits <= c
<1>1. pgs \subseteq PageAddrs /\ base \in BaseAddrs /\ a \in Nat /\ PageUnits \in Nat
  BY UnitAssumption, SizeAssumption DEF MemTiles
<1>2. DOMAIN m.ptr \subseteq Nat /\ \A d \in DOMAIN m.ptr : m.size[d] \in Nat
  BY TilesFacts
<1>3. CASE c \in Blocks(m, os)
  <2>1. PICK b \in pgs : c > b /\ End(m, c) <= b + PageUnits
    BY <1>3 DEF MemTiles
  <2>2. b \in PageAddrs /\ b # a
    BY <1>1, <2>1
  <2>3. b \in Nat /\ (a + PageUnits <= b \/ b + PageUnits <= a)
    BY <2>2, PagesApart
  <2>4. c \in Nat /\ End(m, c) \in Nat /\ c < End(m, c)
    BY <1>3, TilesFacts
  <2>5. QED
    BY <1>1, <2>1, <2>3, <2>4
<1>4. CASE c \notin Blocks(m, os)
  <2>1. c \in DOMAIN m.ptr /\ m.size[c] = 0
    BY <1>2, <1>4 DEF Blocks, Free
  <2>2. c \in pgs \cup {base}
    BY <2>1 DEF MemTiles
  <2>3. CASE c = base
    BY <1>1, <2>3, BaseApart
  <2>4. CASE c \in pgs
    <3>1. c \in PageAddrs /\ c # a
      BY <1>1, <2>4
    <3>2. c \in Nat /\ (a + PageUnits <= c \/ c + PageUnits <= a)
      BY <3>1, PagesApart
    <3>3. PageUnits >= 2
      BY SizeAssumption
    <3>4. QED
      BY <1>1, <3>2, <3>3
  <2>5. QED
    BY <2>2, <2>3, <2>4
<1>5. QED
  BY <1>3, <1>4

(* The first header of the page goes on the list, and the rest of the page *)
(* is as good as an object of its length.                                  *)
WithHeader(m, a) ==
  LET e == Enlist([m EXCEPT !.size = Put(@, a, 0)], Place(m, a), a)
  IN  [e EXCEPT !.size = Put(@, a + 1, PageUnits - 1)]

LEMMA HeaderKept ==
  ASSUME NEW m, NEW pgs, NEW os, MemInv(m, pgs, os), NEW a \in PageAddrs, a \notin pgs
  PROVE  /\ MemInv(WithHeader(m, a), pgs \cup {a}, os \cup {a + 1})
         /\ \A o \in os : WithHeader(m, a).size[o] = m.size[o]
         /\ a + 1 \notin os
<1>0. MemTiles(m, pgs, os) /\ Seams(m) = {}
  BY DEF MemInv
<1>1. /\ m = [ptr |-> m.ptr, size |-> m.size, freep |-> m.freep]
      /\ Circle(m.ptr) /\ m.freep \in DOMAIN m.ptr
      /\ m.ptr \in [DOMAIN m.ptr -> DOMAIN m.ptr] /\ DOMAIN m.ptr \subseteq Nat
      /\ DOMAIN m.size = DOMAIN m.ptr \cup os
      /\ \A c \in DOMAIN m.ptr : m.size[c] \in Nat
      /\ \A o \in os : o \in Nat /\ m.size[o] \in Nat /\ m.size[o] > 0
      /\ os \cap DOMAIN m.ptr = {}
  BY <1>0, TilesFacts
<1>2. a \in Nat /\ PageUnits \in Nat /\ PageUnits >= 2 /\ a + 1 \in Nat /\ PageUnits - 1 \in Nat
  BY UnitAssumption, SizeAssumption
<1>3. \A c \in DOMAIN m.ptr \cup os : c < a \/ a + PageUnits <= c
  BY <1>0, NewPage
<1>4. a \notin DOMAIN m.ptr \cup os /\ a + 1 \notin DOMAIN m.ptr \cup os
  <2>1. \A c \in DOMAIN m.ptr \cup os : c \in Nat
    BY <1>1
  <2>2. \A c \in DOMAIN m.ptr \cup os : c # a /\ c # a + 1
    BY <1>2, <1>3, <2>1
  <2>3. QED
    BY <2>2
<1>5. PICK q : q = Place(m, a)
  OBVIOUS
<1>6. q \in DOMAIN m.ptr /\ Follows(m, a, q)
  BY <1>1, <1>2, <1>4, <1>5, PlaceFollows
<1>7. PICK m0 : m0 = [m EXCEPT !.size = Put(@, a, 0)]
  OBVIOUS
<1> DEFINE s0 == Put(m.size, a, 0)
           s2 == Put(s0, a + 1, PageUnits - 1)
<1>8. m0 = [ptr |-> m.ptr, size |-> s0, freep |-> m.freep]
  <2> HIDE DEF s0
  <2>1. m0 = [m EXCEPT !.size = s0]
    BY <1>7 DEF s0
  <2>2. PICK f, s, r : m = [ptr |-> f, size |-> s, freep |-> r]
    BY <1>1
  <2>3. QED
    BY <2>1, <2>2
<1>9. m0.ptr = m.ptr /\ m0.size = s0 /\ m0 = [ptr |-> m0.ptr, size |-> m0.size, freep |-> m0.freep]
  <2> HIDE DEF s0
  <2>1. QED
    BY <1>8
<1>10. PICK e : e = Enlist(m0, q, a)
  OBVIOUS
<1>11. /\ e = [ptr |-> e.ptr, size |-> e.size, freep |-> e.freep]
       /\ e.size = s0 /\ e.freep = q
       /\ DOMAIN e.ptr = DOMAIN m.ptr \cup {a}
       /\ e.ptr = [c \in DOMAIN e.ptr |-> IF c = q THEN a ELSE IF c = a THEN m.ptr[q] ELSE m.ptr[c]]
  <2> HIDE DEF s0
  <2>1. q \in DOMAIN m0.ptr /\ a \notin DOMAIN m0.ptr
    BY <1>4, <1>6, <1>9
  <2>2. /\ e = [ptr |-> e.ptr, size |-> e.size, freep |-> e.freep]
        /\ e.size = m0.size /\ e.freep = q
        /\ DOMAIN e.ptr = DOMAIN m0.ptr \cup {a}
        /\ e.ptr = [c \in DOMAIN e.ptr |-> IF c = q THEN a ELSE IF c = a THEN m0.ptr[q] ELSE m0.ptr[c]]
    BY <1>9, <1>10, <2>1, EnlistIs
  <2>3. QED
    BY <1>9, <2>2
<1> DEFINE M == WithHeader(m, a)
<1>12. PICK m2 : m2 = M /\ m2 = [e EXCEPT !.size = Put(@, a + 1, PageUnits - 1)]
  BY <1>5, <1>7, <1>10 DEF WithHeader
<1> HIDE DEF M
<1>13. m2 = [ptr |-> e.ptr, size |-> s2, freep |-> q]
  <2> HIDE DEF s0
  <2>1. m2 = [e EXCEPT !.size = s2]
    BY <1>11, <1>12
  <2> HIDE DEF s2
  <2>2. PICK f, s, r : e = [ptr |-> f, size |-> s, freep |-> r]
    BY <1>11
  <2>3. QED
    BY <1>11, <2>1, <2>2
<1>14. m2.ptr = e.ptr /\ m2.size = s2 /\ m2.freep = q /\ m2 = [ptr |-> m2.ptr, size |-> m2.size, freep |-> m2.freep]
  <2> HIDE DEF s2, s0
  <2>1. PICK f, s, r : f = e.ptr /\ s = s2 /\ r = q
    OBVIOUS
  <2>2. m2 = [ptr |-> f, size |-> s, freep |-> r]
    BY <1>13, <2>1
  <2>3. m2.ptr = f /\ m2.size = s /\ m2.freep = r
    BY <2>2
  <2>4. QED
    BY <2>1, <2>2, <2>3
<1>15. /\ DOMAIN m2.size = DOMAIN m.ptr \cup os \cup {a, a + 1}
       /\ m2.size[a] = 0 /\ m2.size[a + 1] = PageUnits - 1
       /\ \A c \in DOMAIN m.ptr \cup os : m2.size[c] = m.size[c]
  <2>1. DOMAIN s0 = DOMAIN m.size \cup {a} /\ DOMAIN s2 = DOMAIN s0 \cup {a + 1}
    BY DEF Put
  <2>2. s0[a] = 0 /\ \A c \in DOMAIN m.ptr \cup os : s0[c] = m.size[c]
    BY <1>1, <1>4 DEF Put
  <2> HIDE DEF s0
  <2>3. a + 1 # a
    BY <1>2
  <2>4. /\ s2[a + 1] = PageUnits - 1
        /\ \A c \in DOMAIN s0 : c # a + 1 => s2[c] = s0[c]
    BY DEF Put
  <2> HIDE DEF s2
  <2>5. DOMAIN m2.size = DOMAIN m.ptr \cup os \cup {a, a + 1}
    BY <1>1, <1>14, <2>1
  <2>6. m2.size[a] = 0 /\ m2.size[a + 1] = PageUnits - 1
    BY <1>14, <2>1, <2>2, <2>3, <2>4
  <2>7. \A c \in DOMAIN m.ptr \cup os : m2.size[c] = m.size[c]
    BY <1>1, <1>4, <1>14, <2>1, <2>2, <2>4
  <2>8. QED
    BY <2>5, <2>6, <2>7
<1>16. Circle(m2.ptr)
  <2>1. PICK f, g : f = m.ptr /\ g = m2.ptr
    OBVIOUS
  <2>2. Circle(f) /\ a \notin DOMAIN f /\ q \in DOMAIN f
    BY <1>1, <1>4, <1>6, <2>1
  <2>3. \/ q < a /\ a < f[q]
        \/ q >= f[q] /\ (a > q \/ a < f[q])
    BY <1>6, <2>1 DEF Follows
  <2>4. DOMAIN g = DOMAIN f \cup {a}
    BY <1>11, <1>14, <2>1
  <2>5. g = [c \in DOMAIN g |-> IF c = q THEN a ELSE IF c = a THEN f[q] ELSE f[c]]
    BY <1>11, <1>14, <2>1
  <2>6. Circle(g)
    BY <1>2, <2>2, <2>3, <2>4, <2>5, CircleInsert
  <2>7. QED
    BY <2>1, <2>6
<1>17. DOMAIN m2.ptr = DOMAIN m.ptr \cup {a} /\ m2.ptr[q] = a /\ \A c \in DOMAIN m.ptr : c # q => m2.ptr[c] = m.ptr[c]
  BY <1>4, <1>6, <1>11, <1>14
<1> DEFINE os2 == os \cup {a + 1}
<1>18. MemType(m2, os2)
  <2>1. m2.freep \in DOMAIN m2.ptr
    BY <1>6, <1>14, <1>17
  <2>2. DOMAIN m2.size = DOMAIN m2.ptr \cup os2
    BY <1>15, <1>17
  <2>3. \A c \in DOMAIN m2.ptr \cup os2 : m2.size[c] \in Nat
    BY <1>1, <1>2, <1>15, <1>17
  <2>4. m2.size = [c \in DOMAIN m2.size |-> m2.size[c]]
    BY <1>14 DEF Put
  <2>5. m2.size \in [DOMAIN m2.ptr \cup os2 -> Nat]
    BY <2>2, <2>3, <2>4
  <2>6. os2 \subseteq Nat /\ os2 \cap DOMAIN m2.ptr = {}
    <3>1. a + 1 # a
      BY <1>2
    <3>2. QED
      BY <1>1, <1>2, <1>4, <1>17, <3>1
  <2>7. \A o \in os2 : m2.size[o] > 0
    BY <1>1, <1>2, <1>15
  <2>8. QED
    BY <1>14, <1>16, <2>1, <2>5, <2>6, <2>7 DEF MemType
<1>19. Free(m2) = Free(m)
  BY <1>4, <1>15, <1>17 DEF Free
<1>20. Blocks(m2, os2) = Blocks(m, os) \cup {a + 1}
  BY <1>19 DEF Blocks
<1>21. End(m2, a + 1) = a + PageUnits /\ \A c \in Blocks(m, os) : End(m2, c) = End(m, c) /\ c \in DOMAIN m.ptr \cup os
  <2>1. End(m2, a + 1) = a + PageUnits
    BY <1>2, <1>15 DEF End
  <2>2. \A c \in Blocks(m, os) : End(m2, c) = End(m, c) /\ c \in DOMAIN m.ptr \cup os
    BY <1>15 DEF End, Blocks, Free
  <2>3. QED
    BY <2>1, <2>2
<1>22. {c \in DOMAIN m2.ptr : m2.size[c] = 0} = pgs \cup {a} \cup {base}
  <2>1. {c \in DOMAIN m.ptr : m.size[c] = 0} = pgs \cup {base}
    BY <1>0 DEF MemTiles
  <2>2. \A c : c \in DOMAIN m2.ptr /\ m2.size[c] = 0 <=> c = a \/ (c \in DOMAIN m.ptr /\ m.size[c] = 0)
    BY <1>15, <1>17
  <2>3. QED
    BY <2>1, <2>2
<1>23. \A c \in Blocks(m, os) : c \in Nat /\ End(m, c) \in Nat /\ c < End(m, c) /\ (End(m, c) <= a \/ a + PageUnits <= c)
  <2>1. TAKE c \in Blocks(m, os)
  <2>2. c \in Nat /\ End(m, c) \in Nat /\ c < End(m, c)
    BY <1>0, TilesFacts
  <2>3. PICK b \in pgs : c > b /\ End(m, c) <= b + PageUnits
    BY <1>0 DEF MemTiles
  <2>4. b \in PageAddrs /\ b # a
    BY <1>0, <2>3 DEF MemTiles
  <2>5. b \in Nat /\ (a + PageUnits <= b \/ b + PageUnits <= a)
    BY <2>4, PagesApart
  <2>6. QED
    BY <1>2, <2>2, <2>3, <2>5
<1>24. ASSUME NEW c \in Blocks(m2, os2), NEW d \in Blocks(m2, os2), c < d
       PROVE  End(m2, c) <= d
  <2>1. CASE c = a + 1 /\ d # a + 1
    <3>1. d \in Blocks(m, os)
      BY <1>20, <2>1
    <3>2. QED
      BY <1>2, <1>21, <1>23, <1>24, <2>1, <3>1
  <2>2. CASE d = a + 1 /\ c # a + 1
    <3>1. c \in Blocks(m, os)
      BY <1>20, <2>2
    <3>2. End(m2, c) = End(m, c) /\ c \in Nat /\ End(m, c) \in Nat
          /\ (End(m, c) <= a \/ a + PageUnits <= c) /\ c < a + 1
      BY <1>21, <1>23, <1>24, <2>2, <3>1
    <3>3. End(m, c) <= a + 1
      BY <1>2, <3>2
    <3>4. QED
      BY <2>2, <3>2, <3>3
  <2>3. CASE c # a + 1 /\ d # a + 1
    <3>1. c \in Blocks(m, os) /\ d \in Blocks(m, os)
      BY <1>20, <2>3
    <3>2. End(m, c) <= d
      BY <1>0, <1>24, <3>1 DEF MemTiles
    <3>3. QED
      BY <1>21, <3>1, <3>2
  <2>4. CASE c = a + 1 /\ d = a + 1
    BY <1>2, <1>24, <2>4
  <2>5. QED
    BY <2>1, <2>2, <2>3, <2>4
<1>25. ASSUME NEW c \in Blocks(m2, os2)
       PROVE  \E b \in pgs \cup {a} : c > b /\ End(m2, c) <= b + PageUnits
  <2>1. CASE c = a + 1
    <3>1. c > a /\ End(m2, c) <= a + PageUnits
      BY <1>2, <1>21, <2>1
    <3>2. QED
      BY <3>1
  <2>2. CASE c # a + 1
    <3>1. c \in Blocks(m, os)
      BY <1>20, <2>2
    <3>2. PICK b \in pgs : c > b /\ End(m, c) <= b + PageUnits
      BY <1>0, <3>1 DEF MemTiles
    <3>3. QED
      BY <1>21, <3>1, <3>2
  <2>3. QED
    BY <2>1, <2>2
<1>26. ASSUME NEW b \in pgs \cup {a}, NEW u \in Units(b)
       PROVE  \E c \in Blocks(m2, os2) : c <= u /\ u < End(m2, c)
  <2>1. CASE b = a
    <3>1. u \in a + 1 .. (a + 1) + (PageUnits - 1) - 1
      BY <2>1, <1>26 DEF Units, Extent
    <3>2. a + 1 <= u /\ u < a + PageUnits
      BY <1>2, <3>1
    <3>3. QED
      BY <1>20, <1>21, <3>2
  <2>2. CASE b \in pgs
    <3>1. PICK c \in Blocks(m, os) : c <= u /\ u < End(m, c)
      BY <1>0, <1>26, <2>2 DEF MemTiles
    <3>2. QED
      BY <1>20, <1>21, <3>1
  <2>3. QED
    BY <2>1, <2>2, <1>26
<1>27. MemTiles(m2, pgs \cup {a}, os2)
  <2>1. base \in BaseAddrs /\ pgs \cup {a} \subseteq PageAddrs
    BY <1>0 DEF MemTiles
  <2>2. QED
    BY <1>18, <1>22, <1>24, <1>25, <1>26, <2>1 DEF MemTiles
<1>28. Seams(m2) = {}
  <2>1. SUFFICES ASSUME NEW z \in Seams(m2) PROVE FALSE
    OBVIOUS
  <2>2. z \in Free(m) /\ m2.ptr[z] \in Free(m) /\ End(m2, z) = m2.ptr[z]
    BY <1>19, <2>1 DEF Seams
  <2>3. z \in DOMAIN m.ptr /\ m2.ptr[z] # a /\ z \in Blocks(m, os)
    BY <1>4, <2>2 DEF Free, Blocks
  <2>4. m2.ptr[z] = m.ptr[z] /\ End(m2, z) = End(m, z)
    BY <1>17, <1>21, <2>3
  <2>5. z \in Seams(m)
    BY <2>2, <2>4 DEF Seams
  <2>6. QED
    BY <1>0, <2>5
<1>29. QED
  BY <1>4, <1>12, <1>15, <1>27, <1>28 DEF MemInv, M

(* A page more: the heap is whole, and no object has changed.              *)
LEMMA PageKept ==
  ASSUME NEW m, NEW pgs, NEW os, MemInv(m, pgs, os), NEW a \in PageAddrs, a \notin pgs
  PROVE  /\ MemInv(AddPage(m, a), pgs \cup {a}, os)
         /\ \A o \in os : AddPage(m, a).size[o] = m.size[o]
<1>0. MemTiles(m, pgs, os)
  BY DEF MemInv
<1>1. /\ m = [ptr |-> m.ptr, size |-> m.size, freep |-> m.freep]
      /\ m.ptr \in [DOMAIN m.ptr -> DOMAIN m.ptr] /\ DOMAIN m.ptr \subseteq Nat
      /\ Circle(m.ptr)
  BY <1>0, TilesFacts
<1>2. a \in Nat /\ a \notin DOMAIN m.ptr
  <2>1. a \in Nat /\ PageUnits \in Nat /\ PageUnits >= 2
    BY UnitAssumption, SizeAssumption
  <2>2. \A c \in DOMAIN m.ptr : c < a \/ a + PageUnits <= c
    BY <1>0, NewPage
  <2>3. QED
    BY <1>1, <2>1, <2>2
<1>3. PICK m0 : m0 = [m EXCEPT !.size = Put(@, a, 0)]
  OBVIOUS
<1>4. m0.ptr = m.ptr /\ m0.size = Put(m.size, a, 0)
  <2>1. PICK f, s, r, t : m = [ptr |-> f, size |-> s, freep |-> r] /\ t = Put(m.size, a, 0)
    BY <1>1
  <2>2. m0 = [m EXCEPT !.size = t]
    BY <1>3, <2>1
  <2>3. m0 = [ptr |-> f, size |-> t, freep |-> r]
    BY <2>1, <2>2
  <2>4. QED
    BY <2>1, <2>3
<1>5. m0.size[a] = 0
  BY <1>4 DEF Put
<1>6. PICK q : q = Place(m, a)
  OBVIOUS
<1>7. Place(m0, a) = q /\ q \in DOMAIN m.ptr /\ m.ptr[q] # a /\ m.ptr[q] \in Nat
  <2>1. Place(m0, a) = Place(m, a)
    BY <1>4 DEF Place, Follows
  <2>2. q \in DOMAIN m.ptr
    BY <1>1, <1>2, <1>6, PlaceFollows
  <2>3. QED
    BY <1>1, <1>2, <1>6, <2>1, <2>2
<1>8. heap_free(m0, a) = Enlist(m0, q, a)
  <2>1. ~ (a + m0.size[a] = m0.ptr[q] /\ m0.size[m0.ptr[q]] > 0)
    BY <1>2, <1>4, <1>5, <1>7
  <2>2. ~ (q + m0.size[q] = a /\ m0.size[a] > 0)
    BY <1>5
  <2>3. QED
    BY <1>7, <2>1, <2>2 DEF heap_free
<1>9. PICK m1 : m1 = Enlist(m0, q, a)
  OBVIOUS
<1>10. PICK m2 : m2 = [m1 EXCEPT !.size = Put(@, a + 1, PageUnits - 1)]
  OBVIOUS
<1>11. /\ MemInv(m2, pgs \cup {a}, os \cup {a + 1})
       /\ \A o \in os : m2.size[o] = m.size[o]
       /\ a + 1 \notin os
  <2>1. m2 = WithHeader(m, a)
    BY <1>3, <1>6, <1>9, <1>10 DEF WithHeader
  <2>2. /\ MemInv(WithHeader(m, a), pgs \cup {a}, os \cup {a + 1})
        /\ \A o \in os : WithHeader(m, a).size[o] = m.size[o]
        /\ a + 1 \notin os
    BY HeaderKept
  <2>3. QED
    BY <2>1, <2>2
<1>12. AddPage(m, a) = heap_free(m2, a + 1)
  BY <1>3, <1>8, <1>9, <1>10 DEF AddPage
<1>13. /\ MemInv(heap_free(m2, a + 1), pgs \cup {a}, (os \cup {a + 1}) \ {a + 1})
       /\ \A o \in (os \cup {a + 1}) \ {a + 1} : heap_free(m2, a + 1).size[o] = m2.size[o]
  <2>1. PICK pgs1, os1 : pgs1 = pgs \cup {a} /\ os1 = os \cup {a + 1}
    OBVIOUS
  <2>2. MemInv(m2, pgs1, os1) /\ a + 1 \in os1
    BY <1>11, <2>1
  <2>3. /\ MemInv(heap_free(m2, a + 1), pgs1, os1 \ {a + 1})
        /\ \A o \in os1 \ {a + 1} : heap_free(m2, a + 1).size[o] = m2.size[o]
    BY <2>2, FreeKept
  <2>4. QED
    BY <2>1, <2>3
<1>14. (os \cup {a + 1}) \ {a + 1} = os
  BY <1>11
<1>15. MemInv(AddPage(m, a), pgs \cup {a}, os)
  BY <1>12, <1>13, <1>14
<1>16. \A o \in os : AddPage(m, a).size[o] = m.size[o]
  BY <1>11, <1>12, <1>13, <1>14
<1>17. QED
  BY <1>15, <1>16

-----------------------------------------------------------------------------
(* heap_alloc. *)

(* What there is of the two cases: the block that fits exactly, and the    *)
(* tail of a larger one.                                                   *)
Exact(m, prevp, q) ==
  [ptr |-> Unlink(m.ptr, prevp, q), size |-> m.size, freep |-> prevp]
Split(m, prevp, q, n) ==
  LET rest == m.size[q] - n
  IN  [ptr |-> m.ptr, size |-> Put(Put(m.size, q, rest), q + rest, n), freep |-> prevp]

LEMMA AllocIs ==
  ASSUME NEW m, NEW pgs, NEW os, MemInv(m, pgs, os), NEW n \in Nat \ {0}, Fitting(m, n) # {}
  PROVE  \E prevp \in DOMAIN m.ptr, q \in Free(m) :
           /\ q = m.ptr[prevp] /\ prevp # q /\ m.size[q] >= n
           /\ m.size[q] = n => heap_alloc(m, n).at = q /\ heap_alloc(m, n).mem = Exact(m, prevp, q)
           /\ m.size[q] # n => /\ heap_alloc(m, n).at = q + (m.size[q] - n)
                               /\ heap_alloc(m, n).mem = Split(m, prevp, q, n)
<1>0. MemTiles(m, pgs, os)
  BY DEF MemInv
<1>1. Circle(m.ptr) /\ m.freep \in DOMAIN m.ptr /\ \A c \in DOMAIN m.ptr : m.size[c] \in Nat
  BY <1>0, TilesFacts
<1>2. PICK k : k = CHOOSE i \in Fitting(m, n) : TRUE
  OBVIOUS
<1>3. k \in Fitting(m, n)
  BY <1>2
<1>4. PICK prevp, q : prevp = Link(m)[k - 1] /\ q = Link(m)[k]
  OBVIOUS
<1>5. prevp \in DOMAIN m.ptr /\ q \in DOMAIN m.ptr /\ q = m.ptr[prevp] /\ m.size[q] >= n
  BY <1>1, <1>3, <1>4, FittingBlock
<1>6. q \in Free(m)
  BY <1>1, <1>5 DEF Free
<1>7. prevp # q
  BY <1>0, <1>5, <1>6, NoSelfLink
<1>8. heap_alloc(m, n) =
        IF m.size[q] - n = 0 THEN [at |-> q, mem |-> Exact(m, prevp, q)]
                             ELSE [at |-> q + (m.size[q] - n), mem |-> Split(m, prevp, q, n)]
  BY <1>2, <1>4 DEF heap_alloc, Exact, Split
<1>9. m.size[q] - n = 0 <=> m.size[q] = n
  BY <1>1, <1>5
<1>10. QED
  BY <1>5, <1>6, <1>7, <1>8, <1>9

(* Between the ends of a block there is no other block and no header.      *)
LEMMA InsideBlock ==
  ASSUME NEW m, NEW pgs, NEW os, MemTiles(m, pgs, os), NEW q \in Blocks(m, os),
         NEW u \in Nat, q < u, u < End(m, q)
  PROVE  u \notin DOMAIN m.ptr \cup os
<1>1. SUFFICES ASSUME u \in DOMAIN m.ptr \cup os PROVE FALSE
  OBVIOUS
<1>2. q \in Blocks(m, os) /\ q \in Nat /\ End(m, q) \in Nat
  BY TilesFacts DEF Blocks
<1>3. CASE u \in Blocks(m, os)
  <2>1. End(m, q) <= u
    BY <1>2, <1>3 DEF MemTiles
  <2>2. QED
    BY <1>2, <2>1
<1>4. CASE u \notin Blocks(m, os)
  <2>1. u \in DOMAIN m.ptr /\ m.size[u] \in Nat
    BY <1>1, <1>4, TilesFacts DEF Blocks
  <2>2. m.size[u] = 0
    BY <1>4, <2>1 DEF Blocks, Free
  <2>3. u \in pgs \cup {base}
    BY <2>1, <2>2 DEF MemTiles
  <2>4. PICK a \in pgs : q > a /\ End(m, q) <= a + PageUnits
    BY <1>2 DEF MemTiles
  <2>5. a \in PageAddrs /\ a \in Nat /\ PageUnits \in Nat /\ base \in BaseAddrs /\ pgs \subseteq PageAddrs
    BY UnitAssumption, SizeAssumption DEF MemTiles
  <2>6. CASE u = base
    <3>1. base < a \/ a + PageUnits <= base
      BY <2>5, BaseApart
    <3>2. QED
      BY <1>2, <2>4, <2>5, <2>6, <3>1
  <2>7. CASE u \in pgs
    <3>1. u # a
      BY <1>2, <2>4, <2>5
    <3>2. a + PageUnits <= u \/ u + PageUnits <= a
      BY <2>5, <2>7, <3>1, PagesApart
    <3>3. QED
      BY <1>2, <2>4, <2>5, <3>2
  <2>8. QED
    BY <2>3, <2>6, <2>7
<1>5. QED
  BY <1>3, <1>4

(* A block that fits is taken off the list and becomes an object.          *)
LEMMA ExactKept ==
  ASSUME NEW m, NEW pgs, NEW os, MemInv(m, pgs, os),
         NEW prevp \in DOMAIN m.ptr, NEW q \in Free(m), q = m.ptr[prevp], prevp # q
  PROVE  /\ MemInv(Exact(m, prevp, q), pgs, os \cup {q})
         /\ Exact(m, prevp, q).size = m.size
<1>0. MemTiles(m, pgs, os) /\ Seams(m) = {}
  BY DEF MemInv
<1>1. /\ m = [ptr |-> m.ptr, size |-> m.size, freep |-> m.freep]
      /\ Circle(m.ptr)
      /\ m.ptr \in [DOMAIN m.ptr -> DOMAIN m.ptr] /\ DOMAIN m.ptr \subseteq Nat
      /\ \A c \in DOMAIN m.ptr : m.size[c] \in Nat
      /\ \A o \in os : o \in Nat /\ m.size[o] \in Nat /\ m.size[o] > 0
      /\ os \cap DOMAIN m.ptr = {}
  BY <1>0, TilesFacts
<1>2. PICK e : e = Exact(m, prevp, q)
  OBVIOUS
<1>3. /\ e = [ptr |-> e.ptr, size |-> e.size, freep |-> e.freep]
      /\ e.ptr = Unlink(m.ptr, prevp, q) /\ e.size = m.size /\ e.freep = prevp
  BY <1>2 DEF Exact
<1>4. /\ DOMAIN e.ptr = DOMAIN m.ptr \ {q}
      /\ e.ptr = [c \in DOMAIN e.ptr |-> IF c = prevp THEN m.ptr[q] ELSE m.ptr[c]]
  <2>1. DOMAIN Unlink(m.ptr, prevp, q) = DOMAIN m.ptr \ {q}
    BY DEF Unlink
  <2>2. Unlink(m.ptr, prevp, q) = [c \in DOMAIN m.ptr \ {q} |-> IF c = prevp THEN m.ptr[q] ELSE m.ptr[c]]
    BY DEF Unlink
  <2>3. QED
    BY <1>3, <2>1, <2>2
<1>5. q \in DOMAIN m.ptr /\ m.size[q] > 0 /\ q \in Blocks(m, os) /\ q \in Nat
  BY <1>1 DEF Free, Blocks
<1>6. Circle(e.ptr)
  <2>1. PICK f, g : f = m.ptr /\ g = e.ptr
    OBVIOUS
  <2>2. Circle(f) /\ prevp \in DOMAIN f /\ q \in DOMAIN f /\ f[prevp] = q
    BY <1>1, <1>5, <2>1
  <2>3. DOMAIN g = DOMAIN f \ {q}
    BY <1>4, <2>1
  <2>4. g = [c \in DOMAIN g |-> IF c = prevp THEN f[q] ELSE f[c]]
    BY <1>4, <2>1
  <2>5. Circle(g)
    BY <2>2, <2>3, <2>4, CircleRemove
  <2>6. QED
    BY <2>1, <2>5
<1> DEFINE os2 == os \cup {q}
<1>7. MemType(e, os2)
  <2>1. m.size \in [DOMAIN m.ptr \cup os -> Nat] /\ os \subseteq Nat /\ \A o \in os : m.size[o] > 0
    BY <1>0 DEF MemTiles, MemType
  <2>2. DOMAIN e.ptr \cup os2 = DOMAIN m.ptr \cup os
    BY <1>4, <1>5
  <2>3. e.size \in [DOMAIN e.ptr \cup os2 -> Nat]
    BY <1>3, <2>1, <2>2
  <2>4. os2 \subseteq Nat /\ os2 \cap DOMAIN e.ptr = {} /\ \A o \in os2 : e.size[o] > 0
    BY <1>1, <1>3, <1>4, <1>5
  <2>5. e.freep \in DOMAIN e.ptr
    BY <1>3, <1>4
  <2>6. QED
    BY <1>3, <1>6, <2>3, <2>4, <2>5 DEF MemType
<1>8. Free(e) = Free(m) \ {q}
  BY <1>3, <1>4 DEF Free
<1>9. Blocks(e, os2) = Blocks(m, os) /\ \A c : End(e, c) = End(m, c)
  BY <1>3, <1>8 DEF Blocks, End
<1>10. {c \in DOMAIN e.ptr : e.size[c] = 0} = pgs \cup {base}
  <2>1. {c \in DOMAIN m.ptr : m.size[c] = 0} = pgs \cup {base}
    BY <1>0 DEF MemTiles
  <2>2. \A c : c \in DOMAIN e.ptr /\ e.size[c] = 0 <=> c \in DOMAIN m.ptr /\ m.size[c] = 0
    BY <1>1, <1>3, <1>4, <1>5
  <2>3. QED
    BY <2>1, <2>2
<1>11. MemTiles(e, pgs, os2)
  BY <1>0, <1>7, <1>9, <1>10 DEF MemTiles
<1>12. Seams(e) = {}
  <2>1. SUFFICES ASSUME NEW z \in Seams(e) PROVE FALSE
    OBVIOUS
  <2>2. z \in Free(m) /\ z # q /\ e.ptr[z] \in Free(m) /\ End(m, z) = e.ptr[z] /\ z \in DOMAIN e.ptr
    BY <1>8, <1>9, <2>1 DEF Seams, Free
  <2>3. CASE z # prevp
    <3>1. e.ptr[z] = m.ptr[z]
      BY <1>4, <2>2, <2>3
    <3>2. z \in Seams(m)
      BY <2>2, <3>1 DEF Seams
    <3>3. QED
      BY <1>0, <3>2
  <2>4. CASE z = prevp
    <3>1. End(m, prevp) = m.ptr[q] /\ prevp \in Blocks(m, os)
      BY <1>4, <2>2, <2>4 DEF Blocks
    <3>2. prevp \in Nat /\ m.ptr[q] \in Nat /\ prevp < m.ptr[q] /\ m.ptr[q] \in DOMAIN m.ptr
      BY <1>0, <1>1, <1>5, <3>1, TilesFacts
    <3>3. CASE prevp < q
      <4>1. End(m, prevp) <= q
        BY <1>0, <1>5, <3>1, <3>3 DEF MemTiles
      <4>2. m.ptr[q] <= q
        BY <3>1, <4>1
      <4>3. m.ptr[q] <= prevp
        BY <1>1, <1>5, <4>2, CircleTurn
      <4>4. QED
        BY <3>2, <4>3
    <3>4. CASE q < prevp
      <4>1. m.ptr[prevp] <= prevp
        BY <1>5, <3>2, <3>4
      <4>2. m.ptr[q] <= prevp
        BY <1>1, <3>2, <4>1, CircleTurn
      <4>3. QED
        BY <3>2, <4>2
    <3>5. QED
      BY <1>5, <3>2, <3>3, <3>4
  <2>5. QED
    BY <2>3, <2>4
<1>13. QED
  BY <1>2, <1>3, <1>11, <1>12 DEF MemInv

(* Of a larger block the tail becomes an object.                           *)
LEMMA SplitKept ==
  ASSUME NEW m, NEW pgs, NEW os, MemInv(m, pgs, os), NEW n \in Nat \ {0},
         NEW prevp \in DOMAIN m.ptr, NEW q \in Free(m), m.size[q] > n
  PROVE  /\ MemInv(Split(m, prevp, q, n), pgs, os \cup {q + (m.size[q] - n)})
         /\ \A o \in os : Split(m, prevp, q, n).size[o] = m.size[o]
         /\ Split(m, prevp, q, n).size[q + (m.size[q] - n)] = n
         /\ q + (m.size[q] - n) \notin os
<1>0. MemTiles(m, pgs, os) /\ Seams(m) = {}
  BY DEF MemInv
<1>1. /\ Circle(m.ptr)
      /\ m.ptr \in [DOMAIN m.ptr -> DOMAIN m.ptr] /\ DOMAIN m.ptr \subseteq Nat
      /\ DOMAIN m.size = DOMAIN m.ptr \cup os
      /\ \A c \in DOMAIN m.ptr : m.size[c] \in Nat
      /\ \A o \in os : o \in Nat /\ m.size[o] \in Nat /\ m.size[o] > 0
      /\ os \cap DOMAIN m.ptr = {}
  BY <1>0, TilesFacts
<1>2. PICK rest, x : rest = m.size[q] - n /\ x = q + rest
  OBVIOUS
<1>3. q \in DOMAIN m.ptr /\ m.size[q] \in Nat /\ m.size[q] > 0 /\ q \in Nat /\ q \in Blocks(m, os) /\ q \notin os
  BY <1>1 DEF Free, Blocks
<1>4. /\ rest \in Nat /\ rest > 0 /\ rest < m.size[q] /\ x \in Nat /\ q < x /\ q + m.size[q] = x + n
      /\ x < x + n /\ x + n \in Nat
  BY <1>2, <1>3
<1>5. End(m, q) = x + n
  BY <1>4 DEF End
<1>6. x \notin DOMAIN m.ptr \cup os
  BY <1>0, <1>3, <1>4, <1>5, InsideBlock
<1> DEFINE s1 == Put(m.size, q, rest)
           s2 == Put(s1, x, n)
           os2 == os \cup {x}
<1>7. PICK e : e = Split(m, prevp, q, n)
  OBVIOUS
<1>8. e = [ptr |-> m.ptr, size |-> s2, freep |-> prevp]
  BY <1>2, <1>7 DEF Split
<1>9. /\ e = [ptr |-> e.ptr, size |-> e.size, freep |-> e.freep]
      /\ e.ptr = m.ptr /\ e.size = s2 /\ e.freep = prevp
  <2> HIDE DEF s2
  <2>1. QED
    BY <1>8
<1>10. /\ DOMAIN e.size = DOMAIN m.ptr \cup os \cup {x}
       /\ e.size[q] = rest /\ e.size[x] = n
       /\ \A c \in DOMAIN m.ptr \cup os : c # q => e.size[c] = m.size[c]
       /\ e.size = [c \in DOMAIN e.size |-> e.size[c]]
  <2>1. DOMAIN s1 = DOMAIN m.size \cup {q} /\ DOMAIN s2 = DOMAIN s1 \cup {x}
    BY DEF Put
  <2>2. s1[q] = rest /\ \A c \in DOMAIN m.size : c # q => s1[c] = m.size[c]
    BY <1>1, <1>3 DEF Put
  <2> HIDE DEF s1
  <2>3. s2[x] = n /\ \A c \in DOMAIN s1 : c # x => s2[c] = s1[c]
    BY DEF Put
  <2>4. s2 = [c \in DOMAIN s2 |-> s2[c]]
    BY DEF Put
  <2> HIDE DEF s2
  <2>5. DOMAIN e.size = DOMAIN m.ptr \cup os \cup {x}
    BY <1>1, <1>3, <1>9, <2>1
  <2>6. e.size[q] = rest /\ e.size[x] = n
    BY <1>1, <1>3, <1>6, <1>9, <2>1, <2>2, <2>3
  <2>7. \A c \in DOMAIN m.ptr \cup os : c # q => e.size[c] = m.size[c]
    BY <1>1, <1>6, <1>9, <2>1, <2>2, <2>3
  <2>8. QED
    BY <1>9, <2>4, <2>5, <2>6, <2>7
<1> HIDE DEF s2
<1>11. \A o \in os : e.size[o] = m.size[o]
  BY <1>3, <1>10
<1>12. MemType(e, os2)
  <2>1. \A c \in DOMAIN e.size : e.size[c] \in Nat
    BY <1>1, <1>4, <1>10
  <2>2. DOMAIN e.ptr \cup os2 = DOMAIN e.size
    BY <1>9, <1>10
  <2>3. e.size \in [DOMAIN e.ptr \cup os2 -> Nat]
    BY <1>10, <2>1, <2>2
  <2>4. os2 \subseteq Nat /\ os2 \cap DOMAIN e.ptr = {} /\ \A o \in os2 : e.size[o] > 0
    BY <1>1, <1>4, <1>6, <1>9, <1>10, <1>11
  <2>5. QED
    BY <1>1, <1>9, <2>3, <2>4 DEF MemType
<1>13. Free(e) = Free(m)
  BY <1>3, <1>4, <1>9, <1>10 DEF Free
<1>14. Blocks(e, os2) = Blocks(m, os) \cup {x}
  BY <1>13 DEF Blocks
<1>15. /\ End(e, q) = x /\ End(e, x) = x + n
       /\ \A c \in Blocks(m, os) : c # q => End(e, c) = End(m, c)
  <2>1. End(e, q) = x /\ End(e, x) = x + n
    BY <1>2, <1>10 DEF End
  <2>2. \A c \in Blocks(m, os) : c # q => End(e, c) = End(m, c)
    BY <1>10 DEF End, Blocks, Free
  <2>3. QED
    BY <2>1, <2>2
<1>16. {c \in DOMAIN e.ptr : e.size[c] = 0} = pgs \cup {base}
  <2>1. {c \in DOMAIN m.ptr : m.size[c] = 0} = pgs \cup {base}
    BY <1>0 DEF MemTiles
  <2>2. \A c : c \in DOMAIN e.ptr /\ e.size[c] = 0 <=> c \in DOMAIN m.ptr /\ m.size[c] = 0
    BY <1>3, <1>4, <1>9, <1>10
  <2>3. QED
    BY <2>1, <2>2
<1>17. \A c, d \in Blocks(m, os) : c < d => End(m, c) <= d
  BY <1>0 DEF MemTiles
<1>18. \A c \in Blocks(m, os) : c \in Nat /\ End(m, c) \in Nat /\ c < End(m, c)
  BY <1>0, TilesFacts
<1>19. ASSUME NEW c \in Blocks(e, os2), NEW d \in Blocks(e, os2), c < d
       PROVE  End(e, c) <= d
  <2>1. CASE c = x /\ d # x
    <3>0. d \in Blocks(m, os) /\ d \in Nat /\ x < d
      BY <1>14, <1>18, <1>19, <2>1
    <3>1. d \in Blocks(m, os) /\ d \in Nat /\ q < d
      BY <1>3, <1>4, <3>0
    <3>2. x + n <= d
      BY <1>3, <1>5, <1>17, <3>1
    <3>3. QED
      BY <1>15, <2>1, <3>2
  <2>2. CASE d = x /\ c # x
    <3>1. c \in Blocks(m, os) /\ c \in Nat /\ End(m, c) \in Nat
      BY <1>14, <1>18, <2>2
    <3>2. CASE c = q
      BY <1>4, <1>15, <2>2, <3>2
    <3>3. CASE c < q
      <4>1. End(m, c) <= q /\ End(e, c) = End(m, c)
        BY <1>3, <1>15, <1>17, <3>1, <3>3
      <4>2. QED
        BY <1>3, <1>4, <2>2, <3>1, <4>1
    <3>4. CASE q < c
      <4>1. x + n <= c
        BY <1>3, <1>5, <1>17, <3>1, <3>4
      <4>2. QED
        BY <1>4, <1>19, <2>2, <3>1, <4>1
    <3>5. QED
      BY <1>3, <3>1, <3>2, <3>3, <3>4
  <2>3. CASE c # x /\ d # x
    <3>1. c \in Blocks(m, os) /\ d \in Blocks(m, os) /\ d \in Nat
      BY <1>14, <1>18, <2>3
    <3>2. End(m, c) <= d
      BY <1>17, <1>19, <3>1
    <3>3. CASE c = q
      BY <1>4, <1>5, <1>15, <3>1, <3>2, <3>3
    <3>4. CASE c # q
      BY <1>15, <3>1, <3>2, <3>4
    <3>5. QED
      BY <3>3, <3>4
  <2>4. CASE c = x /\ d = x
    BY <1>4, <1>19, <2>4
  <2>5. QED
    BY <2>1, <2>2, <2>3, <2>4
<1>20. ASSUME NEW c \in Blocks(e, os2)
       PROVE  \E a \in pgs : c > a /\ End(e, c) <= a + PageUnits
  <2>1. CASE c = x \/ c = q
    <3>1. PICK a \in pgs : q > a /\ End(m, q) <= a + PageUnits
      BY <1>0, <1>3 DEF MemTiles
    <3>2. a \in Nat /\ PageUnits \in Nat
      BY <1>0, UnitAssumption, SizeAssumption DEF MemTiles
    <3>3. x > a /\ x + n <= a + PageUnits /\ x <= a + PageUnits
      BY <1>3, <1>4, <1>5, <3>1, <3>2
    <3>4. QED
      BY <1>15, <2>1, <3>1, <3>3
  <2>2. CASE c # x /\ c # q
    <3>1. c \in Blocks(m, os)
      BY <1>14, <2>2
    <3>2. \E a \in pgs : c > a /\ End(m, c) <= a + PageUnits
      BY <1>0, <3>1 DEF MemTiles
    <3>3. QED
      BY <1>15, <2>2, <3>1, <3>2
  <2>3. QED
    BY <2>1, <2>2
<1>21. ASSUME NEW a \in pgs, NEW u \in Units(a)
       PROVE  \E c \in Blocks(e, os2) : c <= u /\ u < End(e, c)
  <2>1. PICK c \in Blocks(m, os) : c <= u /\ u < End(m, c)
    BY <1>0 DEF MemTiles
  <2>2. CASE c # q
    BY <1>14, <1>15, <2>1, <2>2
  <2>3. CASE c = q
    <3>1. u \in Int
      <4>1. a \in Nat /\ PageUnits \in Nat
        BY <1>0, UnitAssumption, SizeAssumption DEF MemTiles
      <4>2. QED
        BY <4>1 DEF Units, Extent
    <3>2. u < x + n
      BY <1>5, <2>1, <2>3
    <3>3. CASE u < x
      BY <1>3, <1>14, <1>15, <2>1, <2>3, <3>3
    <3>4. CASE x <= u
      BY <1>14, <1>15, <3>2, <3>4
    <3>5. x \in Nat
      BY <1>4
    <3>6. u < x \/ x <= u
      BY <3>1, <3>5
    <3>7. QED
      BY <3>3, <3>4, <3>6
  <2>4. QED
    BY <2>2, <2>3
<1>22. MemTiles(e, pgs, os2)
  <2>1. base \in BaseAddrs /\ pgs \subseteq PageAddrs
    BY <1>0 DEF MemTiles
  <2>2. QED
    BY <1>12, <1>16, <1>19, <1>20, <1>21, <2>1 DEF MemTiles
<1>23. Seams(e) = {}
  <2>1. SUFFICES ASSUME NEW z \in Seams(e) PROVE FALSE
    OBVIOUS
  <2>2. z \in Free(m) /\ m.ptr[z] \in Free(m) /\ End(e, z) = m.ptr[z]
    BY <1>9, <1>13, <2>1 DEF Seams
  <2>3. CASE z = q
    BY <1>6, <1>15, <2>2, <2>3 DEF Free
  <2>4. CASE z # q
    <3>1. z \in Blocks(m, os)
      BY <2>2 DEF Blocks
    <3>2. z \in Seams(m)
      BY <1>15, <2>2, <2>4, <3>1 DEF Seams
    <3>3. QED
      BY <1>0, <3>2
  <2>5. QED
    BY <2>3, <2>4
<1>24. QED
  BY <1>2, <1>6, <1>7, <1>10, <1>11, <1>22, <1>23 DEF MemInv

(* heap_alloc: one block more is handed out, of the size asked for, and    *)
(* the others are not touched.                                             *)
LEMMA AllocKept ==
  ASSUME NEW m, NEW pgs, NEW os, MemInv(m, pgs, os), NEW n \in Nat \ {0}, Fitting(m, n) # {}
  PROVE  LET r == heap_alloc(m, n) IN
         /\ MemInv(r.mem, pgs, os \cup {r.at})
         /\ \A o \in os : r.mem.size[o] = m.size[o]
         /\ r.mem.size[r.at] = n
         /\ r.at \notin os
<1>1. PICK r : r = heap_alloc(m, n)
  OBVIOUS
<1>2. PICK prevp \in DOMAIN m.ptr, q \in Free(m) :
           /\ q = m.ptr[prevp] /\ prevp # q /\ m.size[q] >= n
           /\ m.size[q] = n => r.at = q /\ r.mem = Exact(m, prevp, q)
           /\ m.size[q] # n => r.at = q + (m.size[q] - n) /\ r.mem = Split(m, prevp, q, n)
  BY <1>1, AllocIs
<1>3. MemTiles(m, pgs, os)
  BY DEF MemInv
<1>4. m.size[q] \in Nat /\ q \notin os
  BY <1>3, TilesFacts DEF Free
<1>5. CASE m.size[q] = n
  <2>1. MemInv(r.mem, pgs, os \cup {r.at}) /\ r.mem.size = m.size
    BY <1>2, <1>5, ExactKept
  <2>2. QED
    BY <1>1, <1>2, <1>4, <1>5, <2>1
<1>6. CASE m.size[q] # n
  <2>1. m.size[q] > n
    BY <1>2, <1>4, <1>6
  <2>2. /\ MemInv(r.mem, pgs, os \cup {r.at})
        /\ \A o \in os : r.mem.size[o] = m.size[o]
        /\ r.mem.size[r.at] = n /\ r.at \notin os
    <3>1. /\ MemInv(Split(m, prevp, q, n), pgs, os \cup {q + (m.size[q] - n)})
          /\ \A o \in os : Split(m, prevp, q, n).size[o] = m.size[o]
          /\ Split(m, prevp, q, n).size[q + (m.size[q] - n)] = n
          /\ q + (m.size[q] - n) \notin os
      BY <2>1, SplitKept
    <3>2. r.at = q + (m.size[q] - n) /\ r.mem = Split(m, prevp, q, n)
      BY <1>2, <1>6
    <3>3. QED
      BY <3>1, <3>2
  <2>3. QED
    BY <1>1, <2>2
<1>7. QED
  BY <1>5, <1>6

-----------------------------------------------------------------------------
(* Sums over finite sets: the recursion of MapThenSumSet, which takes one  *)
(* element after the other as CHOOSE gives them, ends, and the order does  *)
(* not matter.                                                             *)

One(s) == CHOOSE x \in s : TRUE
Sum(g, S) ==
  LET iter[s \in SUBSET S] == IF s = {} THEN 0 ELSE g[One(s)] + iter[s \ {One(s)}]
  IN  iter[S]

Sums(g, S, F) ==
  /\ F \in [SUBSET S -> Nat]
  /\ \A s \in SUBSET S : F[s] = IF s = {} THEN 0 ELSE g[One(s)] + F[s \ {One(s)}]

(* One element less of a finite set.                                       *)
LEMMA Lesser ==
  ASSUME NEW s, IsFiniteSet(s), NEW x \in s
  PROVE  /\ IsFiniteSet(s \ {x})
         /\ Cardinality(s) \in Nat /\ Cardinality(s) > 0
         /\ Cardinality(s \ {x}) = Cardinality(s) - 1
<1>1. Cardinality(s) \in Nat /\ Cardinality(s) # 0
  BY FS_CardinalityType, FS_EmptySet
<1>2. IsFiniteSet(s \ {x}) /\ Cardinality(s \ {x}) = Cardinality(s) - 1
  BY FS_RemoveElement
<1>3. QED
  BY <1>1, <1>2

LEMMA SumsExist ==
  ASSUME NEW S, IsFiniteSet(S), NEW g, \A x \in S : g[x] \in Nat
  PROVE  \E F : Sums(g, S, F)
<1> DEFINE Small(n) == {s \in SUBSET S : Cardinality(s) <= n}
           Ok(n, F) == /\ F \in [Small(n) -> Nat]
                       /\ \A s \in Small(n) : F[s] = IF s = {} THEN 0 ELSE g[One(s)] + F[s \ {One(s)}]
           A == {n \in Nat : \E F : Ok(n, F)}
<1>1. \A s \in SUBSET S : IsFiniteSet(s) /\ Cardinality(s) \in Nat
  BY FS_Subset, FS_CardinalityType
<1>2. \A s \in SUBSET S : s # {} => One(s) \in s /\ g[One(s)] \in Nat /\ s \ {One(s)} \in SUBSET S
                                    /\ Cardinality(s) > 0 /\ Cardinality(s \ {One(s)}) = Cardinality(s) - 1
  <2>1. TAKE s \in SUBSET S
  <2>2. SUFFICES ASSUME s # {}
                 PROVE  /\ One(s) \in s /\ g[One(s)] \in Nat /\ s \ {One(s)} \in SUBSET S
                        /\ Cardinality(s) > 0 /\ Cardinality(s \ {One(s)}) = Cardinality(s) - 1
    OBVIOUS
  <2>3. One(s) \in s
    BY <2>2 DEF One
  <2>4. QED
    BY <1>1, <2>3, Lesser
<1>3. 0 \in A
  <2>1. \A s \in Small(0) : s = {}
    <3>1. SUFFICES ASSUME NEW s \in SUBSET S, Cardinality(s) <= 0, s # {} PROVE FALSE
      OBVIOUS
    <3>2. Cardinality(s) > 0 /\ Cardinality(s) \in Nat
      BY <1>1, <1>2, <3>1
    <3>3. QED
      BY <3>1, <3>2
  <2>2. Ok(0, [s \in Small(0) |-> 0])
    BY <2>1
  <2>3. QED
    BY <2>2
<1>4. \A n \in A : n + 1 \in A
  <2>1. TAKE n \in A
  <2>2. n \in Nat /\ \E F : Ok(n, F)
    OBVIOUS
  <2>3. PICK F : Ok(n, F)
    BY <2>2
  <2> DEFINE H == [s \in Small(n + 1) |-> IF s = {} THEN 0 ELSE g[One(s)] + F[s \ {One(s)}]]
  <2>4. \A s \in Small(n + 1) : s # {} => s \ {One(s)} \in Small(n)
    BY <1>1, <1>2, <2>2
  <2>5. H \in [Small(n + 1) -> Nat]
    BY <1>2, <2>3, <2>4
  <2>6. \A s \in Small(n) : s \in Small(n + 1) /\ H[s] = F[s]
    <3>1. \A s \in Small(n) : s \in Small(n + 1)
      BY <1>1, <2>2
    <3>2. QED
      BY <2>3, <3>1
  <2>7. \A s \in Small(n + 1) : H[s] = IF s = {} THEN 0 ELSE g[One(s)] + H[s \ {One(s)}]
    <3>1. TAKE s \in Small(n + 1)
    <3>2. H[s] = IF s = {} THEN 0 ELSE g[One(s)] + F[s \ {One(s)}]
      OBVIOUS
    <3> HIDE DEF H, Small
    <3>3. s # {} => H[s \ {One(s)}] = F[s \ {One(s)}]
      BY <2>4, <2>6
    <3>4. QED
      BY <3>2, <3>3
  <2>8. Ok(n + 1, H)
    <3> HIDE DEF H, Small
    <3>1. QED
      BY <2>5, <2>7
  <2> HIDE DEF Ok, H
  <2>9. QED
    BY <2>2, <2>8
<1>5. A = Nat
  <2>1. A \in SUBSET Nat
    OBVIOUS
  <2> HIDE DEF A
  <2>2. QED
    BY <1>3, <1>4, <2>1, NatInd
<1>6. Cardinality(S) \in A
  BY <1>5, FS_CardinalityType
<1>7. PICK F : Ok(Cardinality(S), F)
  BY <1>6
<1>8. Small(Cardinality(S)) = SUBSET S
  BY FS_Subset
<1>9. QED
  BY <1>7, <1>8 DEF Sums

(* Any two such functions agree where both are defined.                    *)
LEMMA SumsAgree ==
  ASSUME NEW S, IsFiniteSet(S), NEW T \in SUBSET S, NEW g, NEW h,
         \A x \in T : g[x] = h[x],
         NEW F, NEW G, Sums(g, S, F), Sums(h, T, G)
  PROVE  \A s \in SUBSET T : F[s] = G[s]
<1> DEFINE A == {n \in Nat : \A s \in SUBSET T : Cardinality(s) = n => F[s] = G[s]}
<1>1. \A s \in SUBSET T : IsFiniteSet(s) /\ Cardinality(s) \in Nat
  BY FS_Subset, FS_CardinalityType
<1>2. 0 \in A
  <2>1. \A s \in SUBSET T : Cardinality(s) = 0 => s = {}
    BY <1>1, FS_EmptySet
  <2>2. F[{}] = 0 /\ G[{}] = 0
    BY DEF Sums
  <2>3. QED
    BY <2>1, <2>2
<1>3. \A n \in A : n + 1 \in A
  <2>1. TAKE n \in A
  <2>2. SUFFICES ASSUME NEW s \in SUBSET T, Cardinality(s) = n + 1
                 PROVE  F[s] = G[s]
    OBVIOUS
  <2>3. s # {}
    <3>1. n \in Nat /\ Cardinality(s) = n + 1 /\ Cardinality({}) = 0
      BY <2>2, FS_EmptySet
    <3>2. Cardinality(s) # Cardinality({})
      BY <3>1
    <3>3. QED
      BY <3>2
  <2>4. One(s) \in s
    BY <2>3 DEF One
  <2>5. s \ {One(s)} \in SUBSET T /\ Cardinality(s \ {One(s)}) = n
    BY <1>1, <2>2, <2>4, Lesser
  <2>6. F[s \ {One(s)}] = G[s \ {One(s)}]
    BY <2>1, <2>5
  <2>7. s \in SUBSET S /\ g[One(s)] = h[One(s)]
    BY <2>4
  <2>8. QED
    BY <2>3, <2>6, <2>7 DEF Sums
<1>4. A = Nat
  <2>1. A \in SUBSET Nat
    OBVIOUS
  <2> HIDE DEF A
  <2>2. QED
    BY <1>2, <1>3, <2>1, NatInd
<1>5. QED
  BY <1>1, <1>4

(* The sum of a set is the value of any such function for it.              *)
LEMMA SumIs ==
  ASSUME NEW S, IsFiniteSet(S), NEW g, NEW F, Sums(g, S, F), \A x \in S : g[x] \in Nat
  PROVE  \A T \in SUBSET S : Sum(g, T) = F[T]
<1>1. SUFFICES ASSUME NEW T \in SUBSET S PROVE Sum(g, T) = F[T]
  OBVIOUS
<1>2. IsFiniteSet(T) /\ \A x \in T : g[x] \in Nat
  BY FS_Subset
<1>3. PICK G : Sums(g, T, G)
  BY <1>2, SumsExist
<1>4. G = [s \in SUBSET T |-> IF s = {} THEN 0 ELSE g[One(s)] + G[s \ {One(s)}]]
  BY <1>3 DEF Sums
<1> DEFINE iter[s \in SUBSET T] == IF s = {} THEN 0 ELSE g[One(s)] + iter[s \ {One(s)}]
<1>5. iter = [s \in SUBSET T |-> IF s = {} THEN 0 ELSE g[One(s)] + iter[s \ {One(s)}]]
  BY <1>4
<1>6. Sum(g, T) = iter[T]
  BY DEF Sum
<1> HIDE DEF iter
<1> DEFINE B == {n \in Nat : \A s \in SUBSET T : Cardinality(s) = n => iter[s] = G[s]}
<1>7. \A s \in SUBSET T : IsFiniteSet(s) /\ Cardinality(s) \in Nat
  BY <1>2, FS_Subset, FS_CardinalityType
<1>8. 0 \in B
  <2>1. \A s \in SUBSET T : Cardinality(s) = 0 => s = {}
    BY <1>7, FS_EmptySet
  <2>2. iter[{}] = 0 /\ G[{}] = 0
    BY <1>4, <1>5
  <2>3. QED
    BY <2>1, <2>2
<1>9. \A n \in B : n + 1 \in B
  <2>1. TAKE n \in B
  <2>2. SUFFICES ASSUME NEW s \in SUBSET T, Cardinality(s) = n + 1
                 PROVE  iter[s] = G[s]
    OBVIOUS
  <2>3. s # {}
    <3>1. n \in Nat /\ Cardinality(s) = n + 1 /\ Cardinality({}) = 0
      BY <2>2, FS_EmptySet
    <3>2. Cardinality(s) # Cardinality({})
      BY <3>1
    <3>3. QED
      BY <3>2
  <2>4. One(s) \in s
    BY <2>3 DEF One
  <2>5. s \ {One(s)} \in SUBSET T /\ Cardinality(s \ {One(s)}) = n
    BY <1>7, <2>2, <2>4, Lesser
  <2>6. iter[s \ {One(s)}] = G[s \ {One(s)}]
    BY <2>1, <2>5
  <2>7. iter[s] = g[One(s)] + iter[s \ {One(s)}]
    BY <1>5, <2>3
  <2>8. G[s] = g[One(s)] + G[s \ {One(s)}]
    BY <1>4, <2>3
  <2>9. QED
    BY <2>6, <2>7, <2>8
<1>10. B = Nat
  <2>1. B \in SUBSET Nat
    OBVIOUS
  <2> HIDE DEF B
  <2>2. QED
    BY <1>8, <1>9, <2>1, NatInd
<1>11. iter[T] = G[T]
  BY <1>7, <1>10
<1>12. F[T] = G[T]
  BY <1>3, SumsAgree
<1>13. QED
  BY <1>6, <1>11, <1>12

(* It does not matter which element is taken first.                        *)
LEMMA SumsCommute ==
  ASSUME NEW S, IsFiniteSet(S), NEW g, NEW F, Sums(g, S, F), \A x \in S : g[x] \in Nat,
         NEW T \in SUBSET S, NEW y \in T
  PROVE  F[T] = g[y] + F[T \ {y}]
<1> DEFINE A == {n \in Nat : \A s \in SUBSET S : Cardinality(s) = n => \A x \in s : F[s] = g[x] + F[s \ {x}]}
<1>1. \A s \in SUBSET S : IsFiniteSet(s) /\ Cardinality(s) \in Nat /\ F[s] \in Nat
  BY FS_Subset, FS_CardinalityType DEF Sums
<1>2. 0 \in A
  <2>1. \A s \in SUBSET S : Cardinality(s) = 0 => s = {}
    BY <1>1, FS_EmptySet
  <2>2. QED
    BY <2>1
<1>3. \A n \in A : n + 1 \in A
  <2>1. TAKE n \in A
  <2>2. SUFFICES ASSUME NEW s \in SUBSET S, Cardinality(s) = n + 1, NEW x \in s
                 PROVE  F[s] = g[x] + F[s \ {x}]
    OBVIOUS
  <2>3. PICK c : c = One(s)
    OBVIOUS
  <2>4. c \in s
    BY <2>3 DEF One
  <2>5. F[s] = g[c] + F[s \ {c}]
    BY <2>3 DEF Sums
  <2>6. CASE x = c
    BY <2>5, <2>6
  <2>7. CASE x # c
    <3>1. n \in Nat
      OBVIOUS
    <3>2. s \ {c} \in SUBSET S /\ Cardinality(s \ {c}) = n /\ x \in s \ {c}
      BY <1>1, <2>2, <2>4, <2>7, <3>1, Lesser
    <3>3. s \ {x} \in SUBSET S /\ Cardinality(s \ {x}) = n /\ c \in s \ {x}
      BY <1>1, <2>2, <2>4, <2>7, <3>1, Lesser
    <3>4. F[s \ {c}] = g[x] + F[(s \ {c}) \ {x}]
      BY <2>1, <3>2
    <3>5. F[s \ {x}] = g[c] + F[(s \ {x}) \ {c}]
      BY <2>1, <3>3
    <3>6. (s \ {c}) \ {x} = (s \ {x}) \ {c} /\ (s \ {c}) \ {x} \in SUBSET S
      OBVIOUS
    <3>7. PICK r : r = F[(s \ {c}) \ {x}]
      OBVIOUS
    <3>8. r \in Nat /\ g[x] \in Nat /\ g[c] \in Nat
      BY <1>1, <2>4, <3>6, <3>7
    <3>9. F[s] = g[c] + (g[x] + r) /\ F[s \ {x}] = g[c] + r
      BY <2>5, <3>4, <3>5, <3>6, <3>7
    <3>10. QED
      BY <3>8, <3>9
  <2>8. QED
    BY <2>6, <2>7
<1>4. A = Nat
  <2>1. A \in SUBSET Nat
    OBVIOUS
  <2> HIDE DEF A
  <2>2. QED
    BY <1>2, <1>3, <2>1, NatInd
<1>5. QED
  BY <1>1, <1>4

LEMMA SumEmpty == \A g : Sum(g, {}) = 0
<1>1. SUFFICES ASSUME NEW g PROVE Sum(g, {}) = 0
  OBVIOUS
<1>2. IsFiniteSet({})
  BY FS_EmptySet
<1>3. PICK F : Sums(g, {}, F)
  BY <1>2, SumsExist
<1>4. Sum(g, {}) = F[{}]
  BY <1>2, <1>3, SumIs
<1>5. QED
  BY <1>3, <1>4 DEF Sums

(* A number more in the sum.                                               *)
LEMMA SumAdd ==
  ASSUME NEW S, IsFiniteSet(S), NEW g, \A y \in S : g[y] \in Nat, NEW T \in SUBSET S,
         NEW z \in S, z \notin T
  PROVE  /\ Sum(g, T \cup {z}) = g[z] + Sum(g, T)
         /\ Sum(g, T) \in Nat
<1>1. PICK F : Sums(g, S, F)
  BY SumsExist
<1>2. T \cup {z} \in SUBSET S /\ (T \cup {z}) \ {z} = T /\ z \in T \cup {z}
  OBVIOUS
<1>3. Sum(g, T) = F[T] /\ Sum(g, T \cup {z}) = F[T \cup {z}]
  BY <1>1, <1>2, SumIs
<1>4. F[T \cup {z}] = g[z] + F[(T \cup {z}) \ {z}]
  <2>1. PICK U : U = T \cup {z}
    OBVIOUS
  <2>2. U \in SUBSET S /\ z \in U
    BY <1>2, <2>1
  <2>3. F[U] = g[z] + F[U \ {z}]
    BY <1>1, <2>2, SumsCommute
  <2>4. QED
    BY <2>1, <2>3
<1>5. F[T] \in Nat
  BY <1>1 DEF Sums
<1>6. QED
  BY <1>2, <1>3, <1>4, <1>5

(* The same numbers give the same sum.                                     *)
LEMMA SumSame ==
  ASSUME NEW S, IsFiniteSet(S), NEW g, NEW h, \A x \in S : g[x] = h[x] /\ g[x] \in Nat
  PROVE  Sum(g, S) = Sum(h, S)
<1>1. PICK F : Sums(g, S, F)
  BY SumsExist
<1>2. PICK G : Sums(h, S, G)
  BY SumsExist
<1>3. Sum(g, S) = F[S] /\ Sum(h, S) = G[S]
  BY <1>1, <1>2, SumIs
<1>4. F[S] = G[S]
  BY <1>1, <1>2, SumsAgree
<1>5. QED
  BY <1>3, <1>4

LEMMA SumOfSizes == \A m, S : MapThenSumSet(LAMBDA o : m.size[o], S) = Sum(m.size, S)
BY DEF MapThenSumSet, MapThenFoldSet, Sum, One

-----------------------------------------------------------------------------
(* What is invariant of a collection. *)

TypeOK ==
  /\ base \in BaseAddrs /\ pages \subseteq PageAddrs
  /\ black \subseteq objs
  /\ stage \in 0 .. 2
  /\ phase \in {"run", "alloc", "sweep", "walk", "free", "panic"}
  /\ left \subseteq pages
  /\ dead \in Seq(Unit)
  /\ inuse \in Nat
  /\ phase \in {"run", "panic"} \/ want \in Sizes

(* The walk is at the start of a block or at the end of the page, and      *)
(* next to no free block it has skipped; or it has left the page.          *)
WalkInv ==
  phase = "walk" =>
    /\ page \in pages \ left
    /\ bp \in FreeBlocks /\ p \in Nat /\ page <= bp /\ bp < p
    /\ \A c \in FreeBlocks : ~ (bp < c /\ c < p)
    /\ p < page + PageUnits => p \in Blocks(mem, objs)

(* The sweep has come to o.                                                *)
Seen(o) ==
  \E a \in pages \ left : o \in Units(a) /\ (a = page /\ phase = "walk" => o < p)
Dead == {dead[i] : i \in 1 .. Len(dead)}
Alive == {o \in objs \ Dead : Seen(o)}

(* The objects it has come to are alive and counted, and white again, or   *)
(* on the list of the dead, each once.                                     *)
SweepInv ==
  /\ \A i, j \in 1 .. Len(dead) : i < j => dead[i] # dead[j]
  /\ phase \notin {"walk", "free"} => dead = << >>
  /\ \A o \in Dead : o \in objs /\ Seen(o)
  /\ Sweeping => \A o \in objs : Seen(o) => o \notin black
  /\ Sweeping => inuse = Sum(mem.size, Alive)

IInv == TypeOK /\ MemInv(mem, pages, objs) /\ WalkInv /\ SweepInv

-----------------------------------------------------------------------------
(* Blocks and pages. *)

LEMMA UnitsAre ==
  ASSUME NEW a \in PageAddrs
  PROVE  /\ a \in Nat /\ PageUnits \in Nat /\ PageUnits >= 2
         /\ \A u : u \in Units(a) <=> u \in Nat /\ a < u /\ u < a + PageUnits
<1>1. a \in Nat /\ PageUnits \in Nat /\ PageUnits >= 2
  BY UnitAssumption, SizeAssumption
<1>2. Units(a) = a + 1 .. (a + 1) + (PageUnits - 1) - 1
  BY DEF Units, Extent
<1>3. QED
  BY <1>1, <1>2

LEMMA OnePage ==
  ASSUME NEW a \in PageAddrs, NEW b \in PageAddrs, NEW u \in Units(a), u \in Units(b)
  PROVE  a = b
<1>1. SUFFICES ASSUME a # b PROVE FALSE
  OBVIOUS
<1>2. a + PageUnits <= b \/ b + PageUnits <= a
  BY <1>1, PagesApart
<1>3. a \in Nat /\ b \in Nat /\ PageUnits \in Nat /\ u \in Nat /\ a < u /\ u < a + PageUnits /\ b < u /\ u < b + PageUnits
  BY UnitsAre
<1>4. QED
  BY <1>2, <1>3

(* A block lies in the one page that has its first unit.                   *)
LEMMA BlockInPage ==
  ASSUME NEW m, NEW pgs, NEW os, MemTiles(m, pgs, os), NEW b \in Blocks(m, os)
  PROVE  \E a \in pgs : b \in Units(a) /\ End(m, b) <= a + PageUnits
<1>1. PICK a \in pgs : b > a /\ End(m, b) <= a + PageUnits
  BY DEF MemTiles
<1>2. a \in PageAddrs
  BY DEF MemTiles
<1>3. b \in Nat /\ End(m, b) \in Nat /\ b < End(m, b)
  BY TilesFacts
<1>4. a \in Nat /\ PageUnits \in Nat
  BY <1>2, UnitsAre
<1>5. a < b /\ b < a + PageUnits
  BY <1>1, <1>3, <1>4
<1>6. QED
  BY <1>1, <1>2, <1>3, <1>5, UnitsAre

(* What covers a unit of a page lies in that page.                         *)
LEMMA Covered ==
  ASSUME NEW m, NEW pgs, NEW os, MemTiles(m, pgs, os), NEW a \in pgs, NEW u \in Units(a)
  PROVE  \E b \in Blocks(m, os) :
           b <= u /\ u < End(m, b) /\ b \in Units(a) /\ End(m, b) <= a + PageUnits
<1>1. PICK b \in Blocks(m, os) : b <= u /\ u < End(m, b)
  BY DEF MemTiles
<1>2. PICK c \in pgs : b \in Units(c) /\ End(m, b) <= c + PageUnits
  BY BlockInPage
<1>3. a \in PageAddrs /\ c \in PageAddrs
  BY DEF MemTiles
<1>4. b \in Nat /\ End(m, b) \in Nat
  BY TilesFacts
<1>5. c \in Nat /\ PageUnits \in Nat /\ u \in Nat /\ c < b
  BY <1>2, <1>3, UnitsAre
<1>6. c < u /\ u < c + PageUnits
  BY <1>1, <1>2, <1>4, <1>5
<1>7. u \in Units(c)
  BY <1>3, <1>5, <1>6, UnitsAre
<1>8. a = c
  BY <1>3, <1>7, OnePage
<1>9. QED
  BY <1>1, <1>2, <1>8

(* Where a block ends inside its page another one starts.                  *)
LEMMA NextBlock ==
  ASSUME NEW m, NEW pgs, NEW os, MemTiles(m, pgs, os), NEW b \in Blocks(m, os),
         NEW a \in pgs, End(m, b) \in Units(a)
  PROVE  End(m, b) \in Blocks(m, os)
<1>1. PICK c \in Blocks(m, os) : c <= End(m, b) /\ End(m, b) < End(m, c)
  BY Covered
<1>2. /\ b \in Nat /\ End(m, b) \in Nat /\ b < End(m, b)
      /\ c \in Nat /\ End(m, c) \in Nat /\ c < End(m, c)
  BY TilesFacts
<1>3. CASE b < c
  <2>1. End(m, b) <= c
    BY <1>3 DEF MemTiles
  <2>2. QED
    BY <1>1, <1>2, <2>1
<1>4. CASE c < b
  <2>1. End(m, c) <= b
    BY <1>4 DEF MemTiles
  <2>2. QED
    BY <1>1, <1>2, <2>1
<1>5. CASE b = c
  BY <1>1, <1>2, <1>5
<1>6. QED
  BY <1>2, <1>3, <1>4, <1>5

(* The first block of a page starts at its second unit.                    *)
LEMMA FirstBlock ==
  ASSUME NEW m, NEW pgs, NEW os, MemTiles(m, pgs, os), NEW a \in pgs
  PROVE  a + 1 \in Blocks(m, os)
<1>1. a \in PageAddrs
  BY DEF MemTiles
<1>2. a \in Nat /\ PageUnits \in Nat /\ PageUnits >= 2
  BY <1>1, UnitsAre
<1>3. a + 1 \in Nat /\ a < a + 1 /\ a + 1 < a + PageUnits
  BY <1>2
<1>4. a + 1 \in Units(a)
  BY <1>1, <1>3, UnitsAre
<1>5. PICK b \in Blocks(m, os) : b <= a + 1 /\ b \in Units(a)
  BY <1>4, Covered
<1>6. b \in Nat /\ a < b
  BY <1>1, <1>5, UnitsAre
<1>7. b = a + 1
  BY <1>2, <1>5, <1>6
<1>8. QED
  BY <1>7

LEMMA ObjectsFinite ==
  ASSUME NEW m, NEW pgs, NEW os, MemTiles(m, pgs, os)
  PROVE  os \subseteq Unit /\ IsFiniteSet(os) /\ \A o \in os : m.size[o] \in Nat
<1>1. ASSUME NEW o \in os PROVE o \in Unit /\ m.size[o] \in Nat
  <2>1. o \in Blocks(m, os)
    BY DEF Blocks
  <2>2. PICK a \in pgs : o \in Units(a)
    BY <2>1, BlockInPage
  <2>3. a \in PageAddrs
    BY DEF MemTiles
  <2>4. o \in Nat /\ a \in Nat /\ PageUnits \in Nat /\ a < o /\ o < a + PageUnits
    BY <2>2, <2>3, UnitsAre
  <2>5. o \in Extent(a, PageUnits)
    BY <2>4 DEF Extent
  <2>6. QED
    BY <2>3, <2>5, UnitAssumption, TilesFacts
<1>2. IsFiniteSet(os)
  BY <1>1, UnitAssumption, FS_Subset
<1>3. QED
  BY <1>1, <1>2

(* The block after b on the list, when that is the next free header above. *)
LEMMA NextOnList ==
  ASSUME NEW m, Circle(m.ptr), NEW b \in DOMAIN m.ptr, NEW c \in DOMAIN m.ptr, b < c,
         \A d \in DOMAIN m.ptr : ~ (b < d /\ d < c)
  PROVE  m.ptr[b] = c
<1>1. m.ptr \in [DOMAIN m.ptr -> DOMAIN m.ptr] /\ DOMAIN m.ptr \subseteq Nat
  BY DEF Circle
<1>2. b \in Nat /\ c \in Nat /\ m.ptr[b] \in Nat /\ m.ptr[b] \in DOMAIN m.ptr
  BY <1>1
<1>3. b < m.ptr[b]
  <2>1. SUFFICES ASSUME m.ptr[b] <= b PROVE FALSE
    BY <1>2
  <2>2. c <= b
    BY <2>1, CircleTurn
  <2>3. QED
    BY <1>2, <2>2
<1>4. ~ (b < c /\ c < m.ptr[b])
  BY <1>3 DEF Circle
<1>5. ~ (b < m.ptr[b] /\ m.ptr[b] < c)
  BY <1>2
<1>6. QED
  BY <1>2, <1>3, <1>4, <1>5

-----------------------------------------------------------------------------
(* Every step keeps the invariant. *)

LEMMA MemMoves ==
  ASSUME base' = base, MemInv(mem', pages', objs')
  PROVE  MemInv(mem, pages, objs)'
BY DEF MemInv, MemTiles

(* There is nothing to say of a sweep when there is none.                  *)
LEMMA NoSweep ==
  ASSUME dead = << >>, phase \notin {"sweep", "walk", "free"}
  PROVE  WalkInv /\ SweepInv
<1>1. WalkInv
  BY DEF WalkInv
<1>2. Len(dead) = 0 /\ 1 .. Len(dead) = {}
  OBVIOUS
<1>3. Dead = {} /\ ~ Sweeping
  BY <1>2 DEF Dead, Sweeping
<1>4. QED
  BY <1>1, <1>2, <1>3 DEF SweepInv

LEMMA NoSweepNext ==
  ASSUME dead' = << >>, phase' \notin {"sweep", "walk", "free"}
  PROVE  WalkInv' /\ SweepInv'
<1>1. WalkInv'
  BY DEF WalkInv
<1>2. Len(dead') = 0 /\ 1 .. Len(dead') = {}
  OBVIOUS
<1>3. Dead' = {} /\ ~ Sweeping'
  BY <1>2 DEF Dead, Sweeping
<1>4. QED
  BY <1>1, <1>2, <1>3 DEF SweepInv

LEMMA InitInv == Init => IInv
<1>1. SUFFICES ASSUME Init PROVE IInv
  OBVIOUS
<1>2. TypeOK
  BY <1>1 DEF Init, TypeOK
<1>3. base \in Nat
  BY <1>1, UnitAssumption DEF Init
<1>4. PICK m, f, s : m = mem /\ f = [b \in {base} |-> base] /\ s = [b \in {base} |-> 0]
  OBVIOUS
<1>5. m = [ptr |-> f, size |-> s, freep |-> base]
  BY <1>1, <1>4 DEF Init
<1>6. m.ptr = f /\ m.size = s /\ m.freep = base /\ m = [ptr |-> m.ptr, size |-> m.size, freep |-> m.freep]
  BY <1>5
<1>7. DOMAIN f = {base} /\ f[base] = base /\ s[base] = 0 /\ s \in [{base} -> Nat]
  BY <1>4
<1>8. Circle(f)
  <2>1. f \in [DOMAIN f -> DOMAIN f] /\ DOMAIN f \subseteq Nat
    BY <1>3, <1>4, <1>7
  <2>2. \A b, c \in DOMAIN f : b = base /\ c = base /\ f[b] = base
    BY <1>7
  <2>3. \E t \in DOMAIN f : f[t] <= t
    BY <1>3, <1>7
  <2>4. QED
    BY <1>3, <2>1, <2>2, <2>3 DEF Circle
<1>9. MemType(m, {})
  BY <1>6, <1>7, <1>8 DEF MemType
<1>10. Free(m) = {} /\ Blocks(m, {}) = {}
  BY <1>6, <1>7 DEF Free, Blocks
<1>11. {b \in DOMAIN m.ptr : m.size[b] = 0} = {} \cup {base}
  BY <1>6, <1>7
<1>12. MemTiles(m, {}, {})
  BY <1>1, <1>9, <1>10, <1>11 DEF MemTiles, Init
<1>13. MemInv(m, {}, {})
  BY <1>10, <1>12 DEF MemInv, Seams
<1>14. MemInv(mem, pages, objs)
  BY <1>1, <1>4, <1>13 DEF Init
<1>15. QED
  BY <1>1, <1>2, <1>14, NoSweep DEF Init, IInv

LEMMA RequestKept ==
  ASSUME IInv, NEW n \in Sizes, Request(n)
  PROVE  IInv'
<1>1. TypeOK'
  BY DEF IInv, TypeOK, Request, sweepVars
<1>2. MemInv(mem', pages', objs') /\ base' = base
  BY DEF IInv, Request
<1>3. dead' = << >> /\ phase' \notin {"sweep", "walk", "free"}
  BY DEF IInv, SweepInv, Request, sweepVars
<1>4. QED
  BY <1>1, <1>2, <1>3, MemMoves, NoSweepNext DEF IInv

LEMMA GrantKept ==
  ASSUME IInv, Grant
  PROVE  IInv'
<1>1. want \in Nat \ {0} /\ phase = "alloc"
  BY SizeAssumption DEF IInv, TypeOK, Grant
<1>2. MemInv(mem, pages, objs) /\ Fitting(mem, want) # {}
  BY DEF IInv, Grant
<1>3. MemInv(heap_alloc(mem, want).mem, pages, objs \cup {heap_alloc(mem, want).at})
  BY <1>1, <1>2, AllocKept
<1>4. MemInv(mem', pages', objs') /\ base' = base
  BY <1>3 DEF Grant
<1>5. TypeOK'
  BY DEF IInv, TypeOK, Grant, sweepVars
<1>6. dead' = << >> /\ phase' \notin {"sweep", "walk", "free"}
  BY <1>1 DEF IInv, SweepInv, Grant, sweepVars
<1>7. QED
  BY <1>4, <1>5, <1>6, MemMoves, NoSweepNext DEF IInv

LEMMA MorecoreKept ==
  ASSUME IInv, heap_morecore, UNCHANGED << base, objs >>
  PROVE  /\ MemInv(mem', pages', objs')
         /\ pages \subseteq pages' /\ pages' \subseteq PageAddrs
         /\ \A o \in objs : mem'.size[o] = mem.size[o]
<1>1. PICK a \in PageAddrs \ pages : mem' = AddPage(mem, a) /\ pages' = pages \cup {a}
  BY DEF heap_morecore
<1>2. MemInv(mem, pages, objs) /\ pages \subseteq PageAddrs
  BY DEF IInv, TypeOK
<1>3. /\ MemInv(AddPage(mem, a), pages \cup {a}, objs)
      /\ \A o \in objs : AddPage(mem, a).size[o] = mem.size[o]
  BY <1>1, <1>2, PageKept
<1>4. QED
  BY <1>1, <1>2, <1>3

LEMMA GrowKept ==
  ASSUME IInv, Grow
  PROVE  IInv'
<1>1. MemInv(mem', pages', objs') /\ base' = base /\ pages \subseteq pages' /\ pages' \subseteq PageAddrs
  BY MorecoreKept DEF Grow
<1>2. TypeOK'
  BY <1>1 DEF IInv, TypeOK, Grow, Fails, sweepVars
<1>3. dead' = << >> /\ phase' \notin {"sweep", "walk", "free"}
  BY DEF IInv, SweepInv, Grow, Fails, sweepVars
<1>4. QED
  BY <1>1, <1>2, <1>3, MemMoves, NoSweepNext DEF IInv

LEMMA PanicKept ==
  ASSUME IInv, pic_panic
  PROVE  IInv'
<1>1. phase \in {"alloc", "sweep"} /\ dead' = dead
  BY DEF pic_panic, Fails, Crowded, sweepVars
<1>2. TypeOK'
  BY DEF IInv, TypeOK, pic_panic, sweepVars
<1>3. MemInv(mem', pages', objs') /\ base' = base
  BY DEF IInv, pic_panic
<1>4. dead' = << >> /\ phase' \notin {"sweep", "walk", "free"}
  BY <1>1 DEF IInv, SweepInv, pic_panic
<1>5. QED
  BY <1>2, <1>3, <1>4, MemMoves, NoSweepNext DEF IInv

(* A sweep begins with nothing seen.                                       *)
LEMMA GcKept ==
  ASSUME IInv, pic_gc
  PROVE  IInv'
<1>1. MemInv(mem', pages', objs') /\ base' = base
  BY DEF IInv, pic_gc
<1>2. phase = "alloc" /\ dead' = << >>
  BY DEF IInv, SweepInv, pic_gc, Fails
<1>3. CASE UNCHANGED << black, left, inuse, phase >>
  <2>1. TypeOK'
    BY <1>3 DEF IInv, TypeOK, pic_gc
  <2>2. phase' \notin {"sweep", "walk", "free"}
    BY <1>2, <1>3
  <2>3. QED
    BY <1>1, <1>2, <2>1, <2>2, MemMoves, NoSweepNext DEF IInv
<1>4. CASE black' \in SUBSET objs /\ left' = pages /\ inuse' = 0 /\ phase' = "sweep"
  <2>1. TypeOK'
    BY <1>2, <1>4 DEF IInv, TypeOK, pic_gc
  <2>2. WalkInv'
    BY <1>4 DEF WalkInv
  <2>3. \A o : ~ Seen(o)'
    BY <1>4 DEF Seen, pic_gc
  <2>4. Len(dead') = 0 /\ 1 .. Len(dead') = {}
    BY <1>2
  <2>5. Dead' = {} /\ Alive' = {}
    BY <2>3, <2>4 DEF Dead, Alive
  <2>6. inuse' = Sum(mem'.size, Alive')
    BY <1>4, <2>5, SumEmpty
  <2>7. SweepInv'
    BY <1>2, <2>3, <2>4, <2>5, <2>6 DEF SweepInv
  <2>8. QED
    BY <1>1, <2>1, <2>2, <2>7, MemMoves DEF IInv
<1>5. QED
  BY <1>3, <1>4 DEF pic_gc

LEMMA EndSweepKept ==
  ASSUME IInv, EndSweep
  PROVE  IInv'
<1>1. dead' = << >> /\ phase = "sweep" /\ phase' \notin {"sweep", "walk", "free"} /\ base' = base
  BY DEF IInv, SweepInv, EndSweep
<1>2. want \in Sizes
  BY <1>1 DEF IInv, TypeOK
<1>3. MemInv(mem', pages', objs') /\ pages \subseteq pages' /\ pages' \subseteq PageAddrs
  <2>1. CASE heap_morecore
    BY <2>1, MorecoreKept DEF EndSweep
  <2>2. CASE UNCHANGED << mem, pages >>
    BY <2>2 DEF IInv, TypeOK, EndSweep
  <2>3. QED
    BY <2>1, <2>2 DEF EndSweep
<1>4. TypeOK'
  BY <1>1, <1>2, <1>3 DEF IInv, TypeOK, EndSweep
<1>5. QED
  BY <1>1, <1>3, <1>4, MemMoves, NoSweepNext DEF IInv

(* What IInv says while a sweep goes on.                                   *)
LEMMA SweepFacts ==
  ASSUME IInv
  PROVE  /\ MemTiles(mem, pages, objs)
         /\ pages \subseteq PageAddrs /\ left \subseteq pages
         /\ base \in BaseAddrs
         /\ \A a \in pages \cup {base} : a \in FreeBlocks /\ mem.size[a] = 0 /\ a \in Nat
         /\ \A c \in FreeBlocks : c \in Nat /\ mem.size[c] \in Nat /\ c \notin objs
                                  /\ (mem.size[c] = 0 => c \in pages \cup {base})
         /\ \A o \in objs : o \in Nat /\ o \in Blocks(mem, objs)
         /\ IsFiniteSet(objs) /\ objs \subseteq Unit /\ \A o \in objs : mem.size[o] \in Nat
<1>1. MemTiles(mem, pages, objs) /\ pages \subseteq PageAddrs /\ left \subseteq pages /\ base \in BaseAddrs
  BY DEF IInv, MemInv, TypeOK
<1>2. {b \in DOMAIN mem.ptr : mem.size[b] = 0} = pages \cup {base}
  BY <1>1 DEF MemTiles
<1>3. /\ DOMAIN mem.ptr \subseteq Nat /\ \A c \in DOMAIN mem.ptr : mem.size[c] \in Nat
      /\ objs \cap DOMAIN mem.ptr = {}
  BY <1>1, TilesFacts
<1>4. \A a \in pages \cup {base} : a \in FreeBlocks /\ mem.size[a] = 0 /\ a \in Nat
  BY <1>2, <1>3 DEF FreeBlocks
<1>5. \A c \in FreeBlocks : c \in Nat /\ mem.size[c] \in Nat /\ c \notin objs
                             /\ (mem.size[c] = 0 => c \in pages \cup {base})
  BY <1>2, <1>3 DEF FreeBlocks
<1>6. IsFiniteSet(objs) /\ objs \subseteq Unit /\ \A o \in objs : mem.size[o] \in Nat
  BY <1>1, ObjectsFinite
<1>7. \A o \in objs : o \in Nat /\ o \in Blocks(mem, objs)
  BY <1>6, UnitAssumption DEF Blocks
<1>8. QED
  BY <1>1, <1>4, <1>5, <1>6, <1>7

(* A step that changes nothing of the memory, neither what the sweep has   *)
(* seen nor what it made of it.                                            *)
LEMMA SameSeen ==
  ASSUME IInv, UNCHANGED << mem, objs, black, dead, inuse >>, Sweeping,
         \A o \in objs : Seen(o)' <=> Seen(o),
         phase' \notin {"walk", "free"} => dead = << >>
  PROVE  SweepInv'
<1>1. SweepInv
  BY DEF IInv
<1>2. Dead' = Dead
  BY DEF Dead
<1>3. Alive' = Alive
  BY <1>2 DEF Alive
<1>4. mem' = mem /\ objs' = objs /\ black' = black /\ dead' = dead /\ inuse' = inuse
  OBVIOUS
<1>5. inuse' = Sum(mem'.size, Alive')
  BY <1>1, <1>3, <1>4 DEF SweepInv
<1>6. \A o \in Dead' : o \in objs' /\ Seen(o)'
  BY <1>1, <1>2, <1>4 DEF SweepInv
<1>7. \A o \in objs' : Seen(o)' => o \notin black'
  BY <1>1, <1>4 DEF SweepInv
<1>8. QED
  BY <1>1, <1>4, <1>5, <1>6, <1>7 DEF SweepInv

LEMMA PageStartKept ==
  ASSUME IInv, NEW a \in PageAddrs, gc_sweep_page(a)
  PROVE  IInv'
<1>1. /\ a \in left /\ left' = left \ {a} /\ page' = a /\ bp' = a /\ p' = After(a)
      /\ dead' = << >> /\ phase' = "walk" /\ phase = "sweep"
      /\ UNCHANGED << base, mem, pages, objs, black, want, stage, inuse >>
  BY DEF gc_sweep_page
<1>2. /\ MemTiles(mem, pages, objs) /\ left \subseteq pages /\ pages \subseteq PageAddrs
      /\ a \in FreeBlocks /\ mem.size[a] = 0 /\ a \in Nat
      /\ \A c \in FreeBlocks : c \in Nat
  BY <1>1, SweepFacts
<1>3. p' = a + 1
  BY <1>1, <1>2 DEF After
<1>4. TypeOK'
  <2>1. dead' \in Seq(Unit)
    BY <1>1
  <2>2. QED
    BY <1>1, <2>1 DEF IInv, TypeOK
<1>5. MemInv(mem', pages', objs')
  BY <1>1 DEF IInv
<1>6. WalkInv'
  <2>1. a + 1 \in Blocks(mem, objs)
    BY <1>1, <1>2, FirstBlock
  <2>2. \A c \in FreeBlocks : ~ (a < c /\ c < a + 1)
    BY <1>2
  <2>3. a \in pages \ left' /\ a + 1 \in Nat /\ a <= a /\ a < a + 1
    BY <1>1, <1>2
  <2>4. FreeBlocks' = FreeBlocks /\ Blocks(mem, objs)' = Blocks(mem, objs)
    BY <1>1 DEF FreeBlocks
  <2>5. QED
    BY <1>1, <1>2, <1>3, <2>1, <2>2, <2>3, <2>4 DEF WalkInv
<1>7. \A o \in objs : Seen(o)' <=> Seen(o)
  <2>1. TAKE o \in objs
  <2>2. Seen(o) <=> \E b \in pages \ left : o \in Units(b)
    BY <1>1 DEF Seen
  <2>3. Seen(o)' <=> \E b \in pages \ (left \ {a}) : o \in Units(b) /\ (b = a => o < a + 1)
    BY <1>1, <1>3 DEF Seen
  <2>4. ~ (o \in Units(a) /\ o < a + 1)
    <3>1. SUFFICES ASSUME o \in Units(a), o < a + 1 PROVE FALSE
      OBVIOUS
    <3>2. o \in Nat /\ a \in Nat /\ a < o
      BY <3>1, UnitsAre
    <3>3. QED
      BY <3>1, <3>2
  <2>5. QED
    BY <1>1, <2>2, <2>3, <2>4
<1>8. dead = << >> /\ Sweeping
  BY <1>1 DEF IInv, SweepInv, Sweeping
<1>9. SweepInv'
  BY <1>1, <1>7, <1>8, SameSeen
<1>10. QED
  BY <1>1, <1>4, <1>5, <1>6, <1>9, MemMoves DEF IInv

(* Over a free block, or over a header that is stepped over, the walk      *)
(* comes to the next block or leaves the page, and past no object.         *)
LEMMA NextFreeKept ==
  ASSUME IInv, NextFree
  PROVE  IInv'
<1>1. /\ phase = "walk" /\ p = mem.ptr[bp] /\ bp' = p /\ p' = After(p)
      /\ UNCHANGED << base, mem, pages, objs, black, want, stage, phase, left, page, dead, inuse >>
  BY DEF NextFree
<1>2. /\ MemTiles(mem, pages, objs) /\ left \subseteq pages /\ pages \subseteq PageAddrs /\ base \in BaseAddrs
      /\ \A c \in FreeBlocks : c \in Nat /\ mem.size[c] \in Nat /\ c \notin objs
                                  /\ (mem.size[c] = 0 => c \in pages \cup {base})
      /\ \A o \in objs : o \in Nat /\ o \in Blocks(mem, objs)
  BY SweepFacts
<1>3. /\ page \in pages \ left
      /\ bp \in FreeBlocks /\ p \in Nat /\ page <= bp /\ bp < p
  BY <1>1 DEF IInv, WalkInv
<1>4. p \in FreeBlocks /\ mem.size[p] \in Nat /\ bp \in Nat /\ page \in Nat /\ page \in PageAddrs
  <2>1. mem.ptr \in [DOMAIN mem.ptr -> DOMAIN mem.ptr]
    BY <1>2, TilesFacts
  <2>2. p \in FreeBlocks
    BY <1>1, <1>3, <2>1 DEF FreeBlocks
  <2>3. QED
    BY <1>2, <1>3, <2>2, UnitAssumption
<1>5. PageUnits \in Nat /\ PageUnits >= 2
  BY SizeAssumption
<1>6. PICK e : e = After(p)
  OBVIOUS
<1>7. e \in Nat /\ p < e /\ (mem.size[p] = 0 => e = p + 1) /\ (mem.size[p] # 0 => e = End(mem, p))
  BY <1>3, <1>4, <1>6 DEF After, End
<1>8. \A c \in FreeBlocks \cup objs : ~ (p < c /\ c < e)
  <2>1. TAKE c \in FreeBlocks \cup objs
  <2>2. c \in Nat
    BY <1>2
  <2>3. CASE mem.size[p] = 0
    BY <1>3, <1>7, <2>2, <2>3
  <2>4. CASE mem.size[p] # 0
    <3>1. p \in Blocks(mem, objs)
      BY <1>4, <2>4 DEF Blocks, Free, FreeBlocks
    <3>2. p < c /\ c < End(mem, p) => c \notin DOMAIN mem.ptr \cup objs
      BY <1>2, <2>2, <3>1, InsideBlock
    <3>3. QED
      BY <1>7, <2>1, <2>4, <3>2 DEF FreeBlocks
  <2>5. QED
    BY <2>3, <2>4
<1>9. TypeOK'
  BY <1>1 DEF IInv, TypeOK
<1>10. MemInv(mem', pages', objs')
  BY <1>1 DEF IInv
<1>11. WalkInv'
  <2>1. FreeBlocks' = FreeBlocks /\ Blocks(mem, objs)' = Blocks(mem, objs)
    BY <1>1 DEF FreeBlocks
  <2>2. page <= p /\ p < e
    BY <1>3, <1>4, <1>7
  <2>3. e < page + PageUnits => e \in Blocks(mem, objs)
    <3>1. SUFFICES ASSUME e < page + PageUnits PROVE e \in Blocks(mem, objs)
      OBVIOUS
    <3>2. page < p /\ p < page + PageUnits /\ page < e
      BY <1>3, <1>4, <1>5, <1>7, <3>1
    <3>3. mem.size[p] # 0
      <4>1. SUFFICES ASSUME mem.size[p] = 0 PROVE FALSE
        OBVIOUS
      <4>2. p \in pages \cup {base}
        BY <1>2, <1>4, <4>1
      <4>3. CASE p = base
        <5>1. base < page \/ page + PageUnits <= base
          BY <1>2, <1>4, BaseApart
        <5>2. QED
          BY <1>3, <1>4, <1>5, <3>2, <4>3, <5>1
      <4>4. CASE p \in pages
        <5>1. p \in PageAddrs /\ p # page
          BY <1>2, <1>3, <1>4, <3>2, <4>4
        <5>2. p + PageUnits <= page \/ page + PageUnits <= p
          BY <1>4, <5>1, PagesApart
        <5>3. QED
          BY <1>3, <1>4, <1>5, <3>2, <5>2
      <4>5. QED
        BY <4>2, <4>3, <4>4
    <3>4. p \in Blocks(mem, objs) /\ e = End(mem, p)
      BY <1>4, <1>7, <3>3 DEF Blocks, Free, FreeBlocks
    <3>5. e \in Units(page)
      BY <1>4, <1>7, <3>1, <3>2, UnitsAre
    <3>6. QED
      BY <1>2, <1>3, <3>4, <3>5, NextBlock
  <2>4. \A c \in FreeBlocks : ~ (p < c /\ c < e)
    BY <1>8
  <2>5. QED
    BY <1>1, <1>3, <1>4, <1>6, <1>7, <2>1, <2>2, <2>3, <2>4 DEF WalkInv
<1>12. \A o \in objs : Seen(o)' <=> Seen(o)
  <2>1. TAKE o \in objs
  <2>2. Seen(o) <=> \E b \in pages \ left : o \in Units(b) /\ (b = page => o < p)
    BY <1>1 DEF Seen
  <2>3. Seen(o)' <=> \E b \in pages \ left : o \in Units(b) /\ (b = page => o < e)
    BY <1>1, <1>6 DEF Seen
  <2>4. o < e <=> o < p
    <3>1. o \in Nat /\ o # p /\ ~ (p < o /\ o < e)
      BY <1>2, <1>4, <1>8
    <3>2. QED
      BY <1>3, <1>7, <3>1
  <2>5. QED
    BY <2>2, <2>3, <2>4
<1>13. SweepInv'
  BY <1>1, <1>12, SameSeen DEF Sweeping
<1>14. QED
  BY <1>1, <1>9, <1>10, <1>11, <1>13, MemMoves DEF IInv

(* Out of the page the walk has seen all of it.                            *)
LEMMA EscapeKept ==
  ASSUME IInv, Escape
  PROVE  IInv'
<1>1. /\ phase = "walk" /\ OutOfPage /\ phase' = "free"
      /\ UNCHANGED << base, mem, pages, objs, black, want, stage, left, page, bp, p, dead, inuse >>
  BY DEF Escape, sweepVars
<1>2. /\ pages \subseteq PageAddrs /\ left \subseteq pages /\ \A c \in FreeBlocks : c \in Nat
      /\ \A o \in objs : o \in Nat
  BY SweepFacts
<1>3. /\ page \in pages \ left
      /\ bp \in FreeBlocks /\ p \in Nat /\ page <= bp /\ bp < p
  BY <1>1 DEF IInv, WalkInv
<1>4. page + PageUnits <= p
  <2>1. page \in Nat /\ bp \in Nat
    BY <1>2, <1>3, UnitAssumption
  <2>2. QED
    BY <1>1, <1>3, <2>1 DEF OutOfPage
<1>5. TypeOK'
  BY <1>1 DEF IInv, TypeOK
<1>6. WalkInv'
  BY <1>1 DEF WalkInv
<1>7. MemInv(mem', pages', objs')
  BY <1>1 DEF IInv
<1>8. \A o \in objs : Seen(o)' <=> Seen(o)
  <2>1. TAKE o \in objs
  <2>2. Seen(o) <=> \E b \in pages \ left : o \in Units(b) /\ (b = page => o < p)
    BY <1>1 DEF Seen
  <2>3. Seen(o)' <=> \E b \in pages \ left : o \in Units(b)
    BY <1>1 DEF Seen
  <2>4. o \in Units(page) => o < p
    <3>1. SUFFICES ASSUME o \in Units(page) PROVE o < p
      OBVIOUS
    <3>2. page \in PageAddrs
      BY <1>2, <1>3
    <3>3. o < page + PageUnits /\ page \in Nat /\ PageUnits \in Nat /\ o \in Nat
      BY <3>1, <3>2, UnitsAre
    <3>4. QED
      BY <1>3, <1>4, <3>3
  <2>5. QED
    BY <2>2, <2>3, <2>4
<1>9. SweepInv'
  BY <1>1, <1>8, SameSeen DEF Sweeping
<1>10. QED
  BY <1>1, <1>5, <1>6, <1>7, <1>9, MemMoves DEF IInv

LEMMA SweptKept ==
  ASSUME IInv, Swept
  PROVE  IInv'
<1>1. /\ phase = "free" /\ dead = << >> /\ phase' = "sweep"
      /\ UNCHANGED << base, mem, pages, objs, black, want, stage, left, dead, inuse >>
  BY DEF Swept
<1>2. TypeOK'
  BY <1>1 DEF IInv, TypeOK
<1>3. WalkInv'
  BY <1>1 DEF WalkInv
<1>4. MemInv(mem', pages', objs')
  BY <1>1 DEF IInv
<1>5. \A o \in objs : Seen(o)' <=> Seen(o)
  BY <1>1 DEF Seen
<1>6. SweepInv'
  BY <1>1, <1>5, SameSeen DEF Sweeping
<1>7. QED
  BY <1>1, <1>2, <1>3, <1>4, <1>6, MemMoves DEF IInv

(* The end of a list and what it gains.                                    *)
LEMMA Appended ==
  ASSUME NEW s \in Seq(Unit), NEW x \in Unit, NEW t, t = Append(s, x),
         \A i, j \in 1 .. Len(s) : i < j => s[i] # s[j],
         \A i \in 1 .. Len(s) : s[i] # x
  PROVE  /\ t \in Seq(Unit)
         /\ \A y : (\E i \in 1 .. Len(t) : y = t[i]) <=> y = x \/ \E i \in 1 .. Len(s) : y = s[i]
         /\ \A i, j \in 1 .. Len(t) : i < j => t[i] # t[j]
<1>1. t \in Seq(Unit) /\ Len(s) \in Nat /\ Len(t) = Len(s) + 1
  OBVIOUS
<1>2. \A i \in 1 .. Len(s) : t[i] = s[i]
  OBVIOUS
<1>3. t[Len(s) + 1] = x
  OBVIOUS
<1>4. 1 .. Len(t) = (1 .. Len(s)) \cup {Len(s) + 1}
  BY <1>1
<1>5. \A y : (\E i \in 1 .. Len(t) : y = t[i]) <=> y = x \/ \E i \in 1 .. Len(s) : y = s[i]
  BY <1>2, <1>3, <1>4
<1>7. ASSUME NEW i \in 1 .. Len(t), NEW j \in 1 .. Len(t), i < j PROVE t[i] # t[j]
  <2>1. i \in 1 .. Len(s)
    BY <1>1, <1>7
  <2>2. CASE j \in 1 .. Len(s)
    BY <1>2, <1>7, <2>1, <2>2
  <2>3. CASE j = Len(s) + 1
    BY <1>2, <1>3, <2>1, <2>3
  <2>4. QED
    BY <1>4, <2>2, <2>3
<1>8. QED
  BY <1>1, <1>5, <1>7

(* The walk is on an object, one it has not come to before: next it comes  *)
(* to the next block or leaves the page.                                   *)
LEMMA VisitWalks ==
  ASSUME IInv, Visit
  PROVE  /\ WalkInv'
         /\ p \in objs /\ ~ Seen(p)
         /\ \A o \in objs : Seen(o)' <=> Seen(o) \/ o = p
<1>1. /\ phase = "walk" /\ p # mem.ptr[bp] /\ ~ OutOfPage /\ p' = p + mem.size[p]
      /\ UNCHANGED << base, mem, pages, objs, want, stage, phase, left, page, bp >>
  BY DEF Visit
<1>2. /\ MemTiles(mem, pages, objs) /\ left \subseteq pages /\ pages \subseteq PageAddrs
      /\ \A c \in FreeBlocks : c \in Nat
      /\ \A o \in objs : o \in Nat /\ o \in Blocks(mem, objs)
  BY SweepFacts
<1>3. /\ page \in pages \ left
      /\ bp \in FreeBlocks /\ p \in Nat /\ page <= bp /\ bp < p
      /\ \A c \in FreeBlocks : ~ (bp < c /\ c < p)
      /\ p < page + PageUnits => p \in Blocks(mem, objs)
  BY <1>1 DEF IInv, WalkInv
<1>4. page \in PageAddrs /\ page \in Nat /\ bp \in Nat /\ PageUnits \in Nat
  BY <1>2, <1>3, UnitAssumption, SizeAssumption
<1>5. page < p /\ p < page + PageUnits
  BY <1>1, <1>3, <1>4 DEF OutOfPage
<1>6. p \in Blocks(mem, objs)
  BY <1>3, <1>5
<1>7. p \notin FreeBlocks
  <2>1. SUFFICES ASSUME p \in FreeBlocks PROVE FALSE
    OBVIOUS
  <2>2. Circle(mem.ptr)
    BY <1>2, TilesFacts
  <2>3. mem.ptr[bp] = p
    BY <1>3, <2>1, <2>2, NextOnList DEF FreeBlocks
  <2>4. QED
    BY <1>1, <2>3
<1>8. p \in objs
  BY <1>6, <1>7 DEF Blocks, Free, FreeBlocks
<1>9. PICK e : e = End(mem, p)
  OBVIOUS
<1>10. e \in Nat /\ p < e /\ p' = e
  BY <1>1, <1>2, <1>6, <1>9, TilesFacts DEF End
<1>11. \A c \in FreeBlocks \cup objs : ~ (p < c /\ c < e)
  <2>1. TAKE c \in FreeBlocks \cup objs
  <2>2. c \in Nat
    BY <1>2
  <2>3. p < c /\ c < End(mem, p) => c \notin DOMAIN mem.ptr \cup objs
    BY <1>2, <1>6, <2>2, InsideBlock
  <2>4. QED
    BY <1>9, <2>1, <2>3 DEF FreeBlocks
<1>12. p \in Units(page)
  BY <1>3, <1>4, <1>5, UnitsAre
<1>13. WalkInv'
  <2>1. FreeBlocks' = FreeBlocks /\ Blocks(mem, objs)' = Blocks(mem, objs)
    BY <1>1 DEF FreeBlocks
  <2>2. \A c \in FreeBlocks : ~ (bp < c /\ c < e)
    <3>1. TAKE c \in FreeBlocks
    <3>2. c # p /\ c \in Nat /\ ~ (bp < c /\ c < p) /\ ~ (p < c /\ c < e)
      BY <1>2, <1>3, <1>7, <1>11
    <3>3. QED
      BY <1>3, <1>10, <3>2
  <2>3. e < page + PageUnits => e \in Blocks(mem, objs)
    <3>1. SUFFICES ASSUME e < page + PageUnits PROVE e \in Blocks(mem, objs)
      OBVIOUS
    <3>2. page < e
      BY <1>3, <1>4, <1>5, <1>10
    <3>3. e \in Units(page)
      BY <1>4, <1>10, <3>1, <3>2, UnitsAre
    <3>4. QED
      BY <1>2, <1>3, <1>6, <1>9, <3>3, NextBlock
  <2>4. bp < e
    BY <1>3, <1>4, <1>10
  <2>5. page' \in pages' \ left' /\ bp' \in FreeBlocks' /\ p' \in Nat /\ page' <= bp' /\ bp' < p'
    BY <1>1, <1>3, <1>10, <2>1, <2>4
  <2>6. \A c \in FreeBlocks' : ~ (bp' < c /\ c < p')
    BY <1>1, <1>10, <2>1, <2>2
  <2>7. p' < page' + PageUnits => p' \in Blocks(mem', objs')
    BY <1>1, <1>10, <2>1, <2>3
  <2>8. QED
    BY <2>5, <2>6, <2>7 DEF WalkInv
<1>14. ~ Seen(p)
  <2>1. SUFFICES ASSUME NEW a \in pages \ left, p \in Units(a), a = page => p < p PROVE FALSE
    BY <1>1 DEF Seen
  <2>2. a = page
    BY <1>2, <1>4, <1>12, <2>1, OnePage
  <2>3. QED
    BY <1>3, <2>1, <2>2
<1>15. \A o \in objs : Seen(o)' <=> Seen(o) \/ o = p
  <2>1. TAKE o \in objs
  <2>2. Seen(o) <=> \E b \in pages \ left : o \in Units(b) /\ (b = page => o < p)
    BY <1>1 DEF Seen
  <2>3. Seen(o)' <=> \E b \in pages \ left : o \in Units(b) /\ (b = page => o < e)
    BY <1>1, <1>10 DEF Seen
  <2>4. o < e <=> o < p \/ o = p
    <3>1. o \in Nat /\ ~ (p < o /\ o < e)
      BY <1>2, <1>11
    <3>2. QED
      BY <1>3, <1>10, <3>1
  <2>5. QED
    BY <1>3, <1>12, <2>2, <2>3, <2>4
<1>16. QED
  BY <1>8, <1>13, <1>14, <1>15

LEMMA VisitKept ==
  ASSUME IInv, Visit
  PROVE  IInv'
<1>1. /\ phase = "walk"
      /\ UNCHANGED << base, mem, pages, objs, want, stage, phase, left, page, bp >>
      /\ \/ p \in black /\ black' = black \ {p} /\ inuse' = inuse + mem.size[p] /\ dead' = dead
         \/ p \notin black /\ dead' = Append(dead, p) /\ black' = black /\ inuse' = inuse
  BY DEF Visit
<1>2. /\ IsFiniteSet(objs) /\ objs \subseteq Unit /\ \A o \in objs : mem.size[o] \in Nat
  BY SweepFacts
<1>3. WalkInv' /\ p \in objs /\ ~ Seen(p) /\ \A o \in objs : Seen(o)' <=> Seen(o) \/ o = p
  BY VisitWalks
<1>4. /\ \A i, j \in 1 .. Len(dead) : i < j => dead[i] # dead[j]
      /\ \A o \in Dead : o \in objs /\ Seen(o)
      /\ \A o \in objs : Seen(o) => o \notin black
      /\ inuse = Sum(mem.size, Alive)
      /\ dead \in Seq(Unit) /\ inuse \in Nat /\ black \subseteq objs
  BY <1>1 DEF IInv, SweepInv, TypeOK, Sweeping
<1>5. p \notin Dead /\ p \notin Alive /\ Alive \subseteq objs
  BY <1>3, <1>4 DEF Alive
<1>6. MemInv(mem', pages', objs')
  BY <1>1 DEF IInv
<1>7. CASE p \in black /\ black' = black \ {p} /\ inuse' = inuse + mem.size[p] /\ dead' = dead
  <2>1. Dead' = Dead
    BY <1>7 DEF Dead
  <2>2. Alive' = Alive \cup {p}
    <3>1. \A o \in Alive' : o \in Alive \cup {p}
      BY <1>1, <1>3, <2>1 DEF Alive
    <3>2. \A o \in Alive \cup {p} : o \in Alive'
      BY <1>1, <1>3, <1>5, <2>1 DEF Alive
    <3>3. QED
      BY <3>1, <3>2
  <2>3. PICK f : f = mem.size
    OBVIOUS
  <2>4. Sum(f, Alive \cup {p}) = f[p] + Sum(f, Alive) /\ f[p] \in Nat
    BY <1>2, <1>3, <1>5, <2>3, SumAdd
  <2>5. inuse' = Sum(mem'.size, Alive') /\ inuse' \in Nat
    <3>1. inuse = Sum(f, Alive) /\ inuse' = inuse + f[p] /\ mem'.size = f
      BY <1>1, <1>4, <1>7, <2>3
    <3>2. QED
      BY <1>4, <2>2, <2>4, <3>1
  <2>6. TypeOK'
    BY <1>1, <1>7, <2>5 DEF IInv, TypeOK
  <2>7. \A o \in Dead' : o \in objs' /\ Seen(o)'
    BY <1>1, <1>3, <1>4, <2>1
  <2>8. \A o \in objs' : Seen(o)' => o \notin black'
    BY <1>1, <1>3, <1>4, <1>7
  <2>9. SweepInv'
    BY <1>1, <1>4, <1>7, <2>5, <2>7, <2>8 DEF SweepInv
  <2>10. QED
    BY <1>1, <1>3, <1>6, <2>6, <2>9, MemMoves DEF IInv
<1>8. CASE p \notin black /\ dead' = Append(dead, p) /\ black' = black /\ inuse' = inuse
  <2>1. \A i \in 1 .. Len(dead) : dead[i] # p
    BY <1>5 DEF Dead
  <2>2. p \in Unit
    BY <1>2, <1>3
  <2>3. /\ dead' \in Seq(Unit)
        /\ \A y : (\E i \in 1 .. Len(dead') : y = dead'[i])
                   <=> y = p \/ \E i \in 1 .. Len(dead) : y = dead[i]
        /\ \A i, j \in 1 .. Len(dead') : i < j => dead'[i] # dead'[j]
    <3>1. PICK s, t : s = dead /\ t = dead'
      OBVIOUS
    <3>2. /\ s \in Seq(Unit) /\ t = Append(s, p)
          /\ \A i, j \in 1 .. Len(s) : i < j => s[i] # s[j]
          /\ \A i \in 1 .. Len(s) : s[i] # p
      BY <1>4, <1>8, <2>1, <3>1
    <3>3. /\ t \in Seq(Unit)
          /\ \A y : (\E i \in 1 .. Len(t) : y = t[i]) <=> y = p \/ \E i \in 1 .. Len(s) : y = s[i]
          /\ \A i, j \in 1 .. Len(t) : i < j => t[i] # t[j]
      BY <2>2, <3>2, Appended
    <3>4. QED
      BY <3>1, <3>3
  <2>4. Dead' = Dead \cup {p}
    <3>1. \A y \in Dead' : y \in Dead \cup {p}
      BY <2>3 DEF Dead
    <3>2. \A y \in Dead \cup {p} : y \in Dead'
      BY <2>3 DEF Dead
    <3>3. QED
      BY <3>1, <3>2
  <2>5. Alive' = Alive
    <3>1. \A o \in Alive' : o \in Alive
      BY <1>1, <1>3, <2>4 DEF Alive
    <3>2. \A o \in Alive : o \in Alive'
      BY <1>1, <1>3, <1>5, <2>4 DEF Alive
    <3>3. QED
      BY <3>1, <3>2
  <2>6. TypeOK'
    BY <1>1, <1>8, <2>3 DEF IInv, TypeOK
  <2>7. \A o \in Dead' : o \in objs' /\ Seen(o)'
    BY <1>1, <1>3, <1>4, <2>4
  <2>8. \A o \in objs' : Seen(o)' => o \notin black'
    BY <1>1, <1>3, <1>4, <1>8
  <2>9. inuse' = Sum(mem'.size, Alive')
    <3>1. mem' = mem
      BY <1>1
    <3>2. QED
      BY <1>4, <1>8, <2>5, <3>1
  <2>10. SweepInv'
    BY <1>1, <2>3, <2>7, <2>8, <2>9 DEF SweepInv
  <2>11. QED
    BY <1>1, <1>3, <1>6, <2>6, <2>10, MemMoves DEF IInv
<1>9. QED
  BY <1>1, <1>7, <1>8

(* The next of the dead goes back to the list, and with it its units.      *)
LEMMA FreeDeadKept ==
  ASSUME IInv, FreeDead
  PROVE  IInv'
<1>1. /\ phase = "free" /\ dead # << >>
      /\ mem' = heap_free(mem, Head(dead)) /\ objs' = objs \ {Head(dead)} /\ dead' = Tail(dead)
      /\ UNCHANGED << base, pages, black, want, stage, phase, left, page, bp, p, inuse >>
  BY DEF FreeDead
<1>2. /\ \A i, j \in 1 .. Len(dead) : i < j => dead[i] # dead[j]
      /\ \A o \in Dead : o \in objs /\ Seen(o)
      /\ \A o \in objs : Seen(o) => o \notin black
      /\ inuse = Sum(mem.size, Alive)
      /\ dead \in Seq(Unit) /\ inuse \in Nat /\ black \subseteq objs
  BY <1>1 DEF IInv, SweepInv, TypeOK, Sweeping
<1>3. PICK b : b = Head(dead)
  OBVIOUS
<1>4. /\ Len(dead) \in Nat /\ Len(dead) > 0 /\ b = dead[1]
      /\ dead' \in Seq(Unit) /\ Len(dead') = Len(dead) - 1
      /\ \A i \in 1 .. Len(dead') : dead'[i] = dead[i + 1]
  BY <1>1, <1>2, <1>3
<1>5. b \in Dead
  BY <1>4 DEF Dead
<1>6. b \in objs /\ Seen(b) /\ b \notin black /\ b \notin Alive
  BY <1>2, <1>5 DEF Alive
<1>7. Dead' = Dead \ {b}
  <2>1. ASSUME NEW o \in Dead' PROVE o \in Dead \ {b}
    <3>1. PICK i \in 1 .. Len(dead') : o = dead'[i]
      BY <2>1 DEF Dead
    <3>2. i + 1 \in 1 .. Len(dead) /\ 1 \in 1 .. Len(dead) /\ 1 < i + 1 /\ o = dead[i + 1]
      BY <1>4, <3>1
    <3>3. dead[1] # dead[i + 1]
      BY <1>2, <3>2
    <3>4. QED
      BY <1>4, <3>2, <3>3 DEF Dead
  <2>2. ASSUME NEW o \in Dead, o # b PROVE o \in Dead'
    <3>1. PICK j \in 1 .. Len(dead) : o = dead[j]
      BY <2>2 DEF Dead
    <3>2. j # 1
      BY <1>4, <2>2, <3>1
    <3>3. j - 1 \in 1 .. Len(dead') /\ dead'[j - 1] = dead[(j - 1) + 1] /\ (j - 1) + 1 = j
      BY <1>4, <3>1, <3>2
    <3>4. dead'[j - 1] = o
      BY <3>1, <3>3
    <3>5. QED
      BY <3>3, <3>4 DEF Dead
  <2>3. QED
    BY <2>1, <2>2
<1>8. \A o : Seen(o)' <=> Seen(o)
  BY <1>1 DEF Seen
<1>9. Alive' = Alive
  <2>1. objs' = objs \ {b}
    BY <1>1, <1>3
  <2>2. objs' \ Dead' = objs \ Dead
    BY <1>5, <1>7, <2>1
  <2>3. QED
    BY <1>8, <2>2 DEF Alive
<1>10. MemInv(mem, pages, objs)
  BY DEF IInv
<1>11. /\ MemInv(heap_free(mem, b), pages, objs \ {b})
       /\ \A o \in objs \ {b} : heap_free(mem, b).size[o] = mem.size[o]
  BY <1>6, <1>10, FreeKept
<1>12. MemInv(mem', pages', objs') /\ \A o \in objs \ {b} : mem'.size[o] = mem.size[o]
  BY <1>1, <1>3, <1>11
<1>13. inuse' = Sum(mem'.size, Alive')
  <2>1. IsFiniteSet(objs) /\ \A o \in objs : mem.size[o] \in Nat
    BY SweepFacts
  <2>2. Alive \subseteq objs \ {b} /\ IsFiniteSet(Alive)
    <3>1. Alive \subseteq objs \ {b}
      BY <1>6 DEF Alive
    <3>2. QED
      BY <2>1, <3>1, FS_Subset
  <2>3. PICK f, g : f = mem.size /\ g = mem'.size
    OBVIOUS
  <2>4. \A o \in Alive : f[o] = g[o] /\ f[o] \in Nat
    BY <1>12, <2>1, <2>2, <2>3
  <2>5. Sum(f, Alive) = Sum(g, Alive)
    BY <2>2, <2>4, SumSame
  <2>6. QED
    BY <1>1, <1>2, <1>9, <2>3, <2>5
<1>14. TypeOK'
  BY <1>1, <1>2, <1>3, <1>4, <1>6 DEF IInv, TypeOK
<1>15. WalkInv'
  BY <1>1 DEF WalkInv
<1>16. \A i, j \in 1 .. Len(dead') : i < j => dead'[i] # dead'[j]
  <2>1. TAKE i, j \in 1 .. Len(dead')
  <2>2. HAVE i < j
  <2>3. i + 1 \in 1 .. Len(dead) /\ j + 1 \in 1 .. Len(dead) /\ i + 1 < j + 1
    BY <1>4, <2>1, <2>2
  <2>4. dead[i + 1] # dead[j + 1]
    BY <1>2, <2>3
  <2>5. QED
    BY <1>4, <2>1, <2>4
<1>17. \A o \in Dead' : o \in objs' /\ Seen(o)'
  BY <1>1, <1>2, <1>3, <1>7, <1>8
<1>18. \A o \in objs' : Seen(o)' => o \notin black'
  BY <1>1, <1>2, <1>8
<1>19. SweepInv'
  BY <1>1, <1>13, <1>16, <1>17, <1>18 DEF SweepInv
<1>20. QED
  BY <1>1, <1>12, <1>14, <1>15, <1>19, MemMoves DEF IInv

LEMMA StutterKept ==
  ASSUME IInv, UNCHANGED vars
  PROVE  IInv'
<1>1. UNCHANGED << base, mem, pages, objs, black, want, stage, phase, left, page, bp, p, dead, inuse >>
  BY DEF vars
<1>2. TypeOK' /\ MemInv(mem', pages', objs')
  BY <1>1 DEF IInv, TypeOK
<1>3. WalkInv'
  BY <1>1 DEF IInv, WalkInv, FreeBlocks
<1>4. \A o : Seen(o)' <=> Seen(o)
  BY <1>1 DEF Seen
<1>5. Dead' = Dead
  BY <1>1 DEF Dead
<1>6. Alive' = Alive
  BY <1>1, <1>4, <1>5 DEF Alive
<1>7. inuse = Sum(mem.size, Alive) => inuse' = Sum(mem'.size, Alive')
  BY <1>1, <1>6
<1>8. SweepInv'
  BY <1>1, <1>4, <1>5, <1>7 DEF IInv, SweepInv, Sweeping
<1>9. QED
  BY <1>1, <1>2, <1>3, <1>8, MemMoves DEF IInv

LEMMA StepKept ==
  ASSUME IInv, [Next]_vars
  PROVE  IInv'
<1>1. ASSUME NEW n \in Sizes, Request(n) PROVE IInv'
  BY <1>1, RequestKept
<1>2. ASSUME NEW a \in PageAddrs, gc_sweep_page(a) PROVE IInv'
  BY <1>2, PageStartKept
<1>3. CASE Grant
  BY <1>3, GrantKept
<1>4. CASE pic_gc
  BY <1>4, GcKept
<1>5. CASE Grow
  BY <1>5, GrowKept
<1>6. CASE pic_panic
  BY <1>6, PanicKept
<1>7. CASE NextFree
  BY <1>7, NextFreeKept
<1>8. CASE Visit
  BY <1>8, VisitKept
<1>9. CASE Escape
  BY <1>9, EscapeKept
<1>10. CASE FreeDead
  BY <1>10, FreeDeadKept
<1>11. CASE Swept
  BY <1>11, SweptKept
<1>12. CASE EndSweep
  BY <1>12, EndSweepKept
<1>13. CASE UNCHANGED vars
  BY <1>13, StutterKept
<1>14. QED
  BY <1>1, <1>2, <1>3, <1>4, <1>5, <1>6, <1>7, <1>8, <1>9, <1>10, <1>11, <1>12, <1>13 DEF Next, Sweep

(* The list is ordered and has no free neighbours, list and objects tile   *)
(* the pages, the walk is at the start of a block, and the sweep knows of  *)
(* all it has passed: always, for any pages and sizes (gc.c 157-267 and    *)
(* 614-728).                                                               *)
THEOREM Invariant == Spec => []IInv
<1>1. Init => IInv
  BY InitInv
<1>2. IInv /\ [Next]_vars => IInv'
  BY StepKept
<1>3. QED
  BY <1>1, <1>2, PTL DEF Spec

-----------------------------------------------------------------------------
(* What the invariant means. *)

LEMMA TypeIs == IInv => TypeOK
  BY DEF IInv

(* The types of all variables, want and the sweep's position included.     *)
THEOREM TypeCorrect == Spec => []TypeOK
  BY Invariant, TypeIs, PTL

LEMMA OrderedIs ==
  ASSUME IInv
  PROVE  ListOrdered
<1>1. MemTiles(mem, pages, objs) /\ pages \cup {base} \subseteq FreeBlocks
  BY SweepFacts
<1>2. Circle(mem.ptr) /\ mem.freep \in DOMAIN mem.ptr
  BY <1>1, TilesFacts
<1>3. PICK f, a : f = mem.ptr /\ a = mem.freep
  OBVIOUS
<1>4. {Walk(f, a)[k] : k \in 1 .. Cardinality(DOMAIN f)} = DOMAIN f
  <2>1. Circle(f) /\ a \in DOMAIN f
    BY <1>2, <1>3
  <2>2. QED
    BY <2>1, CircleWalk
<1>5. Cardinality({b \in DOMAIN f : f[b] <= b}) = 1
  BY <1>2, <1>3, CircleOneTurn
<1>6. Link(mem) = Walk(f, a)
  BY <1>3, LinkIsWalk
<1>7. QED
  BY <1>1, <1>3, <1>4, <1>5, <1>6 DEF ListOrdered, FreeBlocks

(* One circle, through heap->base and every page's header, whose addresses *)
(* go up except at one place: the search for a place in heap_free ends     *)
(* (gc.c 204-215).                                                         *)
THEOREM Ordered == Spec => []ListOrdered
  BY Invariant, OrderedIs, PTL

(* A block lies in the page it begins in.                                  *)
LEMMA BlockOfPage ==
  ASSUME NEW m, NEW pgs, NEW os, MemTiles(m, pgs, os), NEW b \in Blocks(m, os),
         NEW a \in pgs, b \in Units(a)
  PROVE  End(m, b) <= a + PageUnits
<1>1. PICK c \in pgs : b \in Units(c) /\ End(m, b) <= c + PageUnits
  BY BlockInPage
<1>2. a \in PageAddrs /\ c \in PageAddrs
  BY DEF MemTiles
<1>3. a = c
  BY <1>1, <1>2, OnePage
<1>4. QED
  BY <1>1, <1>3

LEMMA TiledIs ==
  ASSUME IInv
  PROVE  Tiled
<1> DEFINE blocks == objs \cup {b \in FreeBlocks : mem.size[b] > 0}
<1>1. MemTiles(mem, pages, objs) /\ pages \subseteq PageAddrs
  BY SweepFacts
<1>2. blocks = Blocks(mem, objs)
  BY DEF Blocks, Free, FreeBlocks
<1>3. objs \cap FreeBlocks = {}
  BY <1>1, TilesFacts DEF FreeBlocks
<1> HIDE DEF blocks
<1>4. \A b \in blocks : /\ b \in Nat /\ mem.size[b] \in Nat /\ mem.size[b] > 0
                        /\ End(mem, b) \in Nat /\ End(mem, b) = b + mem.size[b]
  BY <1>1, <1>2, TilesFacts DEF End
<1>5. ASSUME NEW b \in blocks, NEW u
      PROVE  u \in Extent(b, mem.size[b]) <=> u \in Nat /\ b <= u /\ u < End(mem, b)
  <2>1. b \in Nat /\ mem.size[b] \in Nat /\ End(mem, b) = b + mem.size[b]
    BY <1>4
  <2>2. Extent(b, mem.size[b]) = b .. b + mem.size[b] - 1
    BY DEF Extent
  <2>3. QED
    BY <2>1, <2>2
<1>6. ASSUME NEW a \in pages, NEW b \in blocks, b \in Units(a), NEW u \in Extent(b, mem.size[b])
      PROVE  u \in Units(a)
  <2>1. a \in PageAddrs
    BY <1>1
  <2>2. End(mem, b) <= a + PageUnits
    BY <1>1, <1>2, <1>6, BlockOfPage
  <2>3. u \in Nat /\ b <= u /\ u < End(mem, b)
    BY <1>5
  <2>4. a \in Nat /\ PageUnits \in Nat /\ a < b /\ b \in Nat /\ End(mem, b) \in Nat
    BY <1>4, <1>6, <2>1, UnitsAre
  <2>5. a < u /\ u < a + PageUnits
    BY <2>2, <2>3, <2>4
  <2>6. QED
    BY <2>1, <2>3, <2>5, UnitsAre
<1>7. ASSUME NEW a \in pages
      PROVE  Units(a) = UNION {Extent(b, mem.size[b]) : b \in blocks \cap Units(a)}
  <2>1. ASSUME NEW u \in Units(a)
        PROVE  \E b \in blocks \cap Units(a) : u \in Extent(b, mem.size[b])
    <3>1. PICK b \in Blocks(mem, objs) : b <= u /\ u < End(mem, b) /\ b \in Units(a)
      BY <1>1, Covered
    <3>2. u \in Nat
      BY <1>1, UnitsAre
    <3>3. QED
      BY <1>2, <1>5, <3>1, <3>2
  <2>2. ASSUME NEW b \in blocks \cap Units(a), NEW u \in Extent(b, mem.size[b])
        PROVE  u \in Units(a)
    BY <1>6, <2>2
  <2>3. QED
    BY <2>1, <2>2
<1>8. \A b, c \in blocks : b < c => b + mem.size[b] <= c
  BY <1>1, <1>2 DEF MemTiles, End
<1>9. ASSUME NEW b \in blocks
      PROVE  \E a \in pages : Extent(b, mem.size[b]) \subseteq Units(a)
  <2>1. PICK a \in pages : b \in Units(a)
    BY <1>1, <1>2, BlockInPage
  <2>2. QED
    BY <1>6, <2>1
<1>10. QED
  BY <1>3, <1>7, <1>8, <1>9 DEF Tiled, blocks

(* Every unit a page can give is in exactly one free block or one object.  *)
THEOREM Tiles == Spec => []Tiled
  BY Invariant, TiledIs, PTL

LEMMA SweptAllIs ==
  ASSUME IInv
  PROVE  SweepMeetsAll
<1>1. SUFFICES ASSUME phase = "sweep", left = {}
               PROVE  black = {} /\ inuse = MapThenSumSet(LAMBDA o : mem.size[o], objs)
  BY DEF SweepMeetsAll
<1>2. MemTiles(mem, pages, objs) /\ \A o \in objs : o \in Blocks(mem, objs)
  BY SweepFacts
<1>3. ASSUME NEW o \in objs PROVE Seen(o)
  <2>1. PICK a \in pages : o \in Units(a)
    BY <1>2, <1>3, BlockInPage
  <2>2. QED
    BY <1>1, <2>1 DEF Seen
<1>4. /\ dead = << >> /\ \A o \in objs : Seen(o) => o \notin black
      /\ inuse = Sum(mem.size, Alive) /\ black \subseteq objs
  BY <1>1 DEF IInv, SweepInv, TypeOK, Sweeping
<1>5. Len(dead) = 0 /\ 1 .. Len(dead) = {}
  BY <1>4
<1>6. Dead = {}
  BY <1>5 DEF Dead
<1>7. Alive = objs
  BY <1>3, <1>6 DEF Alive
<1>8. black = {}
  BY <1>3, <1>4
<1>9. QED
  BY <1>4, <1>7, <1>8, SumOfSizes

(* A sweep meets every object exactly once, whatever the marking left and  *)
(* whatever was freed on the way (gc_sweep_page).                          *)
THEOREM SweptAll == Spec => []SweepMeetsAll
  BY Invariant, SweptAllIs, PTL

LEMMA FullIs ==
  ASSUME IInv
  PROVE  FailsOnlyWhenFull
<1>1. SUFFICES ASSUME Fails, Run(want) PROVE FALSE
  BY DEF FailsOnlyWhenFull
<1>2. MemTiles(mem, pages, objs) /\ pages \subseteq PageAddrs
      /\ \A c \in FreeBlocks : c \in Nat
  BY SweepFacts
<1>3. want \in Nat \ {0} /\ Fitting(mem, want) = {}
  BY <1>1, SizeAssumption DEF IInv, TypeOK, Fails
<1>4. \A b \in DOMAIN mem.ptr : mem.size[b] < want
  <2>1. mem.size \in [DOMAIN mem.ptr \cup objs -> Nat]
    BY <1>2 DEF MemTiles, MemType
  <2>2. mem.size \in [DOMAIN mem.size -> Nat] /\ DOMAIN mem.ptr \subseteq DOMAIN mem.size
    BY <2>1
  <2>3. Circle(mem.ptr) /\ mem.freep \in DOMAIN mem.ptr
    BY <1>2, TilesFacts
  <2>4. QED
    BY <1>3, <2>2, <2>3, NoneFitting
<1>5. PICK a \in pages : \E u \in Units(a) :
        /\ Extent(u, want) \subseteq Units(a)
        /\ \A o \in objs : Extent(u, want) \cap Extent(o, mem.size[o]) = {}
  BY <1>1 DEF Run
<1>6. PICK u \in Units(a) :
        /\ Extent(u, want) \subseteq Units(a)
        /\ \A o \in objs : Extent(u, want) \cap Extent(o, mem.size[o]) = {}
  BY <1>5
<1>7. u \in Nat
  BY <1>2, UnitsAre
<1>8. Extent(u, want) = u .. u + want - 1
  BY DEF Extent
<1>9. \A v \in Nat : u <= v /\ v < u + want => v \in Extent(u, want)
  BY <1>3, <1>7, <1>8
<1>10. ASSUME NEW o \in objs, NEW v \in Nat, v \in Extent(u, want), o <= v, v < End(mem, o) PROVE FALSE
  <2>1. o \in Nat /\ mem.size[o] \in Nat
    BY <1>2, TilesFacts
  <2>2. Extent(o, mem.size[o]) = o .. o + mem.size[o] - 1
    BY DEF Extent
  <2>3. v \in Extent(o, mem.size[o])
    BY <1>10, <2>1, <2>2 DEF End
  <2>4. QED
    BY <1>6, <1>10, <2>3
<1>11. PICK b \in Blocks(mem, objs) : b <= u /\ u < End(mem, b)
  BY <1>2, Covered
<1>12. b \in Nat /\ mem.size[b] \in Nat /\ End(mem, b) \in Nat /\ b < End(mem, b) /\ End(mem, b) = b + mem.size[b]
  BY <1>2, TilesFacts DEF End
<1>13. u \in Extent(u, want)
  BY <1>3, <1>7, <1>9
<1>14. b \in Free(mem) /\ b \in DOMAIN mem.ptr
  BY <1>7, <1>10, <1>11, <1>13 DEF Blocks, Free
<1>15. mem.size[b] < want
  BY <1>4, <1>14
<1>16. PICK c : c = End(mem, b)
  OBVIOUS
<1>17. c \in Nat /\ b < c /\ u <= c /\ c < u + want
  BY <1>3, <1>7, <1>11, <1>12, <1>15, <1>16
<1>18. c \in Extent(u, want) /\ c \in Units(a)
  BY <1>6, <1>9, <1>17
<1>19. c \in Blocks(mem, objs)
  BY <1>2, <1>16, <1>18, NextBlock
<1>20. c < End(mem, c)
  BY <1>2, <1>19, TilesFacts
<1>21. c \in Free(mem) /\ c \in DOMAIN mem.ptr
  BY <1>10, <1>17, <1>18, <1>19, <1>20 DEF Blocks, Free
<1>22. \A d \in DOMAIN mem.ptr : ~ (b < d /\ d < c)
  <2>1. TAKE d \in DOMAIN mem.ptr
  <2>2. d \in Nat
    BY <1>2 DEF FreeBlocks
  <2>3. b < d /\ d < End(mem, b) => d \notin DOMAIN mem.ptr \cup objs
    BY <1>2, <2>2, InsideBlock
  <2>4. QED
    BY <1>16, <2>3
<1>23. mem.ptr[b] = c
  <2>1. Circle(mem.ptr)
    BY <1>2, TilesFacts
  <2>2. QED
    BY <1>14, <1>17, <1>21, <1>22, <2>1, NextOnList
<1>24. b \in Seams(mem)
  BY <1>14, <1>16, <1>21, <1>23 DEF Seams
<1>25. QED
  BY <1>24 DEF IInv, MemInv

(* heap_alloc fails only when no page has room: next-fit looks everywhere  *)
(* and free neighbours are always joined (gc.c 178-186 and 218-229).       *)
THEOREM FullFails == Spec => []FailsOnlyWhenFull
  BY Invariant, FullIs, PTL

-----------------------------------------------------------------------------
(* The heap is a block store. *)

Paged == UNION {Units(a) : a \in pages}
Lent == {[at |-> o, len |-> mem.size[o]] : o \in objs}

(* A step that leaves the pages and the sizes of the objects as they are.  *)
LEMMA StoreStays ==
  ASSUME pages' = pages, objs' = objs, \A o \in objs : mem'.size[o] = mem.size[o]
  PROVE  UNCHANGED Store!vars
<1>1. Lent' = Lent
  <2>1. PICK f, g : f = mem.size /\ g = mem'.size
    OBVIOUS
  <2>2. \A o \in objs : f[o] = g[o]
    BY <2>1
  <2>3. {[at |-> o, len |-> f[o]] : o \in objs} = {[at |-> o, len |-> g[o]] : o \in objs}
    <3>1. \A x \in {[at |-> o, len |-> f[o]] : o \in objs} : x \in {[at |-> o, len |-> g[o]] : o \in objs}
      BY <2>2
    <3>2. \A x \in {[at |-> o, len |-> g[o]] : o \in objs} : x \in {[at |-> o, len |-> f[o]] : o \in objs}
      BY <2>2
    <3>3. QED
      BY <3>1, <3>2
  <2>4. QED
    BY <2>1, <2>3 DEF Lent
<1>2. Paged' = Paged
  BY DEF Paged
<1>3. QED
  BY <1>1, <1>2 DEF Store!vars, Lent, Paged

LEMMA GrantStores ==
  ASSUME IInv, Grant
  PROVE  Store!Next
<1>1. want \in Nat \ {0} /\ want \in Sizes
  BY SizeAssumption DEF IInv, TypeOK, Grant
<1>2. MemInv(mem, pages, objs) /\ Fitting(mem, want) # {}
  BY DEF IInv, Grant
<1>3. PICK x, n, new : x = heap_alloc(mem, want).at /\ n = want /\ new = heap_alloc(mem, want).mem
  OBVIOUS
<1>4. mem' = new /\ objs' = objs \cup {x} /\ pages' = pages
  BY <1>3 DEF Grant
<1>5. /\ MemInv(new, pages, objs \cup {x})
      /\ \A o \in objs : new.size[o] = mem.size[o]
      /\ new.size[x] = n /\ x \notin objs
  <2>1. LET r == heap_alloc(mem, want) IN
        /\ MemInv(r.mem, pages, objs \cup {r.at})
        /\ \A o \in objs : r.mem.size[o] = mem.size[o]
        /\ r.mem.size[r.at] = want /\ r.at \notin objs
    BY <1>1, <1>2, AllocKept
  <2>2. QED
    BY <1>3, <2>1
<1>6. MemTiles(new, pages, objs \cup {x}) /\ x \in Blocks(new, objs \cup {x}) /\ pages \subseteq PageAddrs
  BY <1>5 DEF MemInv, Blocks, MemTiles
<1>7. x \in Unit
  BY <1>6, ObjectsFinite
<1>8. PICK b : b = [at |-> x, len |-> n]
  OBVIOUS
<1>9. b \in [at: Unit, len: Sizes] /\ b.at = x /\ b.len = n
  BY <1>1, <1>3, <1>7, <1>8
<1>10. Store!Extent(b) = x .. x + n - 1
  BY <1>9 DEF Store!Extent
<1>11. x \in Nat /\ n \in Nat /\ End(new, x) = x + n
  BY <1>1, <1>3, <1>5, <1>7, UnitAssumption DEF End
<1>12. Store!Extent(b) \subseteq Paged
  <2>1. PICK a \in pages : x \in Units(a) /\ End(new, x) <= a + PageUnits
    BY <1>6, BlockInPage
  <2>2. a \in PageAddrs
    BY <1>6
  <2>3. a \in Nat /\ PageUnits \in Nat /\ a < x
    BY <2>1, <2>2, UnitsAre
  <2>4. ASSUME NEW u \in Store!Extent(b) PROVE u \in Units(a)
    <3>1. u \in Nat /\ x <= u /\ u < x + n
      BY <1>10, <1>11, <2>4
    <3>2. a < u /\ u < a + PageUnits
      BY <1>11, <2>1, <2>3, <3>1
    <3>3. QED
      BY <2>2, <3>1, <3>2, UnitsAre
  <2>5. QED
    BY <2>4 DEF Paged
<1>13. ASSUME NEW o \in objs, NEW c, c = [at |-> o, len |-> mem.size[o]]
       PROVE  Store!Extent(b) \cap Store!Extent(c) = {}
  <2>1. o \in Blocks(new, objs \cup {x}) /\ o # x /\ new.size[o] = mem.size[o]
    BY <1>5 DEF Blocks
  <2>2. o \in Nat /\ new.size[o] \in Nat
    BY <1>6, <2>1, TilesFacts
  <2>3. \A y, z \in Blocks(new, objs \cup {x}) : y < z => End(new, y) <= z
    BY <1>6 DEF MemTiles
  <2>4. End(new, o) = o + new.size[o]
    BY DEF End
  <2>5. o + new.size[o] <= x \/ x + n <= o
    <3>1. o < x => o + new.size[o] <= x
      BY <1>6, <2>1, <2>3, <2>4
    <3>2. x < o => x + n <= o
      BY <1>6, <1>11, <2>1, <2>3
    <3>3. QED
      BY <1>11, <2>1, <2>2, <3>1, <3>2
  <2>6. c.at = o /\ c.len = new.size[o]
    BY <1>13, <2>1
  <2>7. Store!Extent(c) = o .. o + new.size[o] - 1
    BY <2>6 DEF Store!Extent
  <2>8. SUFFICES ASSUME NEW u \in Store!Extent(b), u \in Store!Extent(c) PROVE FALSE
    OBVIOUS
  <2>9. u \in Int /\ x <= u /\ u < x + n /\ o <= u /\ u < o + new.size[o]
    BY <1>10, <1>11, <2>2, <2>7, <2>8
  <2>10. QED
    BY <1>11, <2>2, <2>5, <2>9
<1>14. Store!Extent(b) \subseteq Paged \ UNION {Store!Extent(c) : c \in Lent}
  BY <1>12, <1>13 DEF Lent
<1>15. Lent' = Lent \cup {b}
  <2>1. \A y \in Lent' : y \in Lent \cup {b}
    BY <1>4, <1>5, <1>8 DEF Lent
  <2>2. \A y \in Lent \cup {b} : y \in Lent'
    BY <1>4, <1>5, <1>8 DEF Lent
  <2>3. QED
    BY <2>1, <2>2
<1>16. Store!Allocate(b)
  BY <1>4, <1>9, <1>14, <1>15 DEF Store!Allocate, Store!Used, Lent, Paged
<1>17. QED
  BY <1>1, <1>3, <1>7, <1>8, <1>16 DEF Store!Next

LEMMA FreeStores ==
  ASSUME IInv, FreeDead
  PROVE  Store!Next
<1>1. /\ mem' = heap_free(mem, Head(dead)) /\ objs' = objs \ {Head(dead)} /\ pages' = pages
      /\ dead # << >> /\ dead \in Seq(Unit)
  BY DEF FreeDead, IInv, TypeOK
<1>2. PICK x : x = Head(dead)
  OBVIOUS
<1>3. Len(dead) \in Nat /\ 1 \in 1 .. Len(dead) /\ x = dead[1]
  BY <1>1, <1>2
<1>4. x \in objs
  BY <1>3 DEF IInv, SweepInv, Dead
<1>5. MemInv(mem, pages, objs)
  BY DEF IInv
<1>6. \A o \in objs \ {x} : mem'.size[o] = mem.size[o]
  <2>1. /\ MemInv(heap_free(mem, x), pages, objs \ {x})
        /\ \A o \in objs \ {x} : heap_free(mem, x).size[o] = mem.size[o]
    BY <1>4, <1>5, FreeKept
  <2>2. QED
    BY <1>1, <1>2, <2>1
<1>7. PICK b : b = [at |-> x, len |-> mem.size[x]]
  OBVIOUS
<1>8. b \in Lent
  BY <1>4, <1>7 DEF Lent
<1>9. Lent' = Lent \ {b}
  <2>1. \A y \in Lent' : y \in Lent \ {b}
    BY <1>1, <1>2, <1>6, <1>7 DEF Lent
  <2>2. \A y \in Lent \ {b} : y \in Lent'
    BY <1>1, <1>2, <1>6, <1>7 DEF Lent
  <2>3. QED
    BY <2>1, <2>2
<1>10. Paged' = Paged
  BY <1>1 DEF Paged
<1>11. Store!Release(b)
  BY <1>8, <1>9, <1>10 DEF Store!Release, Lent, Paged
<1>12. QED
  BY <1>8, <1>11 DEF Store!Next, Lent

LEMMA MoreStores ==
  ASSUME IInv, heap_morecore, UNCHANGED << base, objs >>
  PROVE  Store!Next
<1>1. pages \subseteq pages' /\ pages' \subseteq PageAddrs /\ \A o \in objs : mem'.size[o] = mem.size[o]
  BY MorecoreKept
<1>2. Paged \subseteq Paged'
  BY <1>1 DEF Paged
<1>3. ASSUME NEW a \in PageAddrs, NEW u \in Units(a) PROVE u \in Unit
  <2>1. u \in Nat /\ a \in Nat /\ PageUnits \in Nat /\ a < u /\ u < a + PageUnits
    BY UnitsAre
  <2>2. Extent(a, PageUnits) = a .. a + PageUnits - 1
    BY DEF Extent
  <2>3. u \in Extent(a, PageUnits)
    BY <2>1, <2>2
  <2>4. QED
    BY <2>3, UnitAssumption
<1>4. Paged' \subseteq Unit
  BY <1>1, <1>3 DEF Paged, Units
<1>5. Lent' = Lent
  <2>1. \A y \in Lent' : y \in Lent
    BY <1>1 DEF Lent
  <2>2. \A y \in Lent : y \in Lent'
    BY <1>1 DEF Lent
  <2>3. QED
    BY <2>1, <2>2
<1>6. Store!AddPage
  BY <1>2, <1>4, <1>5 DEF Store!AddPage, Lent, Paged
<1>7. QED
  BY <1>6 DEF Store!Next

LEMMA InitStores == Init => Store!Init
<1>1. SUFFICES ASSUME Init PROVE Store!Init
  OBVIOUS
<1>2. Paged = {} /\ Lent = {}
  BY <1>1 DEF Init, Paged, Lent
<1>3. QED
  BY <1>2 DEF Store!Init, Paged, Lent

LEMMA StepStores ==
  ASSUME IInv, [Next]_vars
  PROVE  [Store!Next]_(Store!vars)
<1>1. CASE Grant
  BY <1>1, GrantStores
<1>2. CASE FreeDead
  BY <1>2, FreeStores
<1>3. CASE Grow
  BY <1>3, MoreStores DEF Grow
<1>4. CASE EndSweep /\ Crowded
  BY <1>4, MoreStores DEF EndSweep
<1>5. CASE EndSweep /\ ~ Crowded
  BY <1>5, StoreStays DEF EndSweep
<1>6. ASSUME NEW n \in Sizes, Request(n) PROVE UNCHANGED Store!vars
  BY <1>6, StoreStays DEF Request
<1>7. ASSUME NEW a \in PageAddrs, gc_sweep_page(a) PROVE UNCHANGED Store!vars
  BY <1>7, StoreStays DEF gc_sweep_page
<1>8. CASE pic_gc \/ pic_panic
  BY <1>8, StoreStays DEF pic_gc, pic_panic
<1>9. CASE NextFree \/ Visit \/ Escape \/ Swept
  BY <1>9, StoreStays DEF NextFree, Visit, Escape, Swept
<1>10. CASE UNCHANGED vars
  BY <1>10, StoreStays DEF vars
<1>11. QED
  BY <1>1, <1>2, <1>3, <1>4, <1>5, <1>6, <1>7, <1>8, <1>9, <1>10 DEF Next, Sweep

(* The heap keeps BlockStore's promise: blocks handed out lie in pages and *)
(* overlap no other, for any pages and sizes, and only the sweep takes one *)
(* back.                                                                   *)
THEOREM Implements == Spec => ImplementsStore
<1>1. Init => Store!Init
  BY InitStores
<1>2. IInv /\ [Next]_vars => [Store!Next]_(Store!vars)
  BY StepStores
<1>3. QED
  BY <1>1, <1>2, Invariant, PTL DEF Spec, ImplementsStore, Store!Spec
-----------------------------------------------------------------------------
(* What the store promises is an invariant of every block store, and so of *)
(* the heap.                                                               *)

(* A unit is used when it lies in some block handed out.                   *)
LEMMA UsedUnits == \A b \in Lent : Store!Extent(b) \subseteq Store!Used
  BY DEF Lent, Paged, Store!Used

(* A block is only handed out where no unit is used, so it overlaps none   *)
(* (heap_alloc splits or unlinks a free block).                            *)
LEMMA AllocateDisjoint ==
  ASSUME Store!Disjoint, NEW b, Store!Allocate(b)
  PROVE  Store!Disjoint'
<1>1. /\ Store!Extent(b) \cap Store!Used = {} /\ Store!Extent(b) \subseteq Paged
      /\ Lent' = Lent \cup {b} /\ Paged' = Paged
  BY DEF Lent, Paged, Store!Allocate
<1>2. \A c \in Lent : Store!Extent(b) \cap Store!Extent(c) = {}
  BY <1>1, UsedUnits DEF Lent
<1>3. Store!Used' = Store!Used \cup Store!Extent(b)
  BY <1>1 DEF Lent, Paged, Store!Used, Store!Extent
<1>4. Store!Used' \subseteq Paged'
  BY <1>1, <1>3 DEF Lent, Paged, Store!Disjoint
<1>5. \A c, d \in Lent' : c # d => Store!Extent(c) \cap Store!Extent(d) = {}
  BY <1>1, <1>2 DEF Lent, Paged, Store!Disjoint
<1>6. QED
  BY <1>4, <1>5 DEF Lent, Paged, Store!Disjoint, Store!Extent

(* Every step of a store leaves its blocks apart.                          *)
LEMMA StoreKeepsDisjoint ==
  ASSUME Store!Disjoint, [Store!Next]_(Store!vars)
  PROVE  Store!Disjoint'
<1>1. CASE Store!AddPage
  BY <1>1 DEF Lent, Paged, Store!AddPage, Store!Disjoint, Store!Used, Store!Extent
<1>2. ASSUME NEW a \in Unit, NEW n \in Sizes, Store!Allocate([at |-> a, len |-> n])
      PROVE  Store!Disjoint'
  BY <1>2, AllocateDisjoint
<1>3. ASSUME NEW b \in Lent, Store!Release(b)
      PROVE  Store!Disjoint'
  BY <1>3 DEF Lent, Paged, Store!Release, Store!Disjoint, Store!Used, Store!Extent
<1>4. CASE UNCHANGED Store!vars
  BY <1>4 DEF Lent, Paged, Store!vars, Store!Disjoint, Store!Used, Store!Extent
<1>5. QED
  BY <1>1, <1>2, <1>3, <1>4 DEF Lent, Paged, Store!Next

(* The blocks that heap_alloc hands out never share a unit, and stay       *)
(* inside what the pages can give: no object of the collector overlaps     *)
(* another or the header of a page (gc.c:172-258).                         *)
THEOREM ObjectsApart == Spec => []Store!Disjoint
<1>1. Store!Init => Store!Disjoint
  BY DEF Store!Init, Store!Disjoint, Store!Used
<1>2. Store!Disjoint /\ [Store!Next]_(Store!vars) => Store!Disjoint'
  BY StoreKeepsDisjoint
<1>3. QED
  BY <1>1, <1>2, Implements, PTL DEF ImplementsStore, Store!Spec
=============================================================================
