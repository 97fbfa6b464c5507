------------------------------- MODULE Induction -------------------------------
(***************************************************************************)
(* Induction over the natural numbers for the proofs of this project, as   *)
(* facts about sets: the least element of a set of numbers, the induction  *)
(* principle, what a recursive function that follows links computes (the   *)
(* walks of cont_call, heap_alloc and gc_sweep_page), and that one which   *)
(* goes through a list exists and keeps what its steps keep.               *)
(***************************************************************************)
EXTENDS Naturals, WellFoundedInduction, TLAPS

(* A set of natural numbers that has an element has a least one.           *)
LEMMA NatMin ==
  ASSUME NEW T \in SUBSET Nat, T # {}
  PROVE  \E x \in T : \A y \in T : x <= y
<1> DEFINE R == OpToRel(<, Nat)
<1>1. IsWellFoundedOn(R, Nat)
  BY NatLessThanWellFounded
<1>2. \A x, y \in Nat : y < x => << y, x >> \in R
  BY DEF OpToRel
<1> HIDE DEF R
<1>3. \E x \in T : \A y \in T : ~ (<< y, x >> \in R)
  BY <1>1, WFMin
<1>4. PICK x \in T : \A y \in T : ~ (<< y, x >> \in R)
  BY <1>3
<1>5. \A y \in T : ~ (y < x)
  BY <1>2, <1>4, Zenon
<1>6. QED
  BY <1>5

(* A set that has 0 and the successor of each of its numbers has them all. *)
LEMMA NatInd ==
  ASSUME NEW A \in SUBSET Nat, 0 \in A, \A n \in A : n + 1 \in A
  PROVE  A = Nat
<1>1. SUFFICES ASSUME Nat \ A # {} PROVE FALSE
  OBVIOUS
<1>2. PICK x \in Nat \ A : \A y \in Nat \ A : x <= y
  BY <1>1, NatMin
<1>3. x - 1 \in Nat /\ x - 1 \in A
  BY <1>2
<1>4. QED
  BY <1>2, <1>3

(* The walk from a along the links of g.                                   *)
Walk(g, a) ==
  LET l[k \in Nat] == IF k = 0 THEN a ELSE g[l[k - 1]] IN l

(* The recursive function exists: it starts at a and takes one link at a   *)
(* time.                                                                   *)
LEMMA WalkSteps ==
  ASSUME NEW S, NEW g \in [S -> S], NEW a \in S
  PROVE  /\ Walk(g, a) \in [Nat -> S]
         /\ Walk(g, a)[0] = a
         /\ \A k \in Nat : Walk(g, a)[k + 1] = g[Walk(g, a)[k]]
<1> DEFINE Ok(n, f) == /\ f \in [0 .. n -> S] /\ f[0] = a
                       /\ \A k \in 0 .. n - 1 : f[k + 1] = g[f[k]]
           A == {n \in Nat : \E f : Ok(n, f)}
<1>1. 0 \in A
  <2>1. Ok(0, [k \in 0 .. 0 |-> a])
    OBVIOUS
  <2>2. QED
    BY <2>1
<1>2. \A n \in A : n + 1 \in A
  <2>1. TAKE n \in A
  <2>2. PICK f : Ok(n, f)
    OBVIOUS
  <2> DEFINE h == [k \in 0 .. n + 1 |-> IF k = n + 1 THEN g[f[n]] ELSE f[k]]
  <2>3. Ok(n + 1, h)
    BY <2>2
  <2> HIDE DEF h
  <2>4. QED
    BY <2>3
<1>3. A = Nat
  <2> HIDE DEF A
  <2>1. A \in SUBSET Nat
    BY DEF A
  <2>2. QED
    BY <1>1, <1>2, <2>1, NatInd
<1>4. \A m, n \in Nat : \A f, h : m <= n /\ Ok(m, f) /\ Ok(n, h) => f[m] = h[m]
  <2>1. SUFFICES ASSUME NEW m \in Nat, NEW n \in Nat, NEW f, NEW h,
                        m <= n, Ok(m, f), Ok(n, h)
                 PROVE  f[m] = h[m]
    OBVIOUS
  <2> DEFINE B == {k \in Nat : k <= m => f[k] = h[k]}
  <2>2. 0 \in B
    BY <2>1
  <2>3. \A k \in B : k + 1 \in B
    BY <2>1
  <2>4. B = Nat
    <3> HIDE DEF B
    <3>1. B \in SUBSET Nat
      BY DEF B
    <3>2. QED
      BY <2>2, <2>3, <3>1, NatInd
  <2>5. QED
    BY <2>4
<1> DEFINE W == [n \in Nat |-> CHOOSE f : Ok(n, f)]
           F == [k \in Nat |-> W[k][k]]
<1>5. \A n \in Nat : Ok(n, W[n])
  BY <1>3
<1>6. \A k \in Nat : F[k] = IF k = 0 THEN a ELSE g[F[k - 1]]
  <2>1. TAKE k \in Nat
  <2>2. F[k] = W[k][k]
    OBVIOUS
  <2> HIDE DEF W
  <2>3. CASE k = 0
    BY <2>2, <2>3, <1>5
  <2>4. CASE k # 0
    <3>1. k - 1 \in Nat /\ k - 1 <= k
      BY <2>4
    <3>2. F[k - 1] = W[k - 1][k - 1]
      BY <3>1
    <3>3. Ok(k, W[k]) /\ Ok(k - 1, W[k - 1])
      BY <3>1, <1>5
    <3>4. W[k - 1][k - 1] = W[k][k - 1]
      <4> HIDE DEF Ok
      <4>1. QED
        BY <3>1, <3>3, <1>4
    <3>5. W[k][k] = g[W[k][k - 1]]
      BY <3>1, <3>3
    <3>6. QED
      BY <2>2, <2>4, <3>2, <3>4, <3>5
  <2>5. QED
    BY <2>3, <2>4
<1>7. F = [k \in Nat |-> IF k = 0 THEN a ELSE g[F[k - 1]]]
  <2> DEFINE G == [k \in Nat |-> IF k = 0 THEN a ELSE g[F[k - 1]]]
  <2>1. \A k \in Nat : F[k] = G[k]
    <3> HIDE DEF F
    <3>1. QED
      BY <1>6
  <2>2. F = [k \in Nat |-> F[k]] /\ G = [k \in Nat |-> G[k]]
    OBVIOUS
  <2> HIDE DEF F, G
  <2>3. F = G
    BY <2>1, <2>2
  <2>4. QED
    BY <2>3 DEF G
<1> DEFINE l[k \in Nat] == IF k = 0 THEN a ELSE g[l[k - 1]]
<1>8. l = [k \in Nat |-> IF k = 0 THEN a ELSE g[l[k - 1]]]
  <2> HIDE DEF F
  <2>1. QED
    BY <1>7
<1> HIDE DEF l
<1>9. l[0] = a /\ \A k \in Nat : l[k + 1] = g[l[k]]
  BY <1>8
<1>10. \A k \in Nat : l[k] \in S
  <2> DEFINE C == {k \in Nat : l[k] \in S}
  <2>1. 0 \in C
    BY <1>9
  <2>2. \A k \in C : k + 1 \in C
    BY <1>9
  <2>3. C = Nat
    <3> HIDE DEF C
    <3>1. C \in SUBSET Nat
      BY DEF C
    <3>2. QED
      BY <2>1, <2>2, <3>1, NatInd
  <2>4. QED
    BY <2>3
<1>11. l \in [Nat -> S]
  BY <1>8, <1>10
<1>12. Walk(g, a) = l
  BY DEF Walk, l
<1>13. QED
  BY <1>9, <1>11, <1>12

(* f starts at a and takes n steps of g in U.                              *)
Trace(f, U, n, a, g) ==
  /\ f = [k \in 0 .. n |-> f[k]] /\ f[0] = a
  /\ \A k \in 1 .. n : f[k - 1] \in U /\ f[k] = g[<< k, f[k - 1] >>]

(* A recursive function on 0 .. n exists: it starts at a and takes one     *)
(* step of g at a time (the loops over a list, such as boot.c's collect).  *)
LEMMA FoldExists ==
  ASSUME NEW U, NEW n \in Nat, NEW a \in U, NEW g \in [(1 .. n) \X U -> U]
  PROVE  \E f : Trace(f, U, n, a, g)
<1> DEFINE Ok(m, f) == /\ f = [k \in 0 .. m |-> f[k]] /\ f[0] = a
                       /\ \A k \in 0 .. m : f[k] \in U
                       /\ \A k \in 1 .. m : f[k] = g[<< k, f[k - 1] >>]
           A == {m \in Nat : m <= n => \E f : Ok(m, f)}
<1>1. 0 \in A
  <2>1. Ok(0, [k \in 0 .. 0 |-> a])
    OBVIOUS
  <2>2. QED
    BY <2>1
<1>2. \A m \in A : m + 1 \in A
  <2>1. TAKE m \in A
  <2>2. SUFFICES ASSUME m + 1 <= n PROVE \E f : Ok(m + 1, f)
    OBVIOUS
  <2>3. PICK f : Ok(m, f)
    BY <2>1, <2>2
  <2> DEFINE h == [k \in 0 .. m + 1 |-> IF k = m + 1 THEN g[<< k, f[m] >>] ELSE f[k]]
  <2>4. h = [k \in 0 .. m + 1 |-> h[k]] /\ m \in 0 .. m /\ m + 1 \in 1 .. n /\ m \in Nat
    BY <2>1, <2>2
  <2>5. \A k \in 0 .. m : h[k] = f[k]
    OBVIOUS
  <2>6. h[m + 1] = g[<< m + 1, f[m] >>]
    BY <2>4
  <2> HIDE DEF h
  <2>7. f[m] \in U /\ h[m + 1] \in U /\ h[0] = a
    <3>1. f[m] \in U
      BY <2>3, <2>4
    <3>2. << m + 1, f[m] >> \in (1 .. n) \X U
      BY <2>4, <3>1
    <3>3. h[m + 1] \in U
      BY <2>6, <3>2
    <3>4. 0 \in 0 .. m
      BY <2>4
    <3>5. h[0] = a
      BY <2>3, <2>5, <3>4
    <3>6. QED
      BY <3>1, <3>3, <3>5
  <2>8. \A k \in 0 .. m + 1 : h[k] \in U
    <3>1. TAKE k \in 0 .. m + 1
    <3>2. CASE k = m + 1
      BY <2>7, <3>2
    <3>3. CASE k # m + 1
      <4>1. k \in 0 .. m
        BY <2>4, <3>3
      <4>2. QED
        BY <2>3, <2>5, <4>1
    <3>4. QED
      BY <3>2, <3>3
  <2>9. \A k \in 1 .. m + 1 : h[k] = g[<< k, h[k - 1] >>]
    <3>1. TAKE k \in 1 .. m + 1
    <3>2. CASE k = m + 1
      <4>1. k - 1 = m
        BY <2>4, <3>2
      <4>2. h[m] = f[m]
        BY <2>4, <2>5
      <4>3. QED
        BY <2>6, <3>2, <4>1, <4>2
    <3>3. CASE k # m + 1
      <4>1. k \in 0 .. m /\ k - 1 \in 0 .. m /\ k \in 1 .. m
        BY <2>4, <3>3
      <4>2. QED
        BY <2>3, <2>5, <4>1
    <3>4. QED
      BY <3>2, <3>3
  <2>10. Ok(m + 1, h)
    BY <2>4, <2>7, <2>8, <2>9
  <2>11. QED
    BY <2>10
<1>3. A = Nat
  <2> HIDE DEF A
  <2>1. A \in SUBSET Nat
    BY DEF A
  <2>2. QED
    BY <1>1, <1>2, <2>1, NatInd
<1>4. PICK f : Ok(n, f)
  <2> HIDE DEF Ok
  <2>1. QED
    BY <1>3
<1>5. \A k \in 1 .. n : k - 1 \in 0 .. n
  OBVIOUS
<1>6. Trace(f, U, n, a, g)
  BY <1>4, <1>5 DEF Trace
<1>7. QED
  BY <1>6

(* What holds of its first value and is kept by every step holds of all.   *)
LEMMA FoldIn ==
  ASSUME NEW U, NEW n \in Nat, NEW f, f[0] \in U,
         \A k \in 1 .. n : f[k - 1] \in U => f[k] \in U
  PROVE  \A k \in 0 .. n : f[k] \in U
<1> DEFINE B == {m \in Nat : m <= n => f[m] \in U}
<1>1. 0 \in B
  OBVIOUS
<1>2. \A m \in B : m + 1 \in B
  <2>1. TAKE m \in B
  <2>2. SUFFICES ASSUME m + 1 <= n PROVE f[m + 1] \in U
    OBVIOUS
  <2>3. m + 1 \in 1 .. n /\ (m + 1) - 1 = m /\ m <= n
    BY <2>1, <2>2
  <2>4. QED
    BY <2>1, <2>3
<1>3. B = Nat
  <2>1. B \in SUBSET Nat
    OBVIOUS
  <2> HIDE DEF B
  <2>2. QED
    BY <1>1, <1>2, <2>1, NatInd
<1>4. QED
  BY <1>3

(* The numbers up to n are in a set with 0 and the successors of its own.  *)
LEMMA UpTo ==
  ASSUME NEW n \in Nat, NEW A, 0 \in A, \A k \in 1 .. n : k - 1 \in A => k \in A
  PROVE  \A k \in 0 .. n : k \in A
<1>1. PICK f : f = [k \in 0 .. n |-> k]
  OBVIOUS
<1>2. \A k \in 0 .. n : f[k] = k
  BY <1>1
<1>3. f[0] \in A
  BY <1>2
<1>4. ASSUME NEW k \in 1 .. n, f[k - 1] \in A PROVE f[k] \in A
  <2>1. k \in 0 .. n /\ k - 1 \in 0 .. n
    OBVIOUS
  <2>2. QED
    BY <1>2, <1>4, <2>1
<1>5. \A k \in 0 .. n : f[k] \in A
  BY <1>3, <1>4, FoldIn
<1>6. QED
  BY <1>2, <1>5
=============================================================================
