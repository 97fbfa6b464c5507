------------------------------ MODULE RopeProofs ------------------------------
(***************************************************************************)
(* What holds of ropes, however many strings share them and however deep   *)
(* they are: counts are exact, so that no rope is freed while it is used;  *)
(* windows are in buffers that are kept; and no string changes because     *)
(* another does or because pic_str compresses paths.                       *)
(***************************************************************************)
EXTENDS Rope, Induction, FiniteSetTheorems, SequenceTheorems, TLAPS

-----------------------------------------------------------------------------
(* Memory as a function of addresses, and the pointers of ropes in it. *)

At(m, p) == IF p \in DOMAIN m THEN m[p] ELSE NoRope
One(b) == IF b THEN 1 ELSE 0
Held(c, p) == One(c.owner = p) + One(c.left = p) + One(c.right = p)

Owned(m, p) == {q \in DOMAIN m : m[q].owner = p}
OnLeft(m, p) == {q \in DOMAIN m : m[q].left = p}
OnRight(m, p) == {q \in DOMAIN m : m[q].right = p}
Inner(m, p) == Cardinality(Owned(m, p)) + Cardinality(OnLeft(m, p)) + Cardinality(OnRight(m, p))

(* n is m with c at q. *)
Set(m, n, q, c) ==
  /\ n \in Memory /\ At(n, q) = c
  /\ \A p \in Nat : p # q => At(n, p) = At(m, p)

(* The addresses of a memory. *)
LEMMA Dom == ASSUME NEW m \in Memory PROVE Len(m) \in Nat /\ DOMAIN m = 1 .. Len(m) /\ DOMAIN m \subseteq Nat
              /\ IsFiniteSet(DOMAIN m)
<1>1. Len(m) \in Nat /\ DOMAIN m = 1 .. Len(m)
  BY DEF Memory
<1>2. IsFiniteSet(1 .. Len(m))
  BY <1>1, FS_Interval
<1>3. QED
  BY <1>1, <1>2

(* What is at an address out of use is a rope too. *)
LEMMA NoRopeIn == NoRope \in Ropes
  BY DEF NoRope, Ropes, Pointer

(* At every address is a rope, if only NoRope. *)
LEMMA AtIn == ASSUME NEW m \in Memory, NEW p PROVE At(m, p) \in Ropes
<1>1. CASE p \in DOMAIN m
  BY <1>1 DEF At, Memory
<1>2. CASE p \notin DOMAIN m
  BY <1>2, NoRopeIn DEF At
<1>3. QED
  BY <1>1, <1>2

(* The fields of a rope. *)
LEMMA RopeParts ==
  ASSUME NEW c \in Ropes
  PROVE /\ c.ref \in Nat /\ c.weight \in Nat /\ c.owner \in Pointer /\ c.buf \in Pointer /\ c.off \in Nat
        /\ c.own \in Seq(Char) /\ c.left \in Pointer /\ c.right \in Pointer
  BY DEF Ropes

Put(m, q, c) == [m EXCEPT ![q] = c]

(* Writing at an address of the memory. *)
LEMMA PutSet ==
  ASSUME NEW m, NEW q, NEW c, m \in Memory, q \in DOMAIN m, c \in Ropes
  PROVE  Set(m, Put(m, q, c), q, c) /\ Len(Put(m, q, c)) = Len(m)
<1> DEFINE n == Put(m, q, c)
<1>1. Len(m) \in Nat /\ DOMAIN m = 1 .. Len(m)
  BY Dom
<1>2. n \in Memory /\ Len(n) = Len(m)
  BY <1>1 DEF Memory, Put
<1>3. DOMAIN n = DOMAIN m
  BY DEF Put
<1>4. n[q] = c /\ \A p \in DOMAIN m : p # q => n[p] = m[p]
  BY DEF Put
<1>5. QED
  BY <1>2, <1>3, <1>4 DEF Set, At

(* The pointers of ropes to p can be counted. *)
LEMMA InnerNat ==
  ASSUME NEW m \in Memory, NEW p
  PROVE  /\ IsFiniteSet(Owned(m, p)) /\ IsFiniteSet(OnLeft(m, p)) /\ IsFiniteSet(OnRight(m, p))
         /\ Cardinality(Owned(m, p)) \in Nat /\ Cardinality(OnLeft(m, p)) \in Nat
         /\ Cardinality(OnRight(m, p)) \in Nat /\ Inner(m, p) \in Nat
<1>1. IsFiniteSet(DOMAIN m)
  BY Dom
<1>2. Owned(m, p) \in SUBSET DOMAIN m /\ OnLeft(m, p) \in SUBSET DOMAIN m /\ OnRight(m, p) \in SUBSET DOMAIN m
  BY DEF Owned, OnLeft, OnRight
<1>3. IsFiniteSet(Owned(m, p)) /\ IsFiniteSet(OnLeft(m, p)) /\ IsFiniteSet(OnRight(m, p))
  BY <1>1, <1>2, FS_Subset
<1>4. QED
  BY <1>3, FS_CardinalityType DEF Inner

(* Sets of addresses that differ at most at one. *)
LEMMA OneMore ==
  ASSUME NEW S, NEW T, NEW q, IsFiniteSet(S), \A p : p # q => (p \in S <=> p \in T)
  PROVE  Cardinality(T) + One(q \in S) = Cardinality(S) + One(q \in T) /\ IsFiniteSet(T)
<1>1. CASE q \in S /\ q \in T
  <2>1. S = T
    BY <1>1
  <2>2. QED
    BY <2>1
<1>2. CASE q \in S /\ q \notin T
  <2>1. T = S \ {q}
    BY <1>2
  <2>2. IsFiniteSet(T) /\ Cardinality(T) = Cardinality(S) - 1
    BY <1>2, <2>1, FS_RemoveElement
  <2>3. QED
    BY <1>2, <2>2, FS_CardinalityType DEF One
<1>3. CASE q \notin S /\ q \in T
  <2>1. T = S \cup {q}
    BY <1>3
  <2>2. IsFiniteSet(T) /\ Cardinality(T) = Cardinality(S) + 1
    BY <1>3, <2>1, FS_AddElement
  <2>3. QED
    BY <1>3, <2>2, FS_CardinalityType DEF One
<1>4. CASE q \notin S /\ q \notin T
  <2>1. S = T
    BY <1>4
  <2>2. QED
    BY <2>1
<1>5. QED
  BY <1>1, <1>2, <1>3, <1>4

(* The same sets, read at an address. *)
LEMMA SetsAt ==
  ASSUME NEW m \in Memory, NEW p \in Nat, NEW q
  PROVE  /\ q \in Owned(m, p) <=> At(m, q).owner = p
         /\ q \in OnLeft(m, p) <=> At(m, q).left = p
         /\ q \in OnRight(m, p) <=> At(m, q).right = p
<1>1. NoRope.owner # p /\ NoRope.left # p /\ NoRope.right # p
  BY NilAssumption DEF NoRope
<1>2. QED
  BY <1>1 DEF Owned, OnLeft, OnRight, At

(* How the pointers to p change when the rope at q becomes c. *)
LEMMA InnerSet ==
  ASSUME NEW m, NEW n, NEW q, NEW c, NEW p, m \in Memory, q \in Nat, Set(m, n, q, c), p \in Nat
  PROVE  Inner(n, p) + Held(At(m, q), p) = Inner(m, p) + Held(c, p)
<1>1. n \in Memory /\ At(n, q) = c
  BY DEF Set
<1>2. \A k : k # q => At(n, k) = At(m, k)
  <2>1. TAKE k
  <2>2. HAVE k # q
  <2>3. CASE k \in Nat
    BY <2>2, <2>3 DEF Set
  <2>4. CASE k \notin Nat
    BY <1>1, <2>4, Dom DEF At
  <2>5. QED
    BY <2>3, <2>4
<1>3. /\ Cardinality(Owned(n, p)) + One(q \in Owned(m, p)) = Cardinality(Owned(m, p)) + One(q \in Owned(n, p))
  <2>1. \A k : k # q => (k \in Owned(m, p) <=> k \in Owned(n, p))
    BY <1>1, <1>2, SetsAt
  <2>2. IsFiniteSet(Owned(m, p))
    BY InnerNat
  <2>3. QED
    BY <2>1, <2>2, OneMore
<1>4. /\ Cardinality(OnLeft(n, p)) + One(q \in OnLeft(m, p)) = Cardinality(OnLeft(m, p)) + One(q \in OnLeft(n, p))
  <2>1. \A k : k # q => (k \in OnLeft(m, p) <=> k \in OnLeft(n, p))
    BY <1>1, <1>2, SetsAt
  <2>2. IsFiniteSet(OnLeft(m, p))
    BY InnerNat
  <2>3. QED
    BY <2>1, <2>2, OneMore
<1>5. /\ Cardinality(OnRight(n, p)) + One(q \in OnRight(m, p)) = Cardinality(OnRight(m, p)) + One(q \in OnRight(n, p))
  <2>1. \A k : k # q => (k \in OnRight(m, p) <=> k \in OnRight(n, p))
    BY <1>1, <1>2, SetsAt
  <2>2. IsFiniteSet(OnRight(m, p))
    BY InnerNat
  <2>3. QED
    BY <2>1, <2>2, OneMore
<1>6. /\ One(q \in Owned(m, p)) = One(At(m, q).owner = p) /\ One(q \in Owned(n, p)) = One(c.owner = p)
      /\ One(q \in OnLeft(m, p)) = One(At(m, q).left = p) /\ One(q \in OnLeft(n, p)) = One(c.left = p)
      /\ One(q \in OnRight(m, p)) = One(At(m, q).right = p) /\ One(q \in OnRight(n, p)) = One(c.right = p)
  BY <1>1, SetsAt DEF One
<1>7. \A b \in BOOLEAN : One(b) \in Nat
  BY DEF One
<1>8. QED
  <2>1. \A k : Cardinality(Owned(m, k)) \in Nat /\ Cardinality(OnLeft(m, k)) \in Nat /\ Cardinality(OnRight(m, k)) \in Nat
    BY InnerNat
  <2>2. \A k : Cardinality(Owned(n, k)) \in Nat /\ Cardinality(OnLeft(n, k)) \in Nat /\ Cardinality(OnRight(n, k)) \in Nat
    BY <1>1, InnerNat
  <2>3. \A u, v \in Ropes : One(u.owner = p) \in Nat /\ One(u.left = p) \in Nat /\ One(u.right = p) \in Nat
    BY <1>7
  <2>4. At(m, q) \in Ropes /\ c \in Ropes
    BY <1>1, AtIn
  <2>5. QED
    BY <1>3, <1>4, <1>5, <1>6, <2>1, <2>2, <2>3, <2>4 DEF Inner, Held

-----------------------------------------------------------------------------
(* Counts, and ropes that are sound: x counts the pointers from outside,    *)
(* and h is a height with which what a rope leads to is lower.              *)

Inc(x, r) == [x EXCEPT ![r] = @ + 1]
Dec(x, r) == [x EXCEPT ![r] = @ - 1]
Counts == [Nat -> Nat]

Exact(m, x) == \A p \in Nat : At(m, p).ref = x[p] + Inner(m, p)

Own(c) == c # NoRope /\ c.owner = Nil /\ c.left = Nil

OwnFits(h, q, c) == c.buf = q /\ c.off = 0 /\ c.weight <= Len(c.own) /\ h[q] = 0
WindowFits(m, h, q, c) ==
  /\ Own(At(m, c.owner)) /\ c.buf = c.owner /\ h[c.owner] < h[q]
  /\ c.off + c.weight <= Len(At(m, c.owner).own)
NodeFits(m, h, q, c) ==
  /\ c.owner = Nil /\ c.right # Nil /\ h[c.left] < h[q] /\ h[c.right] < h[q]
  /\ c.weight = At(m, c.left).weight + At(m, c.right).weight

Fits(m, h, q, c) ==
  c # NoRope =>
    /\ c.ref >= 1
    /\ c.left # Nil => NodeFits(m, h, q, c)
    /\ c.left = Nil => c.right = Nil
    /\ c.left = Nil /\ c.owner # Nil => WindowFits(m, h, q, c)
    /\ c.left = Nil /\ c.owner = Nil => OwnFits(h, q, c)

Sound(m, h) == \A q \in Nat : Fits(m, h, q, At(m, q))

Unused(m, q) == \A p \in Nat : At(m, p).owner # q /\ At(m, p).left # q /\ At(m, p).right # q

(* Who points to p is counted. *)
LEMMA HeldInner ==
  ASSUME NEW m, NEW q, NEW p, m \in Memory, q \in Nat, p \in Nat
  PROVE  /\ At(m, q).owner = p => Inner(m, p) >= 1
         /\ At(m, q).left = p => Inner(m, p) >= 1
         /\ At(m, q).right = p => Inner(m, p) >= 1
<1>1. \A S : IsFiniteSet(S) /\ q \in S => Cardinality(S) >= 1
  <2>1. TAKE S
  <2>2. HAVE IsFiniteSet(S) /\ q \in S
  <2>3. Cardinality(S) \in Nat /\ Cardinality(S) # 0
    BY <2>2, FS_EmptySet, FS_CardinalityType
  <2>4. QED
    BY <2>3
<1>2. \A k : /\ IsFiniteSet(Owned(m, k)) /\ IsFiniteSet(OnLeft(m, k)) /\ IsFiniteSet(OnRight(m, k))
             /\ Cardinality(Owned(m, k)) \in Nat /\ Cardinality(OnLeft(m, k)) \in Nat
             /\ Cardinality(OnRight(m, k)) \in Nat
  BY InnerNat
<1>3. At(m, q).owner = p => Cardinality(Owned(m, p)) >= 1
  BY <1>1, <1>2, SetsAt
<1>4. At(m, q).left = p => Cardinality(OnLeft(m, p)) >= 1
  BY <1>1, <1>2, SetsAt
<1>5. At(m, q).right = p => Cardinality(OnRight(m, p)) >= 1
  BY <1>1, <1>2, SetsAt
<1>6. QED
  BY <1>2, <1>3, <1>4, <1>5 DEF Inner

(* To a rope that no pointer is counted for nothing points. *)
LEMMA UnusedIf ==
  ASSUME NEW m, NEW q, m \in Memory, q \in Nat, Inner(m, q) = 0
  PROVE  Unused(m, q)
<1>1. SUFFICES ASSUME NEW p \in Nat PROVE At(m, p).owner # q /\ At(m, p).left # q /\ At(m, p).right # q
  BY DEF Unused
<1>2. /\ At(m, p).owner = q => Inner(m, q) >= 1
      /\ At(m, p).left = q => Inner(m, q) >= 1
      /\ At(m, p).right = q => Inner(m, q) >= 1
  BY HeldInner
<1>3. QED
  BY <1>2

(* A rope with a count is in use. *)
LEMMA UsedIf ==
  ASSUME NEW m, NEW p, m \in Memory, p \in Nat, At(m, p).ref >= 1
  PROVE  At(m, p) # NoRope /\ p \in DOMAIN m /\ At(m, p) = m[p]
<1>1. NoRope.ref = 0
  BY DEF NoRope
<1>2. At(m, p) # NoRope
  BY <1>1
<1>3. QED
  BY <1>2 DEF At

(* A rope that another points to is in use. *)
LEMMA Pointed ==
  ASSUME NEW m, NEW x, NEW q, NEW p, m \in Memory, x \in Counts, Exact(m, x), q \in Nat, p \in Nat,
         At(m, q).owner = p \/ At(m, q).left = p \/ At(m, q).right = p
  PROVE  At(m, p).ref >= 1 /\ At(m, p) # NoRope /\ p \in DOMAIN m /\ At(m, p) = m[p]
<1>1. Inner(m, p) >= 1 /\ Inner(m, p) \in Nat
  BY HeldInner, InnerNat
<1>2. At(m, p).ref = x[p] + Inner(m, p) /\ x[p] \in Nat
  BY DEF Exact, Counts
<1>3. At(m, p).ref >= 1
  BY <1>1, <1>2
<1>4. QED
  BY <1>3, UsedIf

(* A rope that is pointed to from outside is in use. *)
LEMMA Counted ==
  ASSUME NEW m, NEW x, NEW p, m \in Memory, x \in Counts, Exact(m, x), p \in Nat, x[p] >= 1
  PROVE  At(m, p).ref >= 1 /\ At(m, p) # NoRope /\ p \in DOMAIN m /\ At(m, p) = m[p]
<1>1. Inner(m, p) \in Nat
  BY InnerNat
<1>2. At(m, p).ref = x[p] + Inner(m, p) /\ x[p] \in Nat
  BY DEF Exact, Counts
<1>3. At(m, p).ref >= 1
  BY <1>1, <1>2
<1>4. QED
  BY <1>3, UsedIf

(* A cell that nothing points to may change as it likes. *)
LEMMA SoundApart ==
  ASSUME NEW m, NEW n, NEW q, NEW c, NEW h, NEW k, m \in Memory, q \in Nat, Set(m, n, q, c),
         Sound(m, h), Unused(m, q), Fits(n, k, q, c), \A p \in Nat : p # q => k[p] = h[p]
  PROVE  Sound(n, k)
<1>1. SUFFICES ASSUME NEW p \in Nat, p # q PROVE Fits(n, k, p, At(n, p))
  BY DEF Sound, Set
<1>2. At(n, p) = At(m, p) /\ k[p] = h[p]
  BY <1>1 DEF Set
<1>3. Fits(m, h, p, At(m, p))
  BY DEF Sound
<1>4. At(m, p).owner # q /\ At(m, p).left # q /\ At(m, p).right # q
  BY DEF Unused
<1>5. At(m, p).owner \in Pointer /\ At(m, p).left \in Pointer /\ At(m, p).right \in Pointer
  BY AtIn, RopeParts
<1>6. \A b \in Pointer : b # Nil /\ b # q => At(n, b) = At(m, b) /\ k[b] = h[b]
  BY DEF Set, Pointer
<1>7. At(m, p).left # Nil /\ NodeFits(m, h, p, At(m, p)) => NodeFits(n, k, p, At(m, p))
  BY <1>2, <1>4, <1>5, <1>6 DEF NodeFits
<1>8. At(m, p).owner # Nil /\ WindowFits(m, h, p, At(m, p)) => WindowFits(n, k, p, At(m, p))
  BY <1>2, <1>4, <1>5, <1>6 DEF WindowFits
<1>9. OwnFits(h, p, At(m, p)) => OwnFits(k, p, At(m, p))
  BY <1>2 DEF OwnFits
<1>10. QED
  BY <1>2, <1>3, <1>7, <1>8, <1>9 DEF Fits

(* One that others point to keeps what they rely on. *)
Serves(c, d) == c.weight = d.weight /\ (Own(c) => Own(d) /\ Len(c.own) = Len(d.own))

(* A rope that others point to keeps what they rely on. *)
LEMMA SoundSet ==
  ASSUME NEW m, NEW n, NEW q, NEW c, NEW h, m \in Memory, q \in Nat, Set(m, n, q, c),
         Sound(m, h), Serves(At(m, q), c), Fits(n, h, q, c)
  PROVE  Sound(n, h)
<1>1. SUFFICES ASSUME NEW p \in Nat, p # q PROVE Fits(n, h, p, At(n, p))
  BY DEF Sound, Set
<1>2. At(n, p) = At(m, p) /\ At(n, q) = c
  BY <1>1 DEF Set
<1>3. Fits(m, h, p, At(m, p))
  BY DEF Sound
<1>5. At(m, p).owner \in Pointer /\ At(m, p).left \in Pointer /\ At(m, p).right \in Pointer
  BY AtIn, RopeParts
<1>6. \A b \in Pointer : b # Nil => Serves(At(m, b), At(n, b))
  <2>1. TAKE b \in Pointer
  <2>2. HAVE b # Nil
  <2>3. CASE b = q
    BY <1>2, <2>3
  <2>4. CASE b # q
    BY <2>2, <2>4 DEF Set, Pointer, Serves
  <2>5. QED
    BY <2>3, <2>4
<1>7. At(m, p).left # Nil /\ NodeFits(m, h, p, At(m, p)) => NodeFits(n, h, p, At(m, p))
  BY <1>5, <1>6 DEF NodeFits, Serves
<1>8. At(m, p).owner # Nil /\ WindowFits(m, h, p, At(m, p)) => WindowFits(n, h, p, At(m, p))
  BY <1>5, <1>6 DEF WindowFits, Serves
<1>10. QED
  BY <1>2, <1>3, <1>7, <1>8 DEF Fits

(* Counts after a change at one address: from x to y, when q gets c. *)
Moves(m, q, c, x, y) ==
  /\ \A p \in Nat : p # q => y[p] + Held(c, p) = x[p] + Held(At(m, q), p)
  /\ c.ref + Held(At(m, q), q) = y[q] + Inner(m, q) + Held(c, q)

(* Counts stay exact when what one rope loses the others do. *)
LEMMA ExactSet ==
  ASSUME NEW m, NEW n, NEW q, NEW c, NEW x, NEW y, m \in Memory, q \in Nat, Set(m, n, q, c),
         Exact(m, x), x \in Counts, y \in Counts, Moves(m, q, c, x, y)
  PROVE  Exact(n, y)
<1>1. SUFFICES ASSUME NEW p \in Nat PROVE At(n, p).ref = y[p] + Inner(n, p)
  BY DEF Exact
<1>2. Inner(n, p) + Held(At(m, q), p) = Inner(m, p) + Held(c, p)
  BY InnerSet
<1>3. n \in Memory /\ At(n, q) = c
  BY DEF Set
<1>4. Inner(n, p) \in Nat /\ Inner(m, p) \in Nat
  BY <1>3, InnerNat
<1>5. \A d \in Ropes : Held(d, p) \in Nat
  BY DEF Held, One
<1>6. Held(c, p) \in Nat /\ Held(At(m, q), p) \in Nat
  BY <1>3, <1>5, AtIn
<1>7. x[p] \in Nat /\ y[p] \in Nat /\ At(m, p).ref = x[p] + Inner(m, p)
  BY DEF Counts, Exact
<1>8. At(m, p) \in Ropes /\ At(n, p) \in Ropes
  BY <1>3, AtIn
<1>9. At(m, p).ref \in Nat /\ At(n, p).ref \in Nat
  BY <1>8, RopeParts
<1>10. CASE p = q
  BY <1>2, <1>3, <1>4, <1>6, <1>7, <1>9, <1>10 DEF Moves
<1>11. CASE p # q
  <2>1. At(n, p) = At(m, p) /\ y[p] + Held(c, p) = x[p] + Held(At(m, q), p)
    BY <1>11 DEF Set, Moves
  <2>2. QED
    BY <2>1, <1>2, <1>4, <1>6, <1>7
<1>12. QED
  BY <1>10, <1>11

(* Counts that agree everywhere are the same. *)
LEMMA Same ==
  ASSUME NEW x, NEW y, x \in Counts, y \in Counts, \A p \in Nat : x[p] = y[p]
  PROVE  x = y
BY DEF Counts

(* One pointer more from outside. *)
LEMMA IncIn ==
  ASSUME NEW x, NEW r, x \in Counts, r \in Nat
  PROVE  /\ Inc(x, r) \in Counts
         /\ \A p \in Nat : Inc(x, r)[p] = x[p] + One(p = r)
         /\ Inc(x, r)[r] >= 1
  BY DEF Counts, Inc, One

(* One pointer less from outside. *)
LEMMA DecIn ==
  ASSUME NEW x, NEW r, x \in Counts, r \in Nat, x[r] >= 1
  PROVE  /\ Dec(x, r) \in Counts
         /\ \A p \in Nat : Dec(x, r)[p] + One(p = r) = x[p]
  BY DEF Counts, Dec, One

(* One more and one less. *)
LEMMA IncDec ==
  ASSUME NEW x, NEW r, x \in Counts, r \in Nat
  PROVE  Dec(Inc(x, r), r) = x
<1>1. PICK y : y = Inc(x, r)
  OBVIOUS
<1>2. y \in Counts /\ y[r] >= 1 /\ \A p \in Nat : y[p] = x[p] + One(p = r)
  BY <1>1, IncIn
<1>3. Dec(y, r) \in Counts /\ \A p \in Nat : Dec(y, r)[p] + One(p = r) = y[p]
  BY <1>2, DecIn
<1>4. \A p \in Nat : Dec(y, r)[p] = x[p]
  BY <1>2, <1>3 DEF One, Counts
<1>5. QED
  BY <1>1, <1>3, <1>4, Same

(* The order in which pointers come is of no matter. *)
LEMMA IncInc ==
  ASSUME NEW x, NEW r, NEW s, x \in Counts, r \in Nat, s \in Nat
  PROVE  Inc(Inc(x, r), s) = Inc(Inc(x, s), r)
  BY DEF Counts, Inc

-----------------------------------------------------------------------------
(* Fine memory: the count of a rope is the number of its pointers, and      *)
(* ropes are sound.                                                         *)

Fine(m, x, h) == m \in Memory /\ x \in Counts /\ Exact(m, x) /\ h \in Counts /\ Sound(m, h)
OK(m, x) == \E h : Fine(m, x, h)

Alike(c, d) ==
  /\ d.weight = c.weight /\ d.owner = c.owner /\ d.buf = c.buf /\ d.off = c.off
  /\ d.own = c.own /\ d.left = c.left /\ d.right = c.right

Grown(m, n) == \A p \in Nat : At(m, p) # NoRope => At(n, p) # NoRope /\ Alike(At(m, p), At(n, p))

(* Ropes come and stay, twice. *)
LEMMA GrownTwice ==
  ASSUME NEW m, NEW n, NEW k, Grown(m, n), Grown(n, k)
  PROVE  Grown(m, k)
  BY DEF Grown, Alike

(* Nothing happened. *)
LEMMA GrownSelf ==
  ASSUME NEW m
  PROVE  Grown(m, m)
  BY DEF Grown, Alike

(* A used cell points somewhere. *)
LEMMA UsedRef ==
  ASSUME NEW m, NEW x, NEW h, NEW q, Fine(m, x, h), q \in Nat
  PROVE  /\ At(m, q) # NoRope <=> At(m, q).ref >= 1
         /\ At(m, q) # NoRope => q \in DOMAIN m /\ At(m, q) = m[q]
<1>1. At(m, q) # NoRope => At(m, q).ref >= 1
  BY DEF Fine, Sound, Fits
<1>2. m \in Memory
  BY DEF Fine
<1>3. At(m, q).ref >= 1 => At(m, q) # NoRope /\ q \in DOMAIN m /\ At(m, q) = m[q]
  BY <1>2, UsedIf
<1>4. QED
  BY <1>1, <1>3

(* What is like a rope in use but for its count is one. *)
LEMMA AlikeUsed ==
  ASSUME NEW h, NEW m, NEW q, NEW c, NEW d, c # NoRope, Fits(m, h, q, c), c \in Ropes, Alike(c, d), q \in Nat
  PROVE  d # NoRope
<1>1. CASE c.left # Nil
  BY <1>1 DEF Alike, NoRope
<1>2. CASE c.left = Nil /\ c.owner # Nil
  BY <1>2 DEF Alike, NoRope
<1>3. CASE c.left = Nil /\ c.owner = Nil
  <2>1. c.buf = q
    BY <1>3 DEF Fits, OwnFits
  <2>2. QED
    BY <2>1, NilAssumption DEF Alike, NoRope
<1>4. QED
  BY <1>1, <1>2, <1>3

(* Only the count of a cell changes. *)
LEMMA RefSet ==
  ASSUME NEW m, NEW n, NEW q, NEW c, NEW h, m \in Memory, q \in Nat, Set(m, n, q, c), Sound(m, h), h \in Counts,
         At(m, q) # NoRope, Alike(At(m, q), c), c.ref >= 1
  PROVE  Sound(n, h) /\ Grown(m, n) /\ c # NoRope
<1>1. n \in Memory /\ At(n, q) = c
  BY DEF Set
<1>2. Fits(m, h, q, At(m, q)) /\ At(m, q) \in Ropes
  BY AtIn DEF Sound
<1>3. c # NoRope
  BY <1>2, AlikeUsed
<1>4. Grown(m, n)
  BY <1>1, <1>3 DEF Grown, Set, Alike
<1>5. Serves(At(m, q), c)
  BY <1>3 DEF Serves, Alike, Own
<1>6. \A b \in Nat : b # q => At(n, b) = At(m, b)
  BY DEF Set
<1>7. At(m, q).owner \in Pointer /\ At(m, q).left \in Pointer /\ At(m, q).right \in Pointer
  BY AtIn, RopeParts
<1>8. h[q] \in Nat
  BY DEF Counts
<1>9. At(m, q).left # Nil /\ NodeFits(m, h, q, At(m, q)) => NodeFits(n, h, q, c)
  <2>1. HAVE At(m, q).left # Nil /\ NodeFits(m, h, q, At(m, q))
  <2>2. At(m, q).left # q /\ At(m, q).right # q
    BY <1>8, <2>1 DEF NodeFits
  <2>3. At(m, q).left \in Nat /\ At(m, q).right \in Nat
    BY <1>7, <2>1 DEF NodeFits, Pointer
  <2>4. QED
    BY <1>6, <2>1, <2>2, <2>3 DEF NodeFits, Alike
<1>10. At(m, q).owner # Nil /\ WindowFits(m, h, q, At(m, q)) => WindowFits(n, h, q, c)
  <2>1. HAVE At(m, q).owner # Nil /\ WindowFits(m, h, q, At(m, q))
  <2>2. At(m, q).owner # q /\ At(m, q).owner \in Nat
    BY <1>7, <1>8, <2>1 DEF WindowFits, Pointer
  <2>3. QED
    BY <1>6, <2>1, <2>2 DEF WindowFits, Alike
<1>11. OwnFits(h, q, At(m, q)) => OwnFits(h, q, c)
  BY DEF OwnFits, Alike
<1>12. Fits(n, h, q, c)
  BY <1>2, <1>9, <1>10, <1>11 DEF Fits, Alike
<1>13. Sound(n, h)
  BY <1>5, <1>12, SoundSet
<1>14. QED
  BY <1>3, <1>4, <1>13

(* Ropes alike hold the same pointers. *)
LEMMA AlikeHeld ==
  ASSUME NEW c, NEW d, Alike(c, d)
  PROVE  \A p : Held(d, p) = Held(c, p)
  BY DEF Alike, Held

(* The pointers that a rope holds, as a number. *)
LEMMA HeldNat == \A c \in Ropes : \A p : Held(c, p) \in Nat
  BY DEF Held, One

(* NoRope holds none. *)
LEMMA HeldNone == \A p \in Nat : Held(NoRope, p) = 0
  BY NilAssumption DEF Held, One, NoRope

(* A node holds its children. *)
LEMMA NodeHeld ==
  ASSUME NEW c, c.owner = Nil
  PROVE  \A p \in Nat : Held(c, p) = One(c.left = p) + One(c.right = p)
<1>1. \A p \in Nat : One(c.owner = p) = 0
  BY NilAssumption DEF One
<1>2. \A p \in Nat : One(c.left = p) \in Nat /\ One(c.right = p) \in Nat
  BY DEF One
<1>3. QED
  BY <1>1, <1>2 DEF Held

(* A leaf holds its owner. *)
LEMMA LeafHeld ==
  ASSUME NEW c, c.left = Nil, c.right = Nil
  PROVE  \A p \in Nat : Held(c, p) = One(c.owner = p)
<1>1. \A p \in Nat : One(c.left = p) = 0 /\ One(c.right = p) = 0
  BY NilAssumption DEF One
<1>2. \A p \in Nat : One(c.owner = p) \in Nat
  BY DEF One
<1>3. QED
  BY <1>1, <1>2 DEF Held

Ref(c, k) == [c EXCEPT !.ref = k]

(* A rope with another count. *)
LEMMA WithRef ==
  ASSUME NEW c, NEW k, c \in Ropes, k \in Nat
  PROVE  Ref(c, k) \in Ropes /\ Alike(c, Ref(c, k)) /\ Ref(c, k).ref = k
  BY DEF Ropes, Alike, Ref

(* pic_rope_incref gives the rope one pointer from outside. *)
LEMMA Incref ==
  ASSUME NEW m, NEW x, NEW h, NEW r, Fine(m, x, h), r \in Nat, At(m, r) # NoRope
  PROVE  /\ Fine(pic_rope_incref(m, r), Inc(x, r), h) /\ Grown(m, pic_rope_incref(m, r))
         /\ Len(pic_rope_incref(m, r)) = Len(m)
         /\ Set(m, pic_rope_incref(m, r), r, Ref(m[r], m[r].ref + 1))
<1>1. m \in Memory /\ x \in Counts /\ Exact(m, x) /\ h \in Counts /\ Sound(m, h)
  BY DEF Fine
<1>2. r \in DOMAIN m /\ At(m, r) = m[r] /\ At(m, r).ref >= 1
  BY UsedRef
<1>3. m[r] \in Ropes /\ m[r].ref \in Nat
  BY <1>1, <1>2, AtIn, RopeParts
<1> DEFINE c == Ref(m[r], m[r].ref + 1)
<1>4. c \in Ropes /\ Alike(m[r], c) /\ c.ref = m[r].ref + 1
  <2>1. m[r].ref + 1 \in Nat
    BY <1>3
  <2>2. QED
    BY <1>3, <2>1, WithRef
<1>5. pic_rope_incref(m, r) = Put(m, r, c)
  BY DEF pic_rope_incref, Put, Ref
<1> HIDE DEF c
<1>6. PICK n : n = Put(m, r, c)
  OBVIOUS
<1>7. Set(m, n, r, c) /\ Len(n) = Len(m)
  BY <1>1, <1>2, <1>4, <1>6, PutSet
<1>8. Sound(n, h) /\ Grown(m, n)
  <2>1. c.ref >= 1
    BY <1>3, <1>4
  <2>2. Alike(At(m, r), c)
    BY <1>2, <1>4
  <2>3. QED
    BY <1>1, <1>7, <2>1, <2>2, RefSet
<1>9. Exact(n, Inc(x, r))
  <2>1. Inc(x, r) \in Counts /\ \A p \in Nat : Inc(x, r)[p] = x[p] + One(p = r)
    BY <1>1, IncIn
  <2>2. \A p \in Nat : p # r => Inc(x, r)[p] + Held(c, p) = x[p] + Held(At(m, r), p)
    <3>1. TAKE p \in Nat
    <3>2. HAVE p # r
    <3>3. Held(c, p) = Held(At(m, r), p)
      BY <1>2, <1>4, AlikeHeld
    <3>4. Inc(x, r)[p] = x[p]
      BY <1>1, <2>1, <3>2 DEF One, Counts
    <3>5. QED
      BY <3>3, <3>4
  <2>3. c.ref + Held(At(m, r), r) = Inc(x, r)[r] + Inner(m, r) + Held(c, r)
    <3>1. Held(c, r) = Held(At(m, r), r) /\ Held(c, r) \in Nat
      BY <1>2, <1>4, AlikeHeld, HeldNat
    <3>2. Inc(x, r)[r] = x[r] + 1 /\ x[r] \in Nat
      BY <1>1, <2>1 DEF One, Counts
    <3>3. At(m, r).ref = x[r] + Inner(m, r) /\ Inner(m, r) \in Nat
      BY <1>1, InnerNat DEF Exact
    <3>4. QED
      BY <1>2, <1>4, <3>1, <3>2, <3>3
  <2>4. Moves(m, r, c, x, Inc(x, r))
    BY <2>2, <2>3 DEF Moves
  <2>5. QED
    BY <1>1, <1>7, <2>1, <2>4, ExactSet
<1>10. n \in Memory
  BY <1>7 DEF Set
<1>11. Inc(x, r) \in Counts
  BY <1>1, IncIn
<1>12. Fine(n, Inc(x, r), h)
  BY <1>1, <1>8, <1>9, <1>10, <1>11 DEF Fine
<1>13. QED
  BY <1>5, <1>6, <1>7, <1>8, <1>12 DEF c

-----------------------------------------------------------------------------
(* New ropes. *)

(* malloc finds an address that is not in use. *)
LEMMA NewIs ==
  ASSUME NEW m, m \in Memory
  PROVE  New(m) \in Nat /\ New(m) \in 1 .. Len(m) + 1 /\ At(m, New(m)) = NoRope
<1>1. Len(m) \in Nat /\ DOMAIN m = 1 .. Len(m)
  BY Dom
<1>2. Len(m) + 1 \in 1 .. Len(m) + 1 /\ Len(m) + 1 \notin Used(m)
  BY <1>1 DEF Used
<1>3. New(m) \in 1 .. Len(m) + 1 /\ New(m) \notin Used(m)
  BY <1>2 DEF New
<1>4. At(m, New(m)) = NoRope
  BY <1>3 DEF At, Used
<1>5. QED
  BY <1>1, <1>3, <1>4

(* The new rope is where malloc found room. *)
LEMMA MadeSet ==
  ASSUME NEW m, NEW r, NEW c, m \in Memory, r \in 1 .. Len(m) + 1, c \in Ropes
  PROVE  /\ Made(m, r, c).rope = r /\ Set(m, Made(m, r, c).mem, r, c)
<1>1. Len(m) \in Nat /\ DOMAIN m = 1 .. Len(m)
  BY Dom
<1>2. Made(m, r, c).rope = r
  BY DEF Made
<1>3. CASE r \in DOMAIN m
  <2>1. Made(m, r, c).mem = Put(m, r, c)
    BY <1>3 DEF Made, Put
  <2>2. Set(m, Put(m, r, c), r, c)
    BY <1>3, PutSet
  <2>3. QED
    BY <1>2, <2>1, <2>2
<1>4. CASE r \notin DOMAIN m
  <2>1. r = Len(m) + 1
    BY <1>1, <1>4
  <2>2. PICK n : n = Append(m, c)
    OBVIOUS
  <2>3. Made(m, r, c).mem = n
    BY <1>4, <2>2 DEF Made
  <2>4. m \in Seq(Ropes)
    BY DEF Memory
  <2>5. n \in Seq(Ropes) /\ Len(n) = Len(m) + 1 /\ n[Len(m) + 1] = c /\ \A p \in 1 .. Len(m) : n[p] = m[p]
    BY <2>2, <2>4, AppendProperties
  <2>6. n \in Memory /\ DOMAIN n = 1 .. Len(m) + 1
    BY <2>5, Dom DEF Memory
  <2>7. At(n, r) = c
    BY <1>1, <2>1, <2>5, <2>6 DEF At
  <2>8. \A p \in Nat : p # r => At(n, p) = At(m, p)
    <3>1. TAKE p \in Nat
    <3>2. HAVE p # r
    <3>3. CASE p \in 1 .. Len(m)
      <4>1. p \in DOMAIN n /\ p \in DOMAIN m /\ n[p] = m[p]
        BY <1>1, <2>5, <2>6, <3>3
      <4>2. QED
        BY <4>1 DEF At
    <3>4. CASE p \notin 1 .. Len(m)
      <4>1. p \notin DOMAIN n /\ p \notin DOMAIN m
        BY <1>1, <2>1, <2>6, <3>2, <3>4
      <4>2. QED
        BY <4>1 DEF At
    <3>5. QED
      BY <3>3, <3>4
  <2>9. QED
    BY <1>2, <2>3, <2>6, <2>7, <2>8 DEF Set
<1>5. QED
  BY <1>3, <1>4

(* Nothing points to an address out of use. *)
LEMMA Free ==
  ASSUME NEW m, NEW x, NEW h, NEW r, Fine(m, x, h), r \in Nat, At(m, r) = NoRope
  PROVE  Unused(m, r) /\ x[r] = 0 /\ Inner(m, r) = 0
<1>1. m \in Memory /\ x \in Counts /\ Exact(m, x)
  BY DEF Fine
<1>2. At(m, r).ref = 0
  BY DEF NoRope
<1>3. At(m, r).ref = x[r] + Inner(m, r) /\ x[r] \in Nat /\ Inner(m, r) \in Nat
  BY <1>1, InnerNat DEF Exact, Counts
<1>4. x[r] = 0 /\ Inner(m, r) = 0
  BY <1>2, <1>3
<1>5. QED
  BY <1>1, <1>4, UnusedIf

Beside(r, h, k) == \A p \in Nat : p # r => k[p] = h[p]

Passes(r, c, x, y) == \A p \in Nat : p # r => y[p] + Held(c, p) = x[p]

(* A new rope takes over the pointers it holds. *)
LEMMA NewRope ==
  ASSUME NEW m, NEW n, NEW x, NEW y, NEW h, NEW k, NEW r, NEW c,
         Fine(m, x, h), r \in Nat, At(m, r) = NoRope, Set(m, n, r, c), c # NoRope, c.ref = 1,
         Held(c, r) = 0, y \in Counts, y[r] = 1, Passes(r, c, x, y),
         k \in Counts, Beside(r, h, k), Fits(n, k, r, c)
  PROVE  Fine(n, y, k) /\ Grown(m, n)
<1>1. m \in Memory /\ x \in Counts /\ Exact(m, x) /\ h \in Counts /\ Sound(m, h)
  BY DEF Fine
<1>2. Unused(m, r) /\ x[r] = 0 /\ Inner(m, r) = 0
  BY Free
<1>3. Sound(n, k)
  BY <1>1, <1>2, SoundApart DEF Beside
<1>4. n \in Memory /\ At(n, r) = c
  BY DEF Set
<1>5. Exact(n, y)
  <2>1. \A p \in Nat : Held(At(m, r), p) = 0
    BY HeldNone
  <2>2. \A p \in Nat : p # r => y[p] + Held(c, p) = x[p] + Held(At(m, r), p)
    BY <1>1, <2>1 DEF Counts, Passes
  <2>3. c.ref + Held(At(m, r), r) = y[r] + Inner(m, r) + Held(c, r)
    BY <1>2, <2>1
  <2>4. Moves(m, r, c, x, y)
    BY <2>2, <2>3 DEF Moves
  <2>5. QED
    BY <1>1, <2>4, ExactSet
<1>6. Grown(m, n)
  BY DEF Grown, Set, Alike
<1>7. QED
  BY <1>3, <1>4, <1>5, <1>6 DEF Fine

(* The fields of a leaf. *)
LEMMA LeafIn ==
  ASSUME NEW buf, NEW off, NEW len, NEW owner, NEW own, buf \in Nat, off \in Nat, len \in Nat,
         owner \in Pointer, own \in Seq(Char)
  PROVE  /\ Leaf(buf, off, len, owner, own) \in Ropes
         /\ Leaf(buf, off, len, owner, own) # NoRope
         /\ Leaf(buf, off, len, owner, own).ref = 1
         /\ Leaf(buf, off, len, owner, own).weight = len
         /\ Leaf(buf, off, len, owner, own).owner = owner
         /\ Leaf(buf, off, len, owner, own).buf = buf
         /\ Leaf(buf, off, len, owner, own).off = off
         /\ Leaf(buf, off, len, owner, own).own = own
         /\ Leaf(buf, off, len, owner, own).left = Nil
         /\ Leaf(buf, off, len, owner, own).right = Nil
  BY DEF Leaf, Ropes, Pointer, NoRope

(* The fields of a node. *)
LEMMA NodeIn ==
  ASSUME NEW weight, NEW left, NEW right, weight \in Nat, left \in Nat, right \in Nat
  PROVE  /\ Node(weight, left, right) \in Ropes
         /\ Node(weight, left, right) # NoRope
         /\ Node(weight, left, right).ref = 1
         /\ Node(weight, left, right).weight = weight
         /\ Node(weight, left, right).owner = Nil
         /\ Node(weight, left, right).left = left
         /\ Node(weight, left, right).right = right
<1>1. << >> \in Seq(Char)
  OBVIOUS
<1>2. QED
  BY <1>1 DEF Node, Ropes, Pointer, NoRope

(* A string of characters of its own. *)
LEMMA Value ==
  ASSUME NEW m, NEW x, NEW h, NEW t, Fine(m, x, h), t \in Seq(Char)
  PROVE  LET v == pic_str_value(m, t) IN
         /\ v.rope \in Nat /\ At(m, v.rope) = NoRope /\ Set(m, v.mem, v.rope, Leaf(v.rope, 0, Len(t), Nil, t))
         /\ Grown(m, v.mem)
         /\ Fine(v.mem, Inc(x, v.rope), [h EXCEPT ![v.rope] = 0])
<1>1. m \in Memory /\ x \in Counts /\ h \in Counts
  BY DEF Fine
<1>2. PICK r : r = New(m)
  OBVIOUS
<1>3. r \in Nat /\ r \in 1 .. Len(m) + 1 /\ At(m, r) = NoRope
  BY <1>1, <1>2, NewIs
<1>4. PICK c : c = Leaf(r, 0, Len(t), Nil, t)
  OBVIOUS
<1>5. Len(t) \in Nat /\ 0 \in Nat /\ Nil \in Pointer
  BY DEF Pointer
<1>6. /\ c \in Ropes /\ c # NoRope /\ c.ref = 1 /\ c.weight = Len(t) /\ c.owner = Nil /\ c.buf = r /\ c.off = 0
      /\ c.own = t /\ c.left = Nil /\ c.right = Nil
  BY <1>3, <1>4, <1>5, LeafIn
<1>7. PICK n : n = Made(m, r, c).mem
  OBVIOUS
<1>8. Made(m, r, c).rope = r /\ Set(m, n, r, c)
  BY <1>1, <1>3, <1>6, <1>7, MadeSet
<1>9. pic_str_value(m, t) = Made(m, r, c)
  BY <1>2, <1>4 DEF pic_str_value
<1>10. \A p \in Nat : Held(c, p) = 0
  <2>1. \A p \in Nat : Held(c, p) = One(c.owner = p)
    BY <1>6, LeafHeld
  <2>2. QED
    BY <1>6, <2>1, NilAssumption DEF One
<1>11. Inc(x, r) \in Counts /\ \A p \in Nat : Inc(x, r)[p] = x[p] + One(p = r)
  BY <1>1, <1>3, IncIn
<1>12. x[r] = 0
  BY <1>3, Free
<1>13. Inc(x, r)[r] = 1 /\ Passes(r, c, x, Inc(x, r))
  <2>1. Inc(x, r)[r] = 1
    BY <1>3, <1>11, <1>12 DEF One
  <2>2. ASSUME NEW p \in Nat, p # r PROVE Inc(x, r)[p] + Held(c, p) = x[p]
    <3>1. x[p] \in Nat
      BY <1>1 DEF Counts
    <3>2. Inc(x, r)[p] = x[p]
      BY <1>11, <2>2, <3>1 DEF One
    <3>3. QED
      BY <1>10, <3>1, <3>2
  <2>3. QED
    BY <2>1, <2>2 DEF Passes
<1> DEFINE k == [h EXCEPT ![r] = 0]
<1>14. k \in Counts /\ k[r] = 0 /\ Beside(r, h, k)
  BY <1>1, <1>3 DEF Counts, Beside
<1> HIDE DEF k
<1>15. Fits(n, k, r, c)
  BY <1>5, <1>6, <1>14 DEF Fits, OwnFits
<1>16. Held(c, r) = 0
  BY <1>3, <1>10
<1>17. Fine(n, Inc(x, r), k) /\ Grown(m, n)
  BY <1>3, <1>6, <1>8, <1>11, <1>13, <1>14, <1>15, <1>16, NewRope
<1>18. QED
  BY <1>3, <1>4, <1>7, <1>8, <1>9, <1>17 DEF k

(* A rope in use stays, alike. *)
LEMMA Used1 ==
  ASSUME NEW m, NEW n, NEW p, Grown(m, n), p \in Nat, At(m, p) # NoRope
  PROVE  At(n, p) # NoRope /\ Alike(At(m, p), At(n, p))
  BY DEF Grown

(* A new rope v, and the memory m with it: one more count to give. *)
Gives(m, x, v) == v.rope \in Nat /\ Grown(m, v.mem) /\ OK(v.mem, Inc(x, v.rope))

(* A constructor that gives a rope with one count. *)
LEMMA GivesIf ==
  ASSUME NEW m, NEW x, NEW v, NEW h, NEW n, NEW r, v.rope = r, v.mem = n, r \in Nat, Grown(m, n),
         Fine(n, Inc(x, r), h)
  PROVE  Gives(m, x, v)
  BY DEF Gives, OK

(* The owner whose characters a leaf is a window on. *)
LEMMA LeafOwner ==
  ASSUME NEW m, NEW x, NEW h, NEW r, NEW o, Fine(m, x, h), r \in Nat, At(m, r) # NoRope, At(m, r).left = Nil,
         o = IF At(m, r).owner # Nil THEN At(m, r).owner ELSE r
  PROVE  /\ o \in Nat /\ At(m, o) # NoRope /\ Own(At(m, o)) /\ At(m, o).buf = o /\ At(m, o).off = 0 /\ h[o] = 0
         /\ At(m, r).weight <= Len(At(m, o).own) /\ At(m, r).buf = o
         /\ At(m, r).off + At(m, r).weight <= Len(At(m, o).own)
<1>1. m \in Memory /\ x \in Counts /\ Sound(m, h) /\ h \in Counts
  BY DEF Fine
<1>2. Fits(m, h, r, At(m, r))
  BY <1>1 DEF Sound
<1>3. At(m, r) \in Ropes
  BY <1>1, AtIn
<1>4. At(m, r).owner \in Pointer /\ At(m, r).off \in Nat /\ At(m, r).weight \in Nat
  BY <1>3, RopeParts
<1>5. CASE At(m, r).owner = Nil
  <2>1. o = r /\ OwnFits(h, r, At(m, r)) /\ Own(At(m, r))
    BY <1>2, <1>5 DEF Fits, Own
  <2>2. At(m, r).buf = r /\ At(m, r).off = 0 /\ At(m, r).weight <= Len(At(m, r).own) /\ h[r] = 0
    BY <2>1 DEF OwnFits
  <2>3. QED
    BY <1>4, <2>1, <2>2
<1>6. CASE At(m, r).owner # Nil
  <2>1. o = At(m, r).owner /\ o \in Nat /\ WindowFits(m, h, r, At(m, r))
    BY <1>2, <1>4, <1>6 DEF Fits, Pointer
  <2>2. Own(At(m, o)) /\ At(m, r).buf = o /\ At(m, r).off + At(m, r).weight <= Len(At(m, o).own)
    BY <2>1 DEF WindowFits
  <2>3. At(m, o) # NoRope /\ At(m, o).owner = Nil /\ At(m, o).left = Nil
    BY <2>2 DEF Own
  <2>4. OwnFits(h, o, At(m, o))
    BY <1>1, <2>1, <2>3 DEF Sound, Fits
  <2>5. At(m, o).own \in Seq(Char)
    <3>1. At(m, o) \in Ropes
      BY <1>1, AtIn
    <3>2. QED
      BY <3>1, RopeParts
  <2>6. Len(At(m, o).own) \in Nat
    BY <2>5, LenProperties
  <2>7. At(m, r).weight <= Len(At(m, o).own)
    BY <1>4, <2>2, <2>6
  <2>8. QED
    BY <2>1, <2>2, <2>3, <2>4, <2>7 DEF OwnFits
<1>7. QED
  BY <1>5, <1>6

(* make_rope_slice gives a window within the owner's characters. *)
LEMMA Slice ==
  ASSUME NEW m, NEW x, NEW h, NEW r, NEW i, NEW j, Fine(m, x, h), r \in Nat, At(m, r) # NoRope,
         At(m, r).left = Nil, i \in Nat, j \in Nat, i <= j, j <= At(m, r).weight
  PROVE  Gives(m, x, make_rope_slice(m, r, i, j))
<1>1. m \in Memory /\ x \in Counts /\ h \in Counts
  BY DEF Fine
<1>2. r \in DOMAIN m /\ At(m, r) = m[r]
  BY UsedRef
<1>3. PICK o : o = IF At(m, r).owner # Nil THEN At(m, r).owner ELSE r
  OBVIOUS
<1>4. /\ o \in Nat /\ At(m, o) # NoRope /\ Own(At(m, o)) /\ At(m, o).buf = o /\ At(m, o).off = 0
      /\ At(m, r).weight <= Len(At(m, o).own) /\ h[o] = 0
  BY <1>3, LeafOwner
<1>5. At(m, o) = m[o]
  BY <1>4, UsedRef
<1>6. PICK n : n = pic_rope_incref(m, o)
  OBVIOUS
<1>7. Fine(n, Inc(x, o), h) /\ Grown(m, n)
  BY <1>4, <1>6, Incref
<1>8. n \in Memory
  BY <1>7 DEF Fine
<1>9. PICK s : s = New(n)
  OBVIOUS
<1>10. s \in Nat /\ s \in 1 .. Len(n) + 1 /\ At(n, s) = NoRope
  BY <1>8, <1>9, NewIs
<1>11. PICK c : c = Leaf(o, i, j - i, o, << >>)
  OBVIOUS
<1>12. /\ c \in Ropes /\ c # NoRope /\ c.ref = 1 /\ c.weight = j - i /\ c.owner = o /\ c.buf = o /\ c.off = i
       /\ c.left = Nil /\ c.right = Nil
  <2>1. \E w : w = j - i /\ w \in Nat
    OBVIOUS
  <2>2. PICK w : w = j - i /\ w \in Nat
    BY <2>1
  <2>3. o \in Pointer
    BY <1>4 DEF Pointer
  <2>4. \E e : e = << >> /\ e \in Seq(Char)
    <3>1. << >> \in Seq(Char)
      OBVIOUS
    <3>2. QED
      BY <3>1, Zenon
  <2>5. PICK e : e = << >> /\ e \in Seq(Char)
    BY <2>4
  <2>6. c = Leaf(o, i, w, o, e)
    BY <1>11, <2>2, <2>5
  <2>7. w \in Nat /\ e \in Seq(Char)
    BY <2>2, <2>5
  <2>8. /\ c \in Ropes /\ c # NoRope /\ c.ref = 1 /\ c.weight = w /\ c.owner = o /\ c.buf = o /\ c.off = i
        /\ c.left = Nil /\ c.right = Nil
    BY <1>4, <2>3, <2>6, <2>7, LeafIn
  <2>9. QED
    BY <2>2, <2>8
<1>13. PICK v : v = Made(n, s, c)
  OBVIOUS
<1>14. v.rope = s /\ Set(n, v.mem, s, c)
  BY <1>8, <1>10, <1>12, <1>13, MadeSet
<1>15. make_rope_slice(m, r, i, j) = v
  <2>1. o = IF m[r].owner # Nil THEN m[r].owner ELSE r
    BY <1>2, <1>3
  <2>2. m[o].off + i = i /\ m[o].buf = o
    BY <1>4, <1>5
  <2>3. c = Leaf(m[o].buf, m[o].off + i, j - i, o, << >>)
    BY <1>11, <2>2
  <2>4. QED
    BY <1>6, <1>9, <1>13, <2>1, <2>3 DEF make_rope_slice
<1>16. At(n, o) # NoRope /\ Alike(At(m, o), At(n, o))
  BY <1>4, <1>7, Used1
<1>17. s # o
  BY <1>10, <1>16
<1>18. \A p \in Nat : Held(c, p) = One(o = p)
  BY <1>12, LeafHeld
<1>19. Inc(x, s) \in Counts /\ Inc(x, o) \in Counts
       /\ \A p \in Nat : Inc(x, s)[p] = x[p] + One(p = s) /\ Inc(x, o)[p] = x[p] + One(p = o)
  BY <1>1, <1>4, <1>10, IncIn
<1>20. Inc(x, s)[s] = 1 /\ Held(c, s) = 0 /\ Passes(s, c, Inc(x, o), Inc(x, s))
  <2>1. Inc(x, o)[s] = 0
    BY <1>7, <1>10, Free
  <2>2. x[s] = 0
    BY <1>1, <1>10, <1>17, <1>19, <2>1 DEF One, Counts
  <2>3. One(o = s) = 0 /\ One(s = s) = 1
    BY <1>17 DEF One
  <2>4. Passes(s, c, Inc(x, o), Inc(x, s))
    <3>1. SUFFICES ASSUME NEW p \in Nat, p # s PROVE Inc(x, s)[p] + Held(c, p) = Inc(x, o)[p]
      BY DEF Passes
    <3>2. x[p] \in Nat /\ One(p = s) = 0 /\ One(o = p) = One(p = o) /\ One(p = o) \in Nat
      BY <1>1, <3>1 DEF Counts, One
    <3>3. Inc(x, s)[p] = x[p] /\ Inc(x, o)[p] = x[p] + One(p = o) /\ Held(c, p) = One(p = o)
      BY <1>18, <1>19, <3>2
    <3>4. QED
      BY <3>2, <3>3
  <2>5. QED
    BY <1>10, <1>18, <1>19, <2>2, <2>3, <2>4
<1> DEFINE k == [h EXCEPT ![s] = 1]
<1>21. k \in Counts /\ k[s] = 1 /\ Beside(s, h, k)
  BY <1>1, <1>10 DEF Counts, Beside
<1> HIDE DEF k
<1>22. Fits(v.mem, k, s, c)
  <2>1. At(v.mem, o) = At(n, o)
    BY <1>4, <1>14, <1>17 DEF Set
  <2>2. Own(At(n, o)) /\ At(n, o).own = At(m, o).own
    BY <1>4, <1>16 DEF Own, Alike
  <2>3. k[o] = 0
    BY <1>4, <1>17, <1>21 DEF Beside
  <2>4. At(m, r).weight \in Nat /\ Len(At(m, o).own) \in Nat
    <3>1. At(m, r) \in Ropes /\ At(m, o) \in Ropes
      BY <1>1, AtIn
    <3>2. QED
      BY <3>1, RopeParts, LenProperties
  <2>5. i + (j - i) <= Len(At(m, o).own)
    BY <1>4, <2>4
  <2>6. WindowFits(v.mem, k, s, c)
    BY <1>12, <1>21, <2>1, <2>2, <2>3, <2>5 DEF WindowFits
  <2>7. o # Nil
    BY <1>4, NilAssumption
  <2>8. QED
    BY <1>12, <2>6, <2>7 DEF Fits
<1>23. Fine(v.mem, Inc(x, s), k) /\ Grown(n, v.mem)
  BY <1>7, <1>10, <1>12, <1>14, <1>19, <1>20, <1>21, <1>22, NewRope
<1>24. Grown(m, v.mem)
  BY <1>7, <1>23, GrownTwice
<1>25. Gives(m, x, v)
  BY <1>10, <1>14, <1>23, <1>24, GivesIf
<1>26. QED
  BY <1>15, <1>25

(* make_rope_node gives a node of the two. *)
LEMMA Joint ==
  ASSUME NEW m, NEW x, NEW h, NEW left, NEW right, Fine(m, x, h), left \in Nat, At(m, left) # NoRope,
         right \in Nat, At(m, right) # NoRope
  PROVE  LET v == make_rope_node(m, left, right) IN
         /\ Gives(m, x, v) /\ At(v.mem, v.rope).left = left /\ At(v.mem, v.rope).right = right
         /\ At(v.mem, v.rope).weight = At(m, left).weight + At(m, right).weight
<1>1. m \in Memory /\ x \in Counts /\ h \in Counts
  BY DEF Fine
<1>2. At(m, left) = m[left] /\ At(m, right) = m[right]
  BY UsedRef
<1>3. PICK l : l = pic_rope_incref(m, left)
  OBVIOUS
<1>4. Fine(l, Inc(x, left), h) /\ Grown(m, l)
  BY <1>3, Incref
<1>5. At(l, left) # NoRope /\ Alike(At(m, left), At(l, left)) /\ At(l, right) # NoRope /\ Alike(At(m, right), At(l, right))
  BY <1>4, Used1
<1>6. PICK n : n = pic_rope_incref(l, right)
  OBVIOUS
<1>7. Fine(n, Inc(Inc(x, left), right), h) /\ Grown(l, n)
  BY <1>4, <1>5, <1>6, Incref
<1>8. n \in Memory /\ Grown(m, n)
  BY <1>4, <1>7, GrownTwice DEF Fine
<1>9. /\ At(n, left) # NoRope /\ Alike(At(m, left), At(n, left))
      /\ At(n, right) # NoRope /\ Alike(At(m, right), At(n, right))
  BY <1>8, Used1
<1>10. PICK s : s = New(n)
  OBVIOUS
<1>11. s \in Nat /\ s \in 1 .. Len(n) + 1 /\ At(n, s) = NoRope
  BY <1>8, <1>10, NewIs
<1>12. At(m, left).weight \in Nat /\ At(m, right).weight \in Nat
  <2>1. At(m, left) \in Ropes /\ At(m, right) \in Ropes
    BY <1>1, AtIn
  <2>2. QED
    BY <2>1, RopeParts
<1>13. PICK c : c = Node(At(m, left).weight + At(m, right).weight, left, right)
  OBVIOUS
<1>14. /\ c \in Ropes /\ c # NoRope /\ c.ref = 1 /\ c.weight = At(m, left).weight + At(m, right).weight
       /\ c.owner = Nil /\ c.left = left /\ c.right = right
  <2>1. At(m, left).weight + At(m, right).weight \in Nat
    BY <1>12
  <2>2. QED
    BY <1>13, <2>1, NodeIn
<1>15. PICK v : v = Made(n, s, c)
  OBVIOUS
<1>16. v.rope = s /\ Set(n, v.mem, s, c)
  BY <1>8, <1>11, <1>14, <1>15, MadeSet
<1>17. make_rope_node(m, left, right) = v
  BY <1>2, <1>3, <1>6, <1>10, <1>13, <1>15 DEF make_rope_node
<1>18. s # left /\ s # right
  BY <1>9, <1>11
<1>19. \A p \in Nat : Held(c, p) = One(left = p) + One(right = p)
  BY <1>14, NodeHeld
<1>20. PICK y, z : y = Inc(x, left) /\ z = Inc(y, right)
  OBVIOUS
<1>21. y \in Counts /\ \A p \in Nat : y[p] = x[p] + One(p = left)
  BY <1>1, <1>20, IncIn
<1>22. z \in Counts /\ \A p \in Nat : z[p] = y[p] + One(p = right)
  BY <1>20, <1>21, IncIn
<1>23. Inc(x, s) \in Counts /\ \A p \in Nat : Inc(x, s)[p] = x[p] + One(p = s)
  BY <1>1, <1>11, IncIn
<1>24. Fine(n, z, h)
  BY <1>7, <1>20
<1>25. Inc(x, s)[s] = 1 /\ Held(c, s) = 0 /\ Passes(s, c, z, Inc(x, s))
  <2>1. z[s] = 0
    BY <1>11, <1>24, Free
  <2>2. One(s = left) = 0 /\ One(s = right) = 0 /\ One(left = s) = 0 /\ One(right = s) = 0 /\ One(s = s) = 1
    BY <1>18 DEF One
  <2>3. x[s] = 0
    BY <1>1, <1>11, <1>21, <1>22, <2>1, <2>2 DEF Counts
  <2>4. \A p \in Nat : One(left = p) = One(p = left) /\ One(right = p) = One(p = right) /\ One(p = left) \in Nat
          /\ One(p = right) \in Nat
    BY DEF One
  <2>5. \A p \in Nat : p # s => One(p = s) = 0
    BY DEF One
  <2>6. Passes(s, c, z, Inc(x, s))
    <3>1. SUFFICES ASSUME NEW p \in Nat, p # s PROVE Inc(x, s)[p] + Held(c, p) = z[p]
      BY DEF Passes
    <3>2. x[p] \in Nat
      BY <1>1 DEF Counts
    <3>3. Inc(x, s)[p] = x[p]
      BY <1>23, <2>5, <3>1, <3>2
    <3>4. z[p] = x[p] + One(p = left) + One(p = right)
      BY <1>21, <1>22, <2>4, <3>2
    <3>5. One(left = p) = One(p = left) /\ One(right = p) = One(p = right)
      BY DEF One
    <3>6. Held(c, p) = One(p = left) + One(p = right)
      BY <1>19, <3>5
    <3>7. QED
      BY <2>4, <3>2, <3>3, <3>4, <3>6
  <2>7. QED
    BY <1>11, <1>19, <1>23, <2>2, <2>3, <2>6
<1> DEFINE k == [h EXCEPT ![s] = h[left] + h[right] + 1]
<1>26. k \in Counts /\ k[s] = h[left] + h[right] + 1 /\ Beside(s, h, k) /\ h[left] \in Nat /\ h[right] \in Nat
  <2>1. h[left] \in Nat /\ h[right] \in Nat /\ h[left] + h[right] + 1 \in Nat
    BY <1>1 DEF Counts
  <2>2. QED
    BY <1>1, <1>11, <2>1 DEF Counts, Beside
<1> HIDE DEF k
<1>27. Fits(v.mem, k, s, c)
  <2>1. At(v.mem, left) = At(n, left) /\ At(v.mem, right) = At(n, right)
    BY <1>16, <1>18 DEF Set
  <2>2. At(n, left).weight = At(m, left).weight /\ At(n, right).weight = At(m, right).weight
    BY <1>9 DEF Alike
  <2>3. k[left] = h[left] /\ k[right] = h[right]
    BY <1>18, <1>26 DEF Beside
  <2>4. left # Nil /\ right # Nil
    BY NilAssumption
  <2>5. k[left] < k[s] /\ k[right] < k[s]
    BY <1>26, <2>3
  <2>6. NodeFits(v.mem, k, s, c)
    BY <1>14, <2>1, <2>2, <2>4, <2>5 DEF NodeFits
  <2>7. QED
    BY <1>14, <2>4, <2>6 DEF Fits
<1>28. Fine(v.mem, Inc(x, s), k) /\ Grown(n, v.mem)
  BY <1>11, <1>14, <1>16, <1>23, <1>24, <1>25, <1>26, <1>27, NewRope
<1>29. Grown(m, v.mem)
  BY <1>8, <1>28, GrownTwice
<1>30. Gives(m, x, v)
  BY <1>11, <1>16, <1>28, <1>29, GivesIf
<1>31. At(v.mem, s) = c
  BY <1>16 DEF Set
<1>32. QED
  BY <1>14, <1>16, <1>17, <1>30, <1>31

-----------------------------------------------------------------------------
(* pic_rope_decref: what a call with d calls left does, from d - 1 on. *)

(* One more level of pic_rope_decref, where rest are those below. *)
Freed(rest, d) ==
  [c \in Memory \X Nat |->
     LET n == c[1]  q == c[2]
         free == [n EXCEPT ![q] = NoRope]
     IN IF n[q].ref > 1 THEN [n EXCEPT ![q].ref = @ - 1]
        ELSE IF d = 0 THEN n
        ELSE CASE ~isleaf(n, q) -> rest[<< rest[<< free, n[q].left >>], n[q].right >>]
               [] isleaf(n, q) /\ n[q].owner # Nil -> rest[<< free, n[q].owner >>]
               [] OTHER -> free]

(* The levels of pic_rope_decref exist. *)
LEMMA FreedExists ==
  ASSUME NEW top \in Nat
  PROVE  \E f : f = [d \in 0 .. top |-> Freed(f[d - 1], d)]
<1> DEFINE Ok(e, f) == f = [d \in 0 .. e |-> Freed(f[d - 1], d)]
           A == {e \in 0 .. top : \E f : Ok(e, f)}
<1>1. \A u, v : Freed(u, 0) = Freed(v, 0)
  BY DEF Freed
<1>2. 0 \in A
  <2> DEFINE f == [d \in 0 .. 0 |-> Freed(0, 0)]
  <2>1. f = [d \in 0 .. 0 |-> f[d]] /\ f[0] = Freed(0, 0)
    OBVIOUS
  <2>2. \A d \in 0 .. 0 : f[d] = Freed(f[d - 1], d)
    <3> HIDE DEF f
    <3>1. QED
      BY <1>1, <2>1
  <2> HIDE DEF f
  <2>3. Ok(0, f)
    BY <2>1, <2>2
  <2>4. QED
    BY <2>3
<1>3. \A e \in 1 .. top : e - 1 \in A => e \in A
  <2>1. TAKE e \in 1 .. top
  <2>2. HAVE e - 1 \in A
  <2>3. PICK f : Ok(e - 1, f)
    BY <2>2
  <2>4. f = [d \in 0 .. e - 1 |-> Freed(f[d - 1], d)]
    BY <2>3
  <2>5. \A d \in 0 .. e - 1 : f[d] = Freed(f[d - 1], d)
    <3> HIDE <2>3
    <3>1. QED
      BY <2>4
  <2> DEFINE g == [d \in 0 .. e |-> IF d = e THEN Freed(f[e - 1], e) ELSE f[d]]
  <2>6. g = [d \in 0 .. e |-> g[d]] /\ g[e] = Freed(f[e - 1], e) /\ \A d \in 0 .. e - 1 : g[d] = f[d]
    OBVIOUS
  <2> HIDE DEF g
  <2>7. \A d \in 0 .. e : g[d] = Freed(g[d - 1], d)
    <3>1. TAKE d \in 0 .. e
    <3>2. CASE d = 0
      <4>1. 0 \in 0 .. e - 1
        BY <2>1
      <4>2. g[0] = Freed(f[0 - 1], 0)
        BY <2>5, <2>6, <4>1
      <4>3. Freed(f[0 - 1], 0) = Freed(g[0 - 1], 0)
        BY <1>1
      <4>4. QED
        BY <3>2, <4>2, <4>3
    <3>3. CASE d = e
      <4>1. e - 1 \in 0 .. e - 1
        BY <2>1
      <4>2. g[e - 1] = f[e - 1]
        BY <2>6, <4>1
      <4>3. QED
        BY <2>6, <3>3, <4>2
    <3>4. CASE d # 0 /\ d # e
      <4>1. d \in 0 .. e - 1 /\ d - 1 \in 0 .. e - 1
        BY <3>4
      <4>2. g[d] = f[d] /\ g[d - 1] = f[d - 1] /\ f[d] = Freed(f[d - 1], d)
        BY <2>5, <2>6, <4>1
      <4>3. QED
        BY <4>2
    <3>5. QED
      BY <3>2, <3>3, <3>4
  <2>8. Ok(e, g)
    BY <2>6, <2>7
  <2>9. QED
    BY <2>8
<1>4. top \in A
  <2> HIDE DEF A
  <2>1. \A e \in 0 .. top : e \in A
    BY <1>2, <1>3, UpTo
  <2>2. QED
    BY <2>1
<1>5. QED
  BY <1>4

(* pic_rope_decref is the topmost of its levels. *)
LEMMA DecrefIs ==
  ASSUME NEW m, NEW r, m \in Memory
  PROVE  \E f : /\ pic_rope_decref(m, r) = f[Len(m)][<< m, r >>]
                /\ \A d \in 0 .. Len(m) : f[d] = Freed(f[d - 1], d)
<1>1. Len(m) \in Nat
  BY Dom
<1> DEFINE decref[d \in 0 .. Len(m)] ==
        [c \in Memory \X Nat |->
           LET n == c[1]  q == c[2]
               free == [n EXCEPT ![q] = NoRope]
               rest == decref[d - 1]
           IN IF n[q].ref > 1 THEN [n EXCEPT ![q].ref = @ - 1]
              ELSE IF d = 0 THEN n
              ELSE CASE ~isleaf(n, q) -> rest[<< rest[<< free, n[q].left >>], n[q].right >>]
                     [] isleaf(n, q) /\ n[q].owner # Nil -> rest[<< free, n[q].owner >>]
                     [] OTHER -> free]
<1>2. pic_rope_decref(m, r) = decref[Len(m)][<< m, r >>]
  BY DEF pic_rope_decref
<1>3. \E f : f = [d \in 0 .. Len(m) |-> Freed(f[d - 1], d)]
  BY <1>1, FreedExists
<1>4. decref = [d \in 0 .. Len(m) |-> Freed(decref[d - 1], d)]
  BY <1>3 DEF Freed
<1> HIDE DEF decref
<1>5. \A d \in 0 .. Len(m) : decref[d] = Freed(decref[d - 1], d)
  BY <1>4
<1>6. QED
  BY <1>2, <1>5

Lost(n, k) == \A p \in Nat : At(k, p) # NoRope => At(n, p) # NoRope /\ Alike(At(n, p), At(k, p))
Low(n, k, h, q) == \A p \in Nat : h[p] > h[q] => At(k, p) = At(n, p)

(* Ropes go, twice. *)
LEMMA LostTwice ==
  ASSUME NEW m, NEW n, NEW k, Lost(m, n), Lost(n, k)
  PROVE  Lost(m, k)
  BY DEF Lost, Alike

(* What is higher than r stays twice. *)
LEMMA LowTwice ==
  ASSUME NEW m, NEW n, NEW k, NEW h, NEW p, NEW q, NEW r, Low(m, n, h, p), Low(n, k, h, q), h \in Counts,
         p \in Nat, q \in Nat, r \in Nat, h[p] <= h[r], h[q] <= h[r]
  PROVE  Low(m, k, h, r)
<1>1. SUFFICES ASSUME NEW l \in Nat, h[l] > h[r] PROVE At(k, l) = At(m, l)
  BY DEF Low
<1>2. h[l] \in Nat /\ h[r] \in Nat /\ h[p] \in Nat /\ h[q] \in Nat
  BY DEF Counts
<1>3. h[l] > h[p] /\ h[l] > h[q]
  BY <1>1, <1>2
<1>4. At(n, l) = At(m, l) /\ At(k, l) = At(n, l)
  BY <1>3 DEF Low
<1>5. QED
  BY <1>4

(* The ropes in use can be counted. *)
LEMMA UsedFinite ==
  ASSUME NEW m, m \in Memory
  PROVE  /\ IsFiniteSet(Used(m)) /\ Cardinality(Used(m)) \in Nat /\ Cardinality(Used(m)) <= Len(m)
         /\ Used(m) = {p \in Nat : At(m, p) # NoRope}
<1>1. Len(m) \in Nat /\ DOMAIN m = 1 .. Len(m) /\ DOMAIN m \subseteq Nat
  BY Dom
<1>2. IsFiniteSet(1 .. Len(m)) /\ Cardinality(1 .. Len(m)) = Len(m)
  BY <1>1, FS_Interval
<1>3. Used(m) \in SUBSET (1 .. Len(m))
  BY <1>1 DEF Used
<1>4. IsFiniteSet(Used(m)) /\ Cardinality(Used(m)) <= Len(m)
  BY <1>2, <1>3, FS_Subset
<1>5. Cardinality(Used(m)) \in Nat
  BY <1>4, FS_CardinalityType
<1>6. Used(m) = {p \in Nat : At(m, p) # NoRope}
  BY <1>1 DEF Used, At
<1>7. QED
  BY <1>4, <1>5, <1>6

(* When ropes go there are not more. *)
LEMMA LostFewer ==
  ASSUME NEW m, NEW n, m \in Memory, n \in Memory, Lost(m, n)
  PROVE  Cardinality(Used(n)) <= Cardinality(Used(m))
<1>1. Used(n) \in SUBSET Used(m)
  BY UsedFinite DEF Lost
<1>2. QED
  BY <1>1, UsedFinite, FS_Subset

(* A rope whose last pointer goes is out of use; its own pointers are to   *)
(* be given back.                                                          *)
Left(q, c, x, y) == y[q] = 0 /\ \A p \in Nat : p # q => y[p] = x[p] + Held(c, p)

(* Out of use, it leaves its own pointers to be given back. *)
LEMMA FreeCell ==
  ASSUME NEW n, NEW x, NEW y, NEW h, NEW q, NEW k, Fine(n, x, h), q \in Nat, x[q] >= 1, ~ (At(n, q).ref > 1),
         y \in Counts, Left(q, At(n, q), x, y), k = Put(n, q, NoRope)
  PROVE  /\ Fine(k, y, h) /\ Lost(n, k) /\ Low(n, k, h, q) /\ Cardinality(Used(k)) < Cardinality(Used(n))
         /\ At(n, q) # NoRope
<1>1. n \in Memory /\ x \in Counts /\ Exact(n, x) /\ h \in Counts /\ Sound(n, h)
  BY DEF Fine
<1>2. At(n, q) # NoRope /\ q \in DOMAIN n /\ At(n, q).ref >= 1
  BY <1>1, Counted
<1>3. At(n, q).ref = x[q] + Inner(n, q) /\ x[q] \in Nat /\ Inner(n, q) \in Nat
  BY <1>1, InnerNat DEF Exact, Counts
<1>4. x[q] = 1 /\ Inner(n, q) = 0
  BY <1>2, <1>3
<1>5. Unused(n, q)
  BY <1>1, <1>4, UnusedIf
<1>6. Set(n, k, q, NoRope)
  BY <1>1, <1>2, NoRopeIn, PutSet
<1>7. Sound(k, h)
  <2>1. Fits(k, h, q, NoRope)
    BY DEF Fits
  <2>2. QED
    BY <1>1, <1>5, <1>6, <2>1, SoundApart
<1>8. Exact(k, y)
  <2>1. \A p \in Nat : Held(NoRope, p) = 0 /\ y[p] \in Nat
    BY HeldNone DEF Counts
  <2>2. Held(At(n, q), q) = 0
    BY <1>5 DEF Unused, Held, One
  <2>3. NoRope.ref = 0
    BY DEF NoRope
  <2>4. \A p \in Nat : p # q => y[p] + Held(NoRope, p) = x[p] + Held(At(n, q), p)
    BY <2>1 DEF Left
  <2>5. NoRope.ref + Held(At(n, q), q) = y[q] + Inner(n, q) + Held(NoRope, q)
    BY <1>4, <2>1, <2>2, <2>3 DEF Left
  <2>6. Moves(n, q, NoRope, x, y)
    BY <2>4, <2>5 DEF Moves
  <2>7. QED
    BY <1>1, <1>6, <2>6, ExactSet
<1>9. k \in Memory /\ Lost(n, k)
  BY <1>6 DEF Set, Lost, Alike
<1>10. Low(n, k, h, q)
  BY <1>1, <1>6 DEF Set, Low, Counts
<1>11. Cardinality(Used(k)) < Cardinality(Used(n))
  <2>1. Used(k) = Used(n) \ {q} /\ q \in Used(n)
    <3>1. Used(k) = {p \in Nat : At(k, p) # NoRope}
      BY <1>9, UsedFinite
    <3>2. Used(n) = {p \in Nat : At(n, p) # NoRope}
      BY <1>1, UsedFinite
    <3>3. At(k, q) = NoRope /\ \A p \in Nat : p # q => At(k, p) = At(n, p)
      BY <1>6 DEF Set
    <3>4. QED
      BY <1>2, <3>1, <3>2, <3>3
  <2>2. Cardinality(Used(k)) = Cardinality(Used(n)) - 1
    <3>1. IsFiniteSet(Used(n))
      BY <1>1, UsedFinite
    <3>2. Cardinality(Used(n) \ {q}) = Cardinality(Used(n)) - 1
      BY <2>1, <3>1, FS_RemoveElement
    <3>3. QED
      BY <2>1, <3>2
  <2>3. QED
    BY <1>1, <2>2, UsedFinite
<1>12. QED
  BY <1>1, <1>2, <1>7, <1>8, <1>9, <1>10, <1>11 DEF Fine

(* Those of a node are to its children. *)
LEMMA LeftNode ==
  ASSUME NEW n, NEW x, NEW h, NEW q, NEW c, Fine(n, x, h), q \in Nat, x[q] >= 1, ~ (At(n, q).ref > 1),
         c = At(n, q), c.left \in Nat, c.right \in Nat, c.owner = Nil
  PROVE  Left(q, c, x, Inc(Inc(Dec(x, q), c.left), c.right))
<1>1. n \in Memory /\ x \in Counts /\ Exact(n, x)
  BY DEF Fine
<1>2. At(n, q).ref = x[q] + Inner(n, q) /\ x[q] \in Nat /\ Inner(n, q) \in Nat
  BY <1>1, InnerNat DEF Exact, Counts
<1>3. x[q] = 1 /\ Inner(n, q) = 0
  BY <1>2
<1>4. c.left # q /\ c.right # q
  BY <1>1, <1>3, UnusedIf DEF Unused
<1>5. PICK u, v, w : u = Dec(x, q) /\ v = Inc(u, c.left) /\ w = Inc(v, c.right)
  OBVIOUS
<1>6. u \in Counts /\ \A p \in Nat : u[p] + One(p = q) = x[p]
  BY <1>1, <1>5, DecIn
<1>7. v \in Counts /\ \A p \in Nat : v[p] = u[p] + One(p = c.left)
  BY <1>5, <1>6, IncIn
<1>8. w \in Counts /\ \A p \in Nat : w[p] = v[p] + One(p = c.right)
  BY <1>5, <1>7, IncIn
<1>9. w[q] = 0
  <2>1. One(q = q) = 1 /\ One(q = c.left) = 0 /\ One(q = c.right) = 0
    BY <1>4 DEF One
  <2>2. u[q] \in Nat
    BY <1>6 DEF Counts
  <2>3. QED
    BY <1>3, <1>6, <1>7, <1>8, <2>1, <2>2
<1>10. ASSUME NEW p \in Nat, p # q PROVE w[p] = x[p] + Held(c, p)
  <2>1. One(p = q) = 0 /\ One(p = c.left) \in Nat /\ One(p = c.right) \in Nat /\ One(p = c.left) = One(c.left = p)
        /\ One(p = c.right) = One(c.right = p)
    BY <1>10 DEF One
  <2>2. Held(c, p) = One(c.left = p) + One(c.right = p)
    BY NodeHeld
  <2>3. u[p] \in Nat /\ x[p] \in Nat
    BY <1>1, <1>6 DEF Counts
  <2>4. u[p] + One(p = q) = x[p] /\ v[p] = u[p] + One(p = c.left) /\ w[p] = v[p] + One(p = c.right)
    BY <1>6, <1>7, <1>8
  <2>5. QED
    BY <2>1, <2>2, <2>3, <2>4
<1>11. Left(q, c, x, w)
  BY <1>9, <1>10 DEF Left
<1>12. QED
  BY <1>5, <1>11

(* That of a window is to its owner. *)
LEMMA LeftWindow ==
  ASSUME NEW n, NEW x, NEW h, NEW q, NEW c, Fine(n, x, h), q \in Nat, x[q] >= 1, ~ (At(n, q).ref > 1),
         c = At(n, q), c.left = Nil, c.right = Nil, c.owner \in Nat
  PROVE  Left(q, c, x, Inc(Dec(x, q), c.owner))
<1>1. n \in Memory /\ x \in Counts /\ Exact(n, x)
  BY DEF Fine
<1>2. At(n, q).ref = x[q] + Inner(n, q) /\ x[q] \in Nat /\ Inner(n, q) \in Nat
  BY <1>1, InnerNat DEF Exact, Counts
<1>3. x[q] = 1 /\ Inner(n, q) = 0
  BY <1>2
<1>4. c.owner # q
  BY <1>1, <1>3, UnusedIf DEF Unused
<1>5. PICK u, v : u = Dec(x, q) /\ v = Inc(u, c.owner)
  OBVIOUS
<1>6. u \in Counts /\ \A p \in Nat : u[p] + One(p = q) = x[p]
  BY <1>1, <1>5, DecIn
<1>7. v \in Counts /\ \A p \in Nat : v[p] = u[p] + One(p = c.owner)
  BY <1>5, <1>6, IncIn
<1>8. v[q] = 0
  <2>1. One(q = q) = 1 /\ One(q = c.owner) = 0
    BY <1>4 DEF One
  <2>2. u[q] \in Nat
    BY <1>6 DEF Counts
  <2>3. QED
    BY <1>3, <1>6, <1>7, <2>1, <2>2
<1>9. ASSUME NEW p \in Nat, p # q PROVE v[p] = x[p] + Held(c, p)
  <2>1. One(p = q) = 0 /\ One(p = c.owner) \in Nat /\ One(p = c.owner) = One(c.owner = p)
    BY <1>9 DEF One
  <2>2. Held(c, p) = One(c.owner = p)
    BY LeafHeld
  <2>3. u[p] \in Nat /\ x[p] \in Nat
    BY <1>1, <1>6 DEF Counts
  <2>4. u[p] + One(p = q) = x[p] /\ v[p] = u[p] + One(p = c.owner)
    BY <1>6, <1>7
  <2>5. QED
    BY <2>1, <2>2, <2>3, <2>4
<1>10. Left(q, c, x, v)
  BY <1>8, <1>9 DEF Left
<1>11. QED
  BY <1>5, <1>10

(* A buffer has none. *)
LEMMA LeftOwn ==
  ASSUME NEW n, NEW x, NEW h, NEW q, NEW c, Fine(n, x, h), q \in Nat, x[q] >= 1, ~ (At(n, q).ref > 1),
         c = At(n, q), c.left = Nil, c.right = Nil, c.owner = Nil
  PROVE  Left(q, c, x, Dec(x, q))
<1>1. n \in Memory /\ x \in Counts /\ Exact(n, x)
  BY DEF Fine
<1>2. At(n, q).ref = x[q] + Inner(n, q) /\ x[q] \in Nat /\ Inner(n, q) \in Nat
  BY <1>1, InnerNat DEF Exact, Counts
<1>3. x[q] = 1 /\ Inner(n, q) = 0
  BY <1>2
<1>5. PICK u : u = Dec(x, q)
  OBVIOUS
<1>6. u \in Counts /\ \A p \in Nat : u[p] + One(p = q) = x[p]
  BY <1>1, <1>5, DecIn
<1>8. u[q] = 0
  <2>1. One(q = q) = 1 /\ u[q] \in Nat
    BY <1>6 DEF One, Counts
  <2>3. QED
    BY <1>3, <1>6, <2>1
<1>9. ASSUME NEW p \in Nat, p # q PROVE u[p] = x[p] + Held(c, p)
  <2>1. One(p = q) = 0
    BY <1>9 DEF One
  <2>2. Held(c, p) = 0
    BY LeafHeld, NilAssumption DEF One
  <2>3. u[p] \in Nat /\ x[p] \in Nat /\ u[p] + One(p = q) = x[p]
    BY <1>1, <1>6 DEF Counts
  <2>5. QED
    BY <2>1, <2>2, <2>3
<1>10. Left(q, c, x, u)
  BY <1>8, <1>9 DEF Left
<1>11. QED
  BY <1>5, <1>10

Done(n, k, q, x, h) == Fine(k, Dec(x, q), h) /\ Lost(n, k) /\ Low(n, k, h, q)

Many(c) == c.ref > 1
Lower(c) == Ref(c, c.ref - 1)

(* A level of pic_rope_decref, case by case. *)
LEMMA FreedAt ==
  ASSUME NEW rest, NEW d, NEW n, NEW q, NEW c, n \in Memory, q \in Nat, c = n[q]
  PROVE  /\ Many(c) => Freed(rest, d)[<< n, q >>] = Put(n, q, Lower(c))
         /\ ~Many(c) /\ d # 0 /\ c.left # Nil =>
              Freed(rest, d)[<< n, q >>] = rest[<< rest[<< Put(n, q, NoRope), c.left >>], c.right >>]
         /\ ~Many(c) /\ d # 0 /\ c.left = Nil /\ c.owner # Nil =>
              Freed(rest, d)[<< n, q >>] = rest[<< Put(n, q, NoRope), c.owner >>]
         /\ ~Many(c) /\ d # 0 /\ c.left = Nil /\ c.owner = Nil =>
              Freed(rest, d)[<< n, q >>] = Put(n, q, NoRope)
<1>1. << n, q >> \in Memory \X Nat
  OBVIOUS
<1>2. QED
  BY <1>1 DEF Freed, Put, Lower, Many, Ref, isleaf

(* The first of them. *)
LEMMA FreedMany ==
  ASSUME NEW rest, NEW d, NEW n, NEW q, n \in Memory, q \in Nat, Many(n[q])
  PROVE  Freed(rest, d)[<< n, q >>] = Put(n, q, Lower(n[q]))
<1>1. << n, q >> \in Memory \X Nat
  OBVIOUS
<1>2. QED
  BY <1>1 DEF Freed, Put, Lower, Many, Ref

(* A rope with other pointers to it stays. *)
LEMMA Shared ==
  ASSUME NEW n, NEW x, NEW h, NEW q, NEW k, Fine(n, x, h), q \in Nat, x[q] >= 1, At(n, q).ref > 1,
         k = Put(n, q, Lower(At(n, q)))
  PROVE  Fine(k, Dec(x, q), h) /\ Grown(n, k) /\ Lost(n, k) /\ Low(n, k, h, q)
<1>1. n \in Memory /\ x \in Counts /\ Exact(n, x) /\ h \in Counts /\ Sound(n, h)
  BY DEF Fine
<1>2. At(n, q) # NoRope /\ q \in DOMAIN n
  BY <1>1, Counted
<1>3. At(n, q) \in Ropes /\ At(n, q).ref \in Nat
  BY <1>1, AtIn, RopeParts
<1>4. PICK w : w = At(n, q).ref - 1
  OBVIOUS
<1>5. w \in Nat /\ w >= 1
  BY <1>3, <1>4
<1>6. PICK c : c = Ref(At(n, q), w)
  OBVIOUS
<1>7. c \in Ropes /\ Alike(At(n, q), c) /\ c.ref = w
  BY <1>3, <1>5, <1>6, WithRef
<1>8. k = Put(n, q, c)
  BY <1>4, <1>6 DEF Lower
<1>9. Set(n, k, q, c)
  BY <1>1, <1>2, <1>7, <1>8, PutSet
<1>10. Sound(k, h) /\ Grown(n, k)
  <2>1. c.ref >= 1
    BY <1>5, <1>7
  <2>2. QED
    BY <1>1, <1>2, <1>7, <1>9, <2>1, RefSet
<1>11. Dec(x, q) \in Counts /\ \A p \in Nat : Dec(x, q)[p] + One(p = q) = x[p]
  BY <1>1, DecIn
<1>12. Exact(k, Dec(x, q))
  <2>1. ASSUME NEW p \in Nat, p # q PROVE Dec(x, q)[p] + Held(c, p) = x[p] + Held(At(n, q), p)
    <3>1. Held(c, p) = Held(At(n, q), p)
      BY <1>7, AlikeHeld
    <3>2. One(p = q) = 0 /\ Dec(x, q)[p] \in Nat /\ x[p] \in Nat
      BY <1>1, <1>11, <2>1 DEF One, Counts
    <3>3. Dec(x, q)[p] + One(p = q) = x[p]
      BY <1>11
    <3>4. QED
      BY <3>1, <3>2, <3>3
  <2>2. c.ref + Held(At(n, q), q) = Dec(x, q)[q] + Inner(n, q) + Held(c, q)
    <3>1. Held(c, q) = Held(At(n, q), q) /\ Held(c, q) \in Nat
      BY <1>7, AlikeHeld, HeldNat
    <3>2. One(q = q) = 1 /\ Dec(x, q)[q] \in Nat /\ x[q] \in Nat
      BY <1>1, <1>11 DEF One, Counts
    <3>3. Dec(x, q)[q] + 1 = x[q]
      BY <1>11, <3>2
    <3>4. At(n, q).ref = x[q] + Inner(n, q) /\ Inner(n, q) \in Nat
      BY <1>1, InnerNat DEF Exact
    <3>5. QED
      BY <1>3, <1>4, <1>7, <3>1, <3>2, <3>3, <3>4
  <2>3. Moves(n, q, c, x, Dec(x, q))
    BY <2>1, <2>2 DEF Moves
  <2>4. QED
    BY <1>1, <1>9, <1>11, <2>3, ExactSet
<1>13. Lost(n, k) /\ Low(n, k, h, q)
  BY <1>1, <1>2, <1>7, <1>9 DEF Set, Lost, Low, Alike, Counts
<1>14. k \in Memory
  BY <1>9 DEF Set
<1>15. Fine(k, Dec(x, q), h)
  BY <1>1, <1>10, <1>11, <1>12, <1>14 DEF Fine
<1>16. QED
  BY <1>10, <1>13, <1>15

Frees(f, d) ==
  \A n, q, x, h :
    Fine(n, x, h) /\ q \in Nat /\ x[q] >= 1 /\ Cardinality(Used(n)) <= d => Done(n, f[<< n, q >>], q, x, h)

(* What a level does, at one rope. *)
LEMMA FreesUse ==
  ASSUME NEW f, NEW d, NEW n, NEW q, NEW x, NEW h, Frees(f, d), Fine(n, x, h), q \in Nat, x[q] >= 1,
         Cardinality(Used(n)) <= d
  PROVE  /\ Fine(f[<< n, q >>], Dec(x, q), h) /\ Lost(n, f[<< n, q >>]) /\ Low(n, f[<< n, q >>], h, q)
  BY DEF Frees, Done

(* A level that has calls left frees all that there may be. *)
LEMMA FreesStep ==
  ASSUME NEW rest, NEW d, d \in Nat, d # 0, Frees(rest, d - 1)
  PROVE  Frees(Freed(rest, d), d)
<1>1. SUFFICES ASSUME NEW n, NEW q, NEW x, NEW h, Fine(n, x, h), q \in Nat, x[q] >= 1, Cardinality(Used(n)) <= d
               PROVE  Done(n, Freed(rest, d)[<< n, q >>], q, x, h)
  BY DEF Frees
<1>2. n \in Memory /\ x \in Counts /\ Exact(n, x) /\ h \in Counts /\ Sound(n, h)
  BY <1>1 DEF Fine
<1>3. At(n, q) # NoRope /\ At(n, q) = n[q]
  BY <1>1, <1>2, Counted
<1>4. PICK c : c = At(n, q)
  OBVIOUS
<1>5. Fits(n, h, q, c) /\ c # NoRope /\ c = n[q] /\ c \in Ropes
  BY <1>1, <1>2, <1>3, <1>4, AtIn DEF Sound
<1>6. c.owner \in Pointer /\ c.left \in Pointer /\ c.right \in Pointer
  BY <1>5, RopeParts
<1>7. PICK e : e = Freed(rest, d)[<< n, q >>]
  OBVIOUS
<1>8. PICK free : free = Put(n, q, NoRope)
  OBVIOUS
<1>8a. /\ Many(c) => e = Put(n, q, Lower(c))
       /\ ~Many(c) /\ c.left # Nil => e = rest[<< rest[<< free, c.left >>], c.right >>]
       /\ ~Many(c) /\ c.left = Nil /\ c.owner # Nil => e = rest[<< free, c.owner >>]
       /\ ~Many(c) /\ c.left = Nil /\ c.owner = Nil => e = free
  BY <1>1, <1>2, <1>5, <1>7, <1>8, FreedAt
<1>9. CASE c.ref > 1
  <2>1. e = Put(n, q, Lower(c))
    BY <1>8a, <1>9 DEF Many
  <2>2. Fine(e, Dec(x, q), h) /\ Lost(n, e) /\ Low(n, e, h, q)
    BY <1>1, <1>4, <1>9, <2>1, Shared
  <2>3. QED
    BY <1>7, <2>2 DEF Done
<1>10. CASE ~ (c.ref > 1) /\ c.left # Nil
  <2>1. e = rest[<< rest[<< free, c.left >>], c.right >>]
    BY <1>8a, <1>10 DEF Many
  <2>2. /\ NodeFits(n, h, q, c)
    BY <1>5, <1>10 DEF Fits
  <2>3. c.left \in Nat /\ c.right \in Nat /\ c.owner = Nil /\ h[c.left] < h[q] /\ h[c.right] < h[q]
    BY <1>6, <1>10, <2>2 DEF NodeFits, Pointer
  <2>4. PICK u, v, w : u = Dec(x, q) /\ v = Inc(u, c.left) /\ w = Inc(v, c.right)
    OBVIOUS
  <2>5. Left(q, c, x, w)
    BY <1>1, <1>4, <1>10, <2>3, <2>4, LeftNode
  <2>6. u \in Counts
    BY <1>1, <1>2, <2>4, DecIn
  <2>7. v \in Counts /\ v[c.left] >= 1
    BY <2>3, <2>4, <2>6, IncIn
  <2>8. w \in Counts /\ w[c.right] >= 1
    BY <2>3, <2>4, <2>7, IncIn
  <2>9. Fine(free, w, h) /\ Lost(n, free) /\ Low(n, free, h, q) /\ Cardinality(Used(free)) < Cardinality(Used(n))
    BY <1>1, <1>4, <1>8, <1>10, <2>5, <2>8, FreeCell
  <2>10. free \in Memory
    BY <2>9 DEF Fine
  <2>11. Cardinality(Used(free)) <= d - 1
    BY <1>1, <1>2, <2>9, <2>10, UsedFinite
  <2>12. PICK a : a = rest[<< free, c.left >>]
    OBVIOUS
  <2>13. PICK z : z = Inc(u, c.right)
    OBVIOUS
  <2>14. z \in Counts /\ z[c.right] >= 1
    BY <2>3, <2>6, <2>13, IncIn
  <2>15. w = Inc(z, c.left)
    BY <2>3, <2>4, <2>6, <2>13, IncInc
  <2>16. w[c.left] >= 1 /\ Dec(w, c.left) = z
    BY <2>3, <2>14, <2>15, IncIn, IncDec
  <2>17. Fine(a, z, h) /\ Lost(free, a) /\ Low(free, a, h, c.left)
    BY <2>3, <2>9, <2>11, <2>12, <2>16, FreesUse
  <2>18. a \in Memory
    BY <2>17 DEF Fine
  <2>19. Cardinality(Used(a)) <= d - 1
    BY <2>10, <2>11, <2>17, <2>18, LostFewer, UsedFinite
  <2>20. Dec(z, c.right) = u
    BY <2>3, <2>6, <2>13, IncDec
  <2>21. e = rest[<< a, c.right >>]
    BY <2>1, <2>12
  <2>22. Fine(e, u, h) /\ Lost(a, e) /\ Low(a, e, h, c.right)
    BY <2>3, <2>14, <2>17, <2>19, <2>20, <2>21, FreesUse
  <2>23. Lost(n, e)
    BY <2>9, <2>17, <2>22, LostTwice
  <2>24. Low(n, e, h, q)
    <3>1. h[c.left] <= h[q] /\ h[c.right] <= h[q] /\ h[q] <= h[q]
      BY <1>1, <1>2, <2>3 DEF Counts
    <3>2. Low(n, a, h, q)
      BY <1>1, <1>2, <2>3, <2>9, <2>17, <3>1, LowTwice
    <3>3. QED
      BY <1>1, <1>2, <2>3, <2>22, <3>1, <3>2, LowTwice
  <2>25. QED
    BY <1>7, <2>4, <2>22, <2>23, <2>24 DEF Done
<1>11. CASE ~ (c.ref > 1) /\ c.left = Nil /\ c.owner # Nil
  <2>1. e = rest[<< free, c.owner >>]
    BY <1>8a, <1>11 DEF Many
  <2>2. c.right = Nil /\ WindowFits(n, h, q, c)
    BY <1>5, <1>11 DEF Fits
  <2>3. c.owner \in Nat /\ h[c.owner] < h[q]
    BY <1>6, <1>11, <2>2 DEF WindowFits, Pointer
  <2>4. PICK u, v : u = Dec(x, q) /\ v = Inc(u, c.owner)
    OBVIOUS
  <2>5. Left(q, c, x, v)
    BY <1>1, <1>4, <1>11, <2>2, <2>3, <2>4, LeftWindow
  <2>6. u \in Counts
    BY <1>1, <1>2, <2>4, DecIn
  <2>7. v \in Counts /\ v[c.owner] >= 1 /\ Dec(v, c.owner) = u
    BY <2>3, <2>4, <2>6, IncIn, IncDec
  <2>9. Fine(free, v, h) /\ Lost(n, free) /\ Low(n, free, h, q) /\ Cardinality(Used(free)) < Cardinality(Used(n))
    BY <1>1, <1>4, <1>8, <1>11, <2>5, <2>7, FreeCell
  <2>10. free \in Memory
    BY <2>9 DEF Fine
  <2>11. Cardinality(Used(free)) <= d - 1
    BY <1>1, <1>2, <2>9, <2>10, UsedFinite
  <2>12. Fine(e, u, h) /\ Lost(free, e) /\ Low(free, e, h, c.owner)
    BY <2>1, <2>3, <2>7, <2>9, <2>11, FreesUse
  <2>13. Lost(n, e)
    BY <2>9, <2>12, LostTwice
  <2>14. Low(n, e, h, q)
    <3>1. h[c.owner] <= h[q] /\ h[q] <= h[q]
      BY <1>1, <1>2, <2>3 DEF Counts
    <3>2. QED
      BY <1>1, <1>2, <2>3, <2>9, <2>12, <3>1, LowTwice
  <2>15. QED
    BY <1>7, <2>4, <2>12, <2>13, <2>14 DEF Done
<1>12. CASE ~ (c.ref > 1) /\ c.left = Nil /\ c.owner = Nil
  <2>1. e = free
    BY <1>8a, <1>12 DEF Many
  <2>2. c.right = Nil
    BY <1>5, <1>12 DEF Fits
  <2>3. PICK u : u = Dec(x, q)
    OBVIOUS
  <2>4. Left(q, c, x, u)
    BY <1>1, <1>4, <1>12, <2>2, <2>3, LeftOwn
  <2>5. u \in Counts
    BY <1>1, <1>2, <2>3, DecIn
  <2>6. Fine(free, u, h) /\ Lost(n, free) /\ Low(n, free, h, q)
    BY <1>1, <1>4, <1>8, <1>12, <2>4, <2>5, FreeCell
  <2>7. QED
    BY <1>7, <2>1, <2>3, <2>6 DEF Done
<1>13. QED
  BY <1>9, <1>10, <1>11, <1>12

(* pic_rope_decref takes one pointer from outside, loses ropes, changes no  *)
(* other than by its count, and touches none that is higher.                *)
LEMMA Decref ==
  ASSUME NEW m, NEW x, NEW h, NEW r, Fine(m, x, h), r \in Nat, x[r] >= 1
  PROVE  /\ Fine(pic_rope_decref(m, r), Dec(x, r), h)
         /\ Lost(m, pic_rope_decref(m, r)) /\ Low(m, pic_rope_decref(m, r), h, r)
<1>1. m \in Memory
  BY DEF Fine
<1>2. PICK f : /\ pic_rope_decref(m, r) = f[Len(m)][<< m, r >>]
               /\ \A d \in 0 .. Len(m) : f[d] = Freed(f[d - 1], d)
  BY <1>1, DecrefIs
<1>3. Len(m) \in Nat
  BY <1>1, Dom
<1> DEFINE A == {d \in 0 .. Len(m) : Frees(f[d], d)}
<1>4. 0 \in A
  <2>1. Frees(f[0], 0)
    <3>1. SUFFICES ASSUME NEW n, NEW q, NEW y, NEW k, Fine(n, y, k), q \in Nat, y[q] >= 1, Cardinality(Used(n)) <= 0
                   PROVE  FALSE
      BY DEF Frees
    <3>2. n \in Memory /\ y \in Counts /\ Exact(n, y)
      BY <3>1 DEF Fine
    <3>3. At(n, q) # NoRope
      BY <3>1, <3>2, Counted
    <3>4. Used(n) # {} /\ IsFiniteSet(Used(n)) /\ Cardinality(Used(n)) \in Nat
      BY <3>1, <3>2, <3>3, UsedFinite
    <3>5. Cardinality(Used(n)) = 0
      BY <3>1, <3>4
    <3>6. QED
      BY <3>4, <3>5, FS_EmptySet
  <2>2. QED
    BY <1>3, <2>1
<1>5. \A d \in 1 .. Len(m) : d - 1 \in A => d \in A
  <2>1. TAKE d \in 1 .. Len(m)
  <2>2. HAVE d - 1 \in A
  <2>3. Frees(f[d - 1], d - 1) /\ d \in 0 .. Len(m) /\ d # 0 /\ d \in Nat
    BY <1>3, <2>2
  <2>4. f[d] = Freed(f[d - 1], d)
    BY <1>2, <2>3
  <2>5. Frees(f[d], d)
    BY <2>3, <2>4, FreesStep
  <2>6. QED
    BY <2>3, <2>5
<1>6. Frees(f[Len(m)], Len(m))
  <2>1. Len(m) \in 0 .. Len(m)
    BY <1>3
  <2>2. \A d \in 0 .. Len(m) : d \in A
    <3> HIDE DEF A
    <3>1. QED
      BY <1>3, <1>4, <1>5, UpTo
  <2>3. QED
    BY <2>1, <2>2
<1>7. Cardinality(Used(m)) <= Len(m)
  BY <1>1, UsedFinite
<1>8. QED
  BY <1>2, <1>6, <1>7, FreesUse

(* The same where others still point to the rope: nothing is lost. *)
LEMMA DecrefShared ==
  ASSUME NEW m, NEW x, NEW h, NEW r, Fine(m, x, h), r \in Nat, x[r] >= 1, At(m, r).ref > 1
  PROVE  Fine(pic_rope_decref(m, r), Dec(x, r), h) /\ Grown(m, pic_rope_decref(m, r))
<1>1. m \in Memory /\ x \in Counts /\ Exact(m, x)
  BY DEF Fine
<1>2. PICK f : /\ pic_rope_decref(m, r) = f[Len(m)][<< m, r >>]
               /\ \A d \in 0 .. Len(m) : f[d] = Freed(f[d - 1], d)
  BY <1>1, DecrefIs
<1>3. Len(m) \in 0 .. Len(m)
  BY <1>1, Dom
<1>4. f[Len(m)] = Freed(f[Len(m) - 1], Len(m))
  BY <1>2, <1>3
<1>5. At(m, r) = m[r]
  BY <1>1, Counted
<1>6. PICK c : c = m[r]
  OBVIOUS
<1>7. pic_rope_decref(m, r) = Put(m, r, Lower(c))
  <2>1. Many(c)
    BY <1>5, <1>6 DEF Many
  <2>2. PICK rest, top : rest = f[Len(m) - 1] /\ top = Len(m)
    OBVIOUS
  <2>3. Freed(rest, top)[<< m, r >>] = Put(m, r, Lower(c))
    BY <1>1, <1>6, <2>1, FreedMany
  <2>4. QED
    BY <1>2, <1>4, <2>2, <2>3
<1>8. QED
  BY <1>5, <1>6, <1>7, Shared

-----------------------------------------------------------------------------
(* slice. *)

(* Two ropes that a node points to as well. *)
LEMMA HeldTwice ==
  ASSUME NEW m, NEW x, NEW h, NEW b, NEW r, Fine(m, x, h), b \in Nat, r \in Nat, x[r] >= 1,
         At(m, b).left = r \/ At(m, b).right = r
  PROVE  At(m, r).ref > 1
<1>1. m \in Memory /\ x \in Counts /\ Exact(m, x)
  BY DEF Fine
<1>2. Inner(m, r) >= 1 /\ Inner(m, r) \in Nat
  BY <1>1, HeldInner, InnerNat
<1>3. At(m, r).ref = x[r] + Inner(m, r) /\ x[r] \in Nat
  BY <1>1 DEF Exact, Counts
<1>4. QED
  BY <1>2, <1>3

(* The two slices that a node keeps are given back to it. *)
LEMMA JoinedGives ==
  ASSUME NEW m, NEW x, NEW left, NEW right, OK(m, Inc(Inc(x, left), right)), x \in Counts, left \in Nat,
         right \in Nat
  PROVE  Gives(m, x, Joined(m, left, right))
<1>1. PICK y, h : y = Inc(Inc(x, left), right) /\ Fine(m, y, h)
  BY DEF OK
<1>2. PICK z : z = Inc(x, right)
  OBVIOUS
<1>3. z \in Counts /\ y = Inc(z, left) /\ z[right] >= 1
  BY <1>1, <1>2, IncIn, IncInc
<1>4. y \in Counts /\ y[left] >= 1 /\ y[right] >= 1
  <2>1. PICK a : a = Inc(x, left)
    OBVIOUS
  <2>2. a \in Counts /\ y = Inc(a, right)
    BY <1>1, <2>1, IncIn
  <2>3. y[left] >= 1
    BY <1>3, IncIn
  <2>4. QED
    BY <2>2, <2>3, IncIn
<1>5. m \in Memory /\ Exact(m, y)
  BY <1>1 DEF Fine
<1>6. At(m, left) # NoRope /\ At(m, right) # NoRope
  BY <1>4, <1>5, Counted
<1>7. PICK v : v = make_rope_node(m, left, right)
  OBVIOUS
<1>8. Gives(m, y, v) /\ At(v.mem, v.rope).left = left /\ At(v.mem, v.rope).right = right
  BY <1>1, <1>6, <1>7, Joint
<1>9. PICK b, n : b = v.rope /\ n = v.mem
  OBVIOUS
<1>10. b \in Nat /\ Grown(m, n) /\ At(n, b).left = left /\ At(n, b).right = right /\ OK(n, Inc(y, b))
  BY <1>8, <1>9 DEF Gives
<1>11. PICK u, g : u = Inc(y, b) /\ Fine(n, u, g)
  BY <1>10 DEF OK
<1>12. u \in Counts /\ \A p \in Nat : u[p] = y[p] + One(p = b)
  BY <1>4, <1>10, <1>11, IncIn
<1>13. u[left] >= 1
  <2>1. y[left] \in Nat /\ One(left = b) \in Nat
    BY <1>4 DEF Counts, One
  <2>2. QED
    BY <1>4, <1>12, <2>1
<1>14. At(n, left).ref > 1
  BY <1>10, <1>11, <1>13, HeldTwice
<1>15. PICK k : k = pic_rope_decref(n, left)
  OBVIOUS
<1>16. Fine(k, Dec(u, left), g) /\ Grown(n, k)
  BY <1>11, <1>13, <1>14, <1>15, DecrefShared
<1>17. PICK w : w = Inc(z, b)
  OBVIOUS
<1>18. Dec(u, left) = w
  <2>1. w \in Counts /\ u = Inc(w, left)
    BY <1>3, <1>10, <1>11, <1>17, IncIn, IncInc
  <2>2. QED
    BY <2>1, IncDec
<1>19. w \in Counts /\ \A p \in Nat : w[p] = z[p] + One(p = b)
  BY <1>3, <1>10, <1>17, IncIn
<1>20. w[right] >= 1
  <2>1. z[right] \in Nat /\ One(right = b) \in Nat
    BY <1>3 DEF Counts, One
  <2>2. QED
    BY <1>3, <1>19, <2>1
<1>21. At(k, b).right = right
  <2>1. At(n, b) # NoRope
    <3>1. At(n, b).left # Nil
      BY <1>10, NilAssumption
    <3>2. QED
      BY <3>1 DEF NoRope
  <2>2. Alike(At(n, b), At(k, b))
    BY <1>10, <1>16, <2>1, Used1
  <2>3. QED
    BY <1>10, <2>2 DEF Alike
<1>22. At(k, right).ref > 1
  BY <1>10, <1>16, <1>18, <1>20, <1>21, HeldTwice
<1>23. PICK l : l = pic_rope_decref(k, right)
  OBVIOUS
<1>24. Fine(l, Dec(w, right), g) /\ Grown(k, l)
  BY <1>16, <1>18, <1>20, <1>22, <1>23, DecrefShared
<1>25. Dec(w, right) = Inc(x, b)
  <2>1. Inc(x, b) \in Counts /\ w = Inc(Inc(x, b), right)
    BY <1>2, <1>10, <1>17, IncIn, IncInc
  <2>2. QED
    BY <2>1, IncDec
<1>26. Grown(m, l)
  BY <1>10, <1>16, <1>24, GrownTwice
<1>27. PICK j : j = Joined(m, left, right)
  OBVIOUS
<1>28. j = [v EXCEPT !.mem = l]
  BY <1>7, <1>9, <1>15, <1>23, <1>27 DEF Joined
<1>29. j.rope = b /\ j.mem = l
  <2>1. v = [rope |-> v.rope, mem |-> v.mem]
    BY <1>7 DEF make_rope_node, Made
  <2>2. QED
    BY <1>9, <1>28, <2>1
<1>30. Gives(m, x, j)
  BY <1>10, <1>24, <1>25, <1>26, <1>29, GivesIf
<1>31. QED
  BY <1>27, <1>30

(* One more level of slice. *)
Sliced(rest, d) ==
  [c \in Memory \X Nat \X Nat \X Nat |->
     LET n == c[1]  q == c[2]  from == c[3]  to == c[4]
         lweight == n[n[q].left].weight
         left == rest[<< n, n[q].left, from, lweight >>]
         right == rest[<< left.mem, n[q].right, 0, to - lweight >>]
     IN IF d = 0 \/ (from = 0 /\ n[q].weight = to) THEN [rope |-> q, mem |-> pic_rope_incref(n, q)]
        ELSE IF isleaf(n, q) THEN make_rope_slice(n, q, from, to)
        ELSE IF to <= lweight THEN rest[<< n, n[q].left, from, to >>]
        ELSE IF lweight <= from THEN rest[<< n, n[q].right, from - lweight, to - lweight >>]
        ELSE Joined(right.mem, left.rope, right.rope)]

(* The levels of slice exist. *)
LEMMA SlicedExists ==
  ASSUME NEW top \in Nat
  PROVE  \E f : f = [d \in 0 .. top |-> Sliced(f[d - 1], d)]
<1> DEFINE Ok(e, f) == f = [d \in 0 .. e |-> Sliced(f[d - 1], d)]
           A == {e \in 0 .. top : \E f : Ok(e, f)}
<1>1. \A u, v : Sliced(u, 0) = Sliced(v, 0)
  BY DEF Sliced
<1>2. 0 \in A
  <2> DEFINE f == [d \in 0 .. 0 |-> Sliced(0, 0)]
  <2>1. f = [d \in 0 .. 0 |-> f[d]] /\ f[0] = Sliced(0, 0)
    OBVIOUS
  <2>2. \A d \in 0 .. 0 : f[d] = Sliced(f[d - 1], d)
    <3> HIDE DEF f
    <3>1. QED
      BY <1>1, <2>1
  <2> HIDE DEF f
  <2>3. Ok(0, f)
    BY <2>1, <2>2
  <2>4. QED
    BY <2>3
<1>3. \A e \in 1 .. top : e - 1 \in A => e \in A
  <2>1. TAKE e \in 1 .. top
  <2>2. HAVE e - 1 \in A
  <2>3. PICK f : Ok(e - 1, f)
    BY <2>2
  <2>4. f = [d \in 0 .. e - 1 |-> Sliced(f[d - 1], d)]
    BY <2>3
  <2>5. \A d \in 0 .. e - 1 : f[d] = Sliced(f[d - 1], d)
    <3> HIDE <2>3
    <3>1. QED
      BY <2>4
  <2> DEFINE g == [d \in 0 .. e |-> IF d = e THEN Sliced(f[e - 1], e) ELSE f[d]]
  <2>6. g = [d \in 0 .. e |-> g[d]] /\ g[e] = Sliced(f[e - 1], e) /\ \A d \in 0 .. e - 1 : g[d] = f[d]
    OBVIOUS
  <2> HIDE DEF g
  <2>7. \A d \in 0 .. e : g[d] = Sliced(g[d - 1], d)
    <3>1. TAKE d \in 0 .. e
    <3>2. CASE d = 0
      <4>1. 0 \in 0 .. e - 1
        BY <2>1
      <4>2. g[0] = Sliced(f[0 - 1], 0)
        BY <2>5, <2>6, <4>1
      <4>3. Sliced(f[0 - 1], 0) = Sliced(g[0 - 1], 0)
        BY <1>1
      <4>4. QED
        BY <3>2, <4>2, <4>3
    <3>3. CASE d = e
      <4>1. e - 1 \in 0 .. e - 1
        BY <2>1
      <4>2. g[e - 1] = f[e - 1]
        BY <2>6, <4>1
      <4>3. QED
        BY <2>6, <3>3, <4>2
    <3>4. CASE d # 0 /\ d # e
      <4>1. d \in 0 .. e - 1 /\ d - 1 \in 0 .. e - 1
        BY <3>4
      <4>2. g[d] = f[d] /\ g[d - 1] = f[d - 1] /\ f[d] = Sliced(f[d - 1], d)
        BY <2>5, <2>6, <4>1
      <4>3. QED
        BY <4>2
    <3>5. QED
      BY <3>2, <3>3, <3>4
  <2>8. Ok(e, g)
    BY <2>6, <2>7
  <2>9. QED
    BY <2>8
<1>4. top \in A
  <2> HIDE DEF A
  <2>1. \A e \in 0 .. top : e \in A
    BY <1>2, <1>3, UpTo
  <2>2. QED
    BY <2>1
<1>5. QED
  BY <1>4

(* slice is the topmost of its levels. *)
LEMMA SliceIs ==
  ASSUME NEW m, NEW r, NEW i, NEW j, m \in Memory
  PROVE  \E f : /\ slice(m, r, i, j) = f[Len(m)][<< m, r, i, j >>]
                /\ \A d \in 0 .. Len(m) : f[d] = Sliced(f[d - 1], d)
<1>1. Len(m) \in Nat
  BY Dom
<1> DEFINE sliced[d \in 0 .. Len(m)] ==
        [c \in Memory \X Nat \X Nat \X Nat |->
           LET n == c[1]  q == c[2]  from == c[3]  to == c[4]
               lweight == n[n[q].left].weight
               rest == sliced[d - 1]
               left == rest[<< n, n[q].left, from, lweight >>]
               right == rest[<< left.mem, n[q].right, 0, to - lweight >>]
           IN IF d = 0 \/ (from = 0 /\ n[q].weight = to) THEN [rope |-> q, mem |-> pic_rope_incref(n, q)]
              ELSE IF isleaf(n, q) THEN make_rope_slice(n, q, from, to)
              ELSE IF to <= lweight THEN rest[<< n, n[q].left, from, to >>]
              ELSE IF lweight <= from THEN rest[<< n, n[q].right, from - lweight, to - lweight >>]
              ELSE Joined(right.mem, left.rope, right.rope)]
<1>2. slice(m, r, i, j) = sliced[Len(m)][<< m, r, i, j >>]
  BY DEF slice
<1>3. \E f : f = [d \in 0 .. Len(m) |-> Sliced(f[d - 1], d)]
  BY <1>1, SlicedExists
<1>4. sliced = [d \in 0 .. Len(m) |-> Sliced(sliced[d - 1], d)]
  BY <1>3 DEF Sliced
<1> HIDE DEF sliced
<1>5. \A d \in 0 .. Len(m) : sliced[d] = Sliced(sliced[d - 1], d)
  BY <1>4
<1>6. QED
  BY <1>2, <1>5

Between(m, q, i, j) ==
  q \in Nat /\ At(m, q) # NoRope /\ i \in Nat /\ j \in Nat /\ i <= j /\ j <= At(m, q).weight

Slices(f) == \A n, q, i, j, x : OK(n, x) /\ Between(n, q, i, j) => Gives(n, x, f[<< n, q, i, j >>])

(* What a level does, at one rope. *)
LEMMA SlicesUse ==
  ASSUME NEW f, NEW n, NEW q, NEW i, NEW j, NEW x, Slices(f), OK(n, x), Between(n, q, i, j)
  PROVE  Gives(n, x, f[<< n, q, i, j >>])
  BY DEF Slices

Whole(n, q, i, j) == i = 0 /\ At(n, q).weight = j
SameRope(n, q) == [rope |-> q, mem |-> pic_rope_incref(n, q)]

SliceCases(rest, d, n, q, i, j, c, w, e) ==
  /\ d = 0 \/ Whole(n, q, i, j) => e = SameRope(n, q)
  /\ ~ (d = 0 \/ Whole(n, q, i, j)) /\ c.left = Nil => e = make_rope_slice(n, q, i, j)
  /\ ~ (d = 0 \/ Whole(n, q, i, j)) /\ c.left # Nil /\ j <= w => e = rest[<< n, c.left, i, j >>]
  /\ ~ (d = 0 \/ Whole(n, q, i, j)) /\ c.left # Nil /\ ~ (j <= w) /\ w <= i =>
       e = rest[<< n, c.right, i - w, j - w >>]
  /\ ~ (d = 0 \/ Whole(n, q, i, j)) /\ c.left # Nil /\ ~ (j <= w) /\ ~ (w <= i) =>
       \E left, right :
         /\ left = rest[<< n, c.left, i, w >>]
         /\ right = rest[<< left.mem, c.right, 0, j - w >>]
         /\ e = Joined(right.mem, left.rope, right.rope)

(* A level of slice, case by case. *)
LEMMA SlicedAt ==
  ASSUME NEW rest, NEW d, NEW n, NEW q, NEW i, NEW j, NEW c, NEW w, NEW e,
         n \in Memory, q \in Nat, i \in Nat, j \in Nat, c = n[q], At(n, q) = n[q], w = n[c.left].weight,
         e = Sliced(rest, d)[<< n, q, i, j >>]
  PROVE  SliceCases(rest, d, n, q, i, j, c, w, e)
<1>1. << n, q, i, j >> \in Memory \X Nat \X Nat \X Nat
  OBVIOUS
<1>2. PICK left : left = rest[<< n, c.left, i, w >>]
  OBVIOUS
<1>3. PICK right : right = rest[<< left.mem, c.right, 0, j - w >>]
  OBVIOUS
<1>4. e = IF d = 0 \/ (i = 0 /\ n[q].weight = j) THEN [rope |-> q, mem |-> pic_rope_incref(n, q)]
          ELSE IF isleaf(n, q) THEN make_rope_slice(n, q, i, j)
          ELSE IF j <= w THEN rest[<< n, c.left, i, j >>]
          ELSE IF w <= i THEN rest[<< n, c.right, i - w, j - w >>]
          ELSE Joined(right.mem, left.rope, right.rope)
  BY <1>1, <1>2, <1>3 DEF Sliced
<1>5. PICK a : a = (d = 0 \/ Whole(n, q, i, j))
  OBVIOUS
<1>6. e = IF a THEN SameRope(n, q)
          ELSE IF c.left = Nil THEN make_rope_slice(n, q, i, j)
          ELSE IF j <= w THEN rest[<< n, c.left, i, j >>]
          ELSE IF w <= i THEN rest[<< n, c.right, i - w, j - w >>]
          ELSE Joined(right.mem, left.rope, right.rope)
  BY <1>4, <1>5 DEF SameRope, Whole, isleaf
<1>7. /\ a => e = SameRope(n, q)
      /\ ~a /\ c.left = Nil => e = make_rope_slice(n, q, i, j)
      /\ ~a /\ c.left # Nil /\ j <= w => e = rest[<< n, c.left, i, j >>]
      /\ ~a /\ c.left # Nil /\ ~ (j <= w) /\ w <= i => e = rest[<< n, c.right, i - w, j - w >>]
      /\ ~a /\ c.left # Nil /\ ~ (j <= w) /\ ~ (w <= i) => e = Joined(right.mem, left.rope, right.rope)
  BY <1>6
<1>8. \E l, k : /\ l = rest[<< n, c.left, i, w >>] /\ k = rest[<< l.mem, c.right, 0, j - w >>]
                /\ Joined(right.mem, left.rope, right.rope) = Joined(k.mem, l.rope, k.rope)
  BY <1>2, <1>3
<1>9. ASSUME ~a, c.left # Nil, ~ (j <= w), ~ (w <= i)
      PROVE  \E l, k : /\ l = rest[<< n, c.left, i, w >>] /\ k = rest[<< l.mem, c.right, 0, j - w >>]
                       /\ e = Joined(k.mem, l.rope, k.rope)
  BY <1>7, <1>8, <1>9
<1>10. QED
  BY <1>5, <1>7, <1>9 DEF SliceCases

(* A slice that is all of the rope. *)
LEMMA SameGives ==
  ASSUME NEW n, NEW x, NEW q, OK(n, x), q \in Nat, At(n, q) # NoRope
  PROVE  Gives(n, x, SameRope(n, q))
<1>1. PICK h : Fine(n, x, h)
  BY DEF OK
<1>2. Fine(pic_rope_incref(n, q), Inc(x, q), h) /\ Grown(n, pic_rope_incref(n, q))
  BY <1>1, Incref
<1>3. PICK v : v = SameRope(n, q)
  OBVIOUS
<1>4. v.rope = q /\ v.mem = pic_rope_incref(n, q)
  BY <1>3 DEF SameRope
<1>5. Gives(n, x, v)
  BY <1>2, <1>4, GivesIf
<1>6. QED
  BY <1>3, <1>5

(* A constructor after others. *)
LEMMA GrownGives ==
  ASSUME NEW m, NEW n, NEW x, NEW v, Grown(m, n), Gives(n, x, v)
  PROVE  Grown(m, v.mem) /\ v.rope \in Nat /\ OK(v.mem, Inc(x, v.rope))
  BY GrownTwice DEF Gives

(* Every level of slice gives a rope. *)
LEMMA SlicesStep ==
  ASSUME NEW rest, NEW d, d = 0 \/ Slices(rest)
  PROVE  Slices(Sliced(rest, d))
<1>1. SUFFICES ASSUME NEW n, NEW q, NEW i, NEW j, NEW x, OK(n, x), Between(n, q, i, j)
               PROVE  Gives(n, x, Sliced(rest, d)[<< n, q, i, j >>])
  BY DEF Slices
<1>2. PICK h : Fine(n, x, h)
  BY <1>1 DEF OK
<1>3. n \in Memory /\ x \in Counts /\ Exact(n, x) /\ h \in Counts /\ Sound(n, h)
  BY <1>2 DEF Fine
<1>4. q \in Nat /\ At(n, q) # NoRope /\ i \in Nat /\ j \in Nat /\ i <= j /\ j <= At(n, q).weight
  BY <1>1 DEF Between
<1>5. PICK c : c = n[q]
  OBVIOUS
<1>6. At(n, q) = n[q] /\ c = At(n, q)
  BY <1>2, <1>4, <1>5, UsedRef
<1>7. Fits(n, h, q, c) /\ c \in Ropes
  BY <1>3, <1>4, <1>6, AtIn DEF Sound
<1>8. c.left \in Pointer /\ c.right \in Pointer
  BY <1>7, RopeParts
<1>9. PICK w, e : w = n[c.left].weight /\ e = Sliced(rest, d)[<< n, q, i, j >>]
  OBVIOUS
<1>10. SliceCases(rest, d, n, q, i, j, c, w, e)
  BY <1>3, <1>4, <1>5, <1>6, <1>9, SlicedAt
<1>11. CASE d = 0 \/ Whole(n, q, i, j)
  <2>1. e = SameRope(n, q)
    BY <1>10, <1>11 DEF SliceCases
  <2>2. QED
    BY <1>1, <1>4, <1>9, <2>1, SameGives
<1>12. CASE ~ (d = 0 \/ Whole(n, q, i, j)) /\ c.left = Nil
  <2>1. e = make_rope_slice(n, q, i, j)
    BY <1>10, <1>12 DEF SliceCases
  <2>2. Gives(n, x, make_rope_slice(n, q, i, j))
    BY <1>2, <1>4, <1>6, <1>12, Slice
  <2>3. QED
    BY <1>9, <2>1, <2>2
<1>13. CASE ~ (d = 0 \/ Whole(n, q, i, j)) /\ c.left # Nil
  <2>1. Slices(rest)
    BY <1>13
  <2>2. NodeFits(n, h, q, c)
    BY <1>4, <1>6, <1>7, <1>13 DEF Fits
  <2>3. c.left \in Nat /\ c.right \in Nat /\ c.weight = At(n, c.left).weight + At(n, c.right).weight
    BY <1>8, <1>13, <2>2 DEF NodeFits, Pointer
  <2>4. At(n, c.left) # NoRope /\ At(n, c.left) = n[c.left] /\ At(n, c.right) # NoRope
    BY <1>3, <1>4, <1>6, <2>3, Pointed
  <2>5. At(n, c.left) \in Ropes /\ At(n, c.right) \in Ropes
    BY <1>3, AtIn
  <2>6. At(n, c.left).weight = w /\ w \in Nat /\ At(n, c.right).weight \in Nat
    BY <1>9, <2>4, <2>5, RopeParts
  <2>7. j - w <= At(n, c.right).weight
    BY <1>4, <1>6, <2>3, <2>6
  <2>8. CASE j <= w
    <3>1. e = rest[<< n, c.left, i, j >>]
      BY <1>10, <1>13, <2>8 DEF SliceCases
    <3>2. Between(n, c.left, i, j)
      BY <1>4, <2>3, <2>4, <2>6, <2>8 DEF Between
    <3>3. QED
      BY <1>1, <1>9, <2>1, <3>1, <3>2, SlicesUse
  <2>9. CASE ~ (j <= w) /\ w <= i
    <3>1. e = rest[<< n, c.right, i - w, j - w >>]
      BY <1>10, <1>13, <2>9 DEF SliceCases
    <3>2. PICK a, b : a = i - w /\ b = j - w
      OBVIOUS
    <3>3. Between(n, c.right, a, b)
      BY <1>4, <2>3, <2>4, <2>6, <2>7, <2>9, <3>2 DEF Between
    <3>4. e = rest[<< n, c.right, a, b >>]
      BY <3>1, <3>2
    <3>5. QED
      BY <1>1, <1>9, <2>1, <3>3, <3>4, SlicesUse
  <2>10. CASE ~ (j <= w) /\ ~ (w <= i)
    <3>1. PICK left, right :
            /\ left = rest[<< n, c.left, i, w >>]
            /\ right = rest[<< left.mem, c.right, 0, j - w >>]
            /\ e = Joined(right.mem, left.rope, right.rope)
      BY <1>10, <1>13, <2>10 DEF SliceCases
    <3>2. Between(n, c.left, i, w)
      BY <1>4, <2>3, <2>4, <2>6, <2>10 DEF Between
    <3>3. Gives(n, x, left)
      BY <1>1, <2>1, <3>1, <3>2, SlicesUse
    <3>4. PICK l, a : l = left.mem /\ a = left.rope
      OBVIOUS
    <3>5. a \in Nat /\ Grown(n, l) /\ OK(l, Inc(x, a))
      BY <3>3, <3>4 DEF Gives
    <3>6. At(l, c.right) # NoRope /\ Alike(At(n, c.right), At(l, c.right))
      BY <2>3, <2>4, <3>5, Used1
    <3>7. PICK b : b = j - w
      OBVIOUS
    <3>8. Between(l, c.right, 0, b)
      BY <1>4, <2>3, <2>6, <2>7, <2>10, <3>6, <3>7 DEF Between, Alike
    <3>9. right = rest[<< l, c.right, 0, b >>]
      BY <3>1, <3>4, <3>7
    <3>10. Gives(l, Inc(x, a), right)
      BY <2>1, <3>5, <3>8, <3>9, SlicesUse
    <3>11. PICK k, f : k = right.mem /\ f = right.rope
      OBVIOUS
    <3>12. f \in Nat /\ Grown(n, k) /\ OK(k, Inc(Inc(x, a), f))
      BY <3>5, <3>10, <3>11, GrownGives
    <3>13. Gives(k, x, Joined(k, a, f))
      BY <1>3, <3>5, <3>12, JoinedGives
    <3>14. e = Joined(k, a, f)
      BY <3>1, <3>4, <3>11
    <3>15. Gives(k, x, e)
      BY <3>13, <3>14
    <3>16. Gives(n, x, e)
      BY <3>12, <3>15, GrownGives DEF Gives
    <3>17. QED
      BY <1>9, <3>16
  <2>11. QED
    BY <2>8, <2>9, <2>10
<1>14. QED
  BY <1>11, <1>12, <1>13

(* slice gives a rope with one count, and changes no other. *)
LEMMA SliceGives ==
  ASSUME NEW m, NEW x, NEW r, NEW i, NEW j, OK(m, x), Between(m, r, i, j)
  PROVE  Gives(m, x, slice(m, r, i, j))
<1>1. m \in Memory
  BY DEF OK, Fine
<1>2. PICK f : /\ slice(m, r, i, j) = f[Len(m)][<< m, r, i, j >>]
               /\ \A d \in 0 .. Len(m) : f[d] = Sliced(f[d - 1], d)
  BY <1>1, SliceIs
<1>3. Len(m) \in Nat
  BY <1>1, Dom
<1> DEFINE A == {d \in 0 .. Len(m) : Slices(f[d])}
<1>4. 0 \in A
  <2>1. f[0] = Sliced(f[0 - 1], 0)
    BY <1>2, <1>3
  <2>2. PICK rest : rest = f[0 - 1]
    OBVIOUS
  <2>3. Slices(Sliced(rest, 0))
    BY SlicesStep
  <2>4. QED
    BY <1>3, <2>1, <2>2, <2>3
<1>5. \A d \in 1 .. Len(m) : d - 1 \in A => d \in A
  <2>1. TAKE d \in 1 .. Len(m)
  <2>2. HAVE d - 1 \in A
  <2>3. Slices(f[d - 1]) /\ d \in 0 .. Len(m)
    BY <1>3, <2>2
  <2>4. f[d] = Sliced(f[d - 1], d)
    BY <1>2, <2>3
  <2>5. Slices(f[d])
    BY <2>3, <2>4, SlicesStep
  <2>6. QED
    BY <2>3, <2>5
<1>6. Slices(f[Len(m)])
  <2>1. Len(m) \in 0 .. Len(m)
    BY <1>3
  <2>2. \A d \in 0 .. Len(m) : d \in A
    <3> HIDE DEF A
    <3>1. QED
      BY <1>3, <1>4, <1>5, UpTo
  <2>3. QED
    BY <2>1, <2>2
<1>7. QED
  BY <1>2, <1>6, SlicesUse

-----------------------------------------------------------------------------
(* The characters of ropes: any function that agrees with the leaves and    *)
(* the nodes is TextOf.                                                     *)

(* v tells the characters that q stands for, given those of its children. *)
Says(m, v, q) ==
  LET c == At(m, q) IN
  /\ v[q] \in Seq(Char) /\ Len(v[q]) = c.weight
  /\ c.left = Nil => \A p \in 1 .. c.weight : v[q][p] = At(m, c.buf).own[c.off + p]
  /\ c.left # Nil => v[q] = v[c.left] \o v[c.right]

Tells(m, v) == \A q \in Nat : At(m, q) # NoRope => Says(m, v, q)

Under(m, h, q) == {p \in Used(m) : h[p] < h[q]}

(* The ropes lower than q can be counted. *)
LEMMA UnderFinite ==
  ASSUME NEW m, NEW h, NEW q, m \in Memory
  PROVE  /\ IsFiniteSet(Under(m, h, q)) /\ Cardinality(Under(m, h, q)) \in Nat
         /\ Cardinality(Under(m, h, q)) <= Len(m)
<1>1. /\ IsFiniteSet(Used(m)) /\ Cardinality(Used(m)) \in Nat /\ Cardinality(Used(m)) <= Len(m)
  BY UsedFinite
<1>2. Under(m, h, q) \in SUBSET Used(m)
  BY DEF Under
<1>3. IsFiniteSet(Under(m, h, q)) /\ Cardinality(Under(m, h, q)) <= Cardinality(Used(m))
  BY <1>1, <1>2, FS_Subset
<1>4. Cardinality(Under(m, h, q)) \in Nat /\ Len(m) \in Nat
  BY <1>3, FS_CardinalityType, Dom
<1>5. QED
  BY <1>1, <1>3, <1>4

(* Fewer are lower than a lower one. *)
LEMMA UnderLess ==
  ASSUME NEW m, NEW h, NEW q, NEW p, m \in Memory, h \in Counts, p \in Nat, q \in Nat, At(m, p) # NoRope, h[p] < h[q]
  PROVE  Cardinality(Under(m, h, p)) < Cardinality(Under(m, h, q))
<1>1. Under(m, h, p) \in SUBSET Under(m, h, q)
  <2>1. Used(m) \subseteq Nat /\ h[p] \in Nat /\ h[q] \in Nat
    BY UsedFinite DEF Counts
  <2>2. QED
    BY <2>1 DEF Under, Counts
<1>2. p \in Under(m, h, q) /\ p \notin Under(m, h, p)
  <2>1. p \in Used(m)
    BY UsedFinite
  <2>2. ~ (h[p] < h[p])
    BY DEF Counts
  <2>3. QED
    BY <2>1, <2>2 DEF Under
<1>3. /\ IsFiniteSet(Under(m, h, q)) /\ Cardinality(Under(m, h, q)) \in Nat /\ Cardinality(Under(m, h, p)) \in Nat
  BY UnderFinite
<1>4. /\ Cardinality(Under(m, h, p)) <= Cardinality(Under(m, h, q))
      /\ Cardinality(Under(m, h, q)) = Cardinality(Under(m, h, p)) => Under(m, h, q) = Under(m, h, p)
  BY <1>1, <1>3, FS_Subset
<1>5. QED
  BY <1>2, <1>3, <1>4

(* Fewer when ropes go. *)
LEMMA UnderLost ==
  ASSUME NEW m, NEW n, NEW h, NEW q, m \in Memory, n \in Memory, \A p \in Nat : At(n, p) # NoRope => At(m, p) # NoRope
  PROVE  Cardinality(Under(n, h, q)) <= Cardinality(Under(m, h, q))
<1>1. Under(n, h, q) \in SUBSET Under(m, h, q)
  BY UsedFinite DEF Under
<1>2. QED
  BY <1>1, UnderFinite, FS_Subset

(* The children of a node, and the buffer of a leaf. *)
NodeHas(m, h, q, c) ==
  /\ c.left \in Nat /\ c.right \in Nat /\ c.owner = Nil /\ h[c.left] < h[q] /\ h[c.right] < h[q]
  /\ At(m, c.left) # NoRope /\ At(m, c.right) # NoRope
  /\ At(m, c.left) = m[c.left] /\ At(m, c.right) = m[c.right]
  /\ c.weight = At(m, c.left).weight + At(m, c.right).weight
  /\ At(m, c.left).weight \in Nat /\ At(m, c.right).weight \in Nat

(* The children of a node are in use, lower, and as long as it is. *)
LEMMA NodeParts ==
  ASSUME NEW m, NEW x, NEW h, NEW q, Fine(m, x, h), q \in Nat, At(m, q) # NoRope, At(m, q).left # Nil
  PROVE  NodeHas(m, h, q, At(m, q))
<1>0. PICK c : c = At(m, q)
  OBVIOUS
<1>1. m \in Memory /\ x \in Counts /\ Exact(m, x) /\ Sound(m, h)
  BY DEF Fine
<1>2. Fits(m, h, q, c) /\ c \in Ropes
  BY <1>0, <1>1, AtIn DEF Sound
<1>3. NodeFits(m, h, q, c) /\ c.left \in Pointer /\ c.right \in Pointer
  BY <1>0, <1>2, RopeParts DEF Fits
<1>4. c.left \in Nat /\ c.right \in Nat
  BY <1>0, <1>3 DEF NodeFits, Pointer
<1>5. /\ At(m, c.left) # NoRope /\ At(m, c.right) # NoRope
      /\ At(m, c.left) = m[c.left] /\ At(m, c.right) = m[c.right]
  BY <1>0, <1>1, <1>4, Pointed
<1>6. At(m, c.left) \in Ropes /\ At(m, c.right) \in Ropes
  BY <1>1, AtIn
<1>7. At(m, c.left).weight \in Nat /\ At(m, c.right).weight \in Nat
  BY <1>6, RopeParts
<1>8. QED
  BY <1>0, <1>3, <1>4, <1>5, <1>7 DEF NodeFits, NodeHas

LeafHas(m, h, q, c) ==
  /\ c.buf \in Nat /\ At(m, c.buf) # NoRope /\ At(m, c.buf) = m[c.buf] /\ Own(At(m, c.buf))
  /\ At(m, c.buf).buf = c.buf /\ h[c.buf] = 0
  /\ c.owner # Nil => c.buf = c.owner
  /\ c.owner = Nil => c.buf = q
  /\ c.off \in Nat /\ c.weight \in Nat /\ c.off + c.weight <= Len(At(m, c.buf).own)
  /\ At(m, c.buf).own \in Seq(Char)

(* The buffer of a leaf is in use, and long enough. *)
LEMMA LeafParts ==
  ASSUME NEW m, NEW x, NEW h, NEW q, Fine(m, x, h), q \in Nat, At(m, q) # NoRope, At(m, q).left = Nil
  PROVE  LeafHas(m, h, q, At(m, q))
<1>0. PICK c : c = At(m, q)
  OBVIOUS
<1>1. m \in Memory /\ x \in Counts /\ Exact(m, x) /\ Sound(m, h)
  BY DEF Fine
<1>2. PICK o : o = IF At(m, q).owner # Nil THEN At(m, q).owner ELSE q
  OBVIOUS
<1>3. /\ o \in Nat /\ At(m, o) # NoRope /\ Own(At(m, o)) /\ At(m, o).buf = o /\ h[o] = 0
      /\ At(m, q).buf = o /\ At(m, q).off + At(m, q).weight <= Len(At(m, o).own)
  BY <1>2, LeafOwner
<1>4. At(m, o) = m[o]
  BY <1>3, UsedRef
<1>5. c \in Ropes /\ At(m, o) \in Ropes
  BY <1>0, <1>1, AtIn
<1>6. c.off \in Nat /\ c.weight \in Nat /\ At(m, o).own \in Seq(Char)
  BY <1>5, RopeParts
<1>7. QED
  BY <1>0, <1>2, <1>3, <1>4, <1>6 DEF LeafHas

-----------------------------------------------------------------------------
(* One more level of TextOf. *)
Texted(m, rest, d) ==
  [q \in DOMAIN m |->
     IF d = 0 \/ isleaf(m, q) THEN Window(m, q)
     ELSE rest[m[q].left] \o rest[m[q].right]]

(* The levels of TextOf exist. *)
LEMMA TextedExists ==
  ASSUME NEW top \in Nat, NEW m
  PROVE  \E f : f = [d \in 0 .. top |-> Texted(m, f[d - 1], d)]
<1> DEFINE Ok(e, f) == f = [d \in 0 .. e |-> Texted(m, f[d - 1], d)]
           A == {e \in 0 .. top : \E f : Ok(e, f)}
<1>1. \A u, v : Texted(m, u, 0) = Texted(m, v, 0)
  BY DEF Texted
<1>2. 0 \in A
  <2> DEFINE f == [d \in 0 .. 0 |-> Texted(m, 0, 0)]
  <2>1. f = [d \in 0 .. 0 |-> f[d]] /\ f[0] = Texted(m, 0, 0)
    OBVIOUS
  <2>2. \A d \in 0 .. 0 : f[d] = Texted(m, f[d - 1], d)
    <3> HIDE DEF f
    <3>1. QED
      BY <1>1, <2>1
  <2> HIDE DEF f
  <2>3. Ok(0, f)
    BY <2>1, <2>2
  <2>4. QED
    BY <2>3
<1>3. \A e \in 1 .. top : e - 1 \in A => e \in A
  <2>1. TAKE e \in 1 .. top
  <2>2. HAVE e - 1 \in A
  <2>3. PICK f : Ok(e - 1, f)
    BY <2>2
  <2>4. f = [d \in 0 .. e - 1 |-> Texted(m, f[d - 1], d)]
    BY <2>3
  <2>5. \A d \in 0 .. e - 1 : f[d] = Texted(m, f[d - 1], d)
    <3> HIDE <2>3
    <3>1. QED
      BY <2>4
  <2> DEFINE g == [d \in 0 .. e |-> IF d = e THEN Texted(m, f[e - 1], e) ELSE f[d]]
  <2>6. g = [d \in 0 .. e |-> g[d]] /\ g[e] = Texted(m, f[e - 1], e) /\ \A d \in 0 .. e - 1 : g[d] = f[d]
    OBVIOUS
  <2> HIDE DEF g
  <2>7. \A d \in 0 .. e : g[d] = Texted(m, g[d - 1], d)
    <3>1. TAKE d \in 0 .. e
    <3>2. CASE d = 0
      <4>1. 0 \in 0 .. e - 1
        BY <2>1
      <4>2. g[0] = Texted(m, f[0 - 1], 0)
        BY <2>5, <2>6, <4>1
      <4>3. Texted(m, f[0 - 1], 0) = Texted(m, g[0 - 1], 0)
        BY <1>1
      <4>4. QED
        BY <3>2, <4>2, <4>3
    <3>3. CASE d = e
      <4>1. e - 1 \in 0 .. e - 1
        BY <2>1
      <4>2. g[e - 1] = f[e - 1]
        BY <2>6, <4>1
      <4>3. QED
        BY <2>6, <3>3, <4>2
    <3>4. CASE d # 0 /\ d # e
      <4>1. d \in 0 .. e - 1 /\ d - 1 \in 0 .. e - 1
        BY <3>4
      <4>2. g[d] = f[d] /\ g[d - 1] = f[d - 1] /\ f[d] = Texted(m, f[d - 1], d)
        BY <2>5, <2>6, <4>1
      <4>3. QED
        BY <4>2
    <3>5. QED
      BY <3>2, <3>3, <3>4
  <2>8. Ok(e, g)
    BY <2>6, <2>7
  <2>9. QED
    BY <2>8
<1>4. top \in A
  <2> HIDE DEF A
  <2>1. \A e \in 0 .. top : e \in A
    BY <1>2, <1>3, UpTo
  <2>2. QED
    BY <2>1
<1>5. QED
  BY <1>4

(* TextOf is the topmost of its levels. *)
LEMMA TextIs ==
  ASSUME NEW m, m \in Memory
  PROVE  \E f : /\ \A r : TextOf(m, r) = f[Len(m)][r]
                /\ \A d \in 0 .. Len(m) : f[d] = Texted(m, f[d - 1], d)
<1>1. Len(m) \in Nat
  BY Dom
<1> DEFINE text[d \in 0 .. Len(m)] ==
        [q \in DOMAIN m |->
           IF d = 0 \/ isleaf(m, q) THEN Window(m, q)
           ELSE text[d - 1][m[q].left] \o text[d - 1][m[q].right]]
<1>2. \A r : TextOf(m, r) = text[Len(m)][r]
  BY DEF TextOf
<1>3. \E f : f = [d \in 0 .. Len(m) |-> Texted(m, f[d - 1], d)]
  BY <1>1, TextedExists
<1>4. text = [d \in 0 .. Len(m) |-> Texted(m, text[d - 1], d)]
  BY <1>3 DEF Texted
<1> HIDE DEF text
<1>5. \A d \in 0 .. Len(m) : text[d] = Texted(m, text[d - 1], d)
  BY <1>4
<1>6. QED
  BY <1>2, <1>5

(* The characters of a leaf, one by one. *)
LEMMA WindowIs ==
  ASSUME NEW m, NEW x, NEW h, NEW q, Fine(m, x, h), q \in Nat, At(m, q) # NoRope, At(m, q).left = Nil
  PROVE  /\ Window(m, q) \in Seq(Char) /\ Len(Window(m, q)) = At(m, q).weight
         /\ \A p \in 1 .. At(m, q).weight : Window(m, q)[p] = At(m, At(m, q).buf).own[At(m, q).off + p]
<1>1. PICK c : c = At(m, q)
  OBVIOUS
<1>2. /\ c.buf \in Nat /\ At(m, c.buf) # NoRope /\ At(m, c.buf) = m[c.buf]
      /\ c.off \in Nat /\ c.weight \in Nat /\ c.off + c.weight <= Len(At(m, c.buf).own)
      /\ At(m, c.buf).own \in Seq(Char)
  <2>1. LeafHas(m, h, q, c)
    BY <1>1, LeafParts
  <2>2. QED
    BY <2>1 DEF LeafHas
<1>3. c = m[q]
  BY <1>1, UsedRef
<1>4. PICK s, a, b : s = At(m, c.buf).own /\ a = c.off /\ b = c.weight
  OBVIOUS
<1>5. s \in Seq(Char) /\ a \in Nat /\ b \in Nat /\ a + b <= Len(s) /\ Len(s) \in Nat
  BY <1>2, <1>4, LenProperties
<1>6. Window(m, q) = SubSeq(s, a + 1, a + b)
  BY <1>2, <1>3, <1>4 DEF Window
<1>7. /\ SubSeq(s, a + 1, a + b) \in Seq(Char) /\ Len(SubSeq(s, a + 1, a + b)) = b
      /\ \A p \in 1 .. b : SubSeq(s, a + 1, a + b)[p] = s[a + p]
  BY <1>5
<1>8. QED
  BY <1>1, <1>4, <1>6, <1>7

(* Whatever tells the characters of all ropes is the text of each.         *)
LEMMA TellsOnce ==
  ASSUME NEW m, NEW x, NEW h, NEW u, NEW v, Fine(m, x, h), Tells(m, u), Tells(m, v)
  PROVE  \A q \in Nat : At(m, q) # NoRope => u[q] = v[q]
<1> DEFINE A == {n \in Nat : \A q \in Nat : At(m, q) # NoRope /\ h[q] < n => u[q] = v[q]}
<1>1. m \in Memory /\ h \in Counts
  BY DEF Fine
<1>2. \A q \in Nat : h[q] \in Nat
  BY <1>1 DEF Counts
<1>3. 0 \in A
  BY <1>2
<1>4. \A n \in A : n + 1 \in A
  <2>1. TAKE n \in A
  <2>2. SUFFICES ASSUME NEW q \in Nat, At(m, q) # NoRope, h[q] < n + 1 PROVE u[q] = v[q]
    OBVIOUS
  <2>3. Says(m, u, q) /\ Says(m, v, q)
    BY <2>2 DEF Tells
  <2>4. CASE At(m, q).left # Nil
    <3>1. NodeHas(m, h, q, At(m, q))
      BY <2>2, <2>4, NodeParts
    <3>2. PICK a, b : a = At(m, q).left /\ b = At(m, q).right
      OBVIOUS
    <3>3. a \in Nat /\ b \in Nat /\ h[a] < h[q] /\ h[b] < h[q] /\ At(m, a) # NoRope /\ At(m, b) # NoRope
      BY <3>1, <3>2 DEF NodeHas
    <3>4. h[a] < n /\ h[b] < n /\ n \in Nat
      BY <1>2, <2>1, <2>2, <3>3
    <3>5. u[a] = v[a] /\ u[b] = v[b]
      BY <2>1, <3>3, <3>4
    <3>6. QED
      BY <2>3, <2>4, <3>2, <3>5 DEF Says
  <2>5. CASE At(m, q).left = Nil
    <3>1. /\ u[q] \in Seq(Char) /\ v[q] \in Seq(Char) /\ Len(u[q]) = At(m, q).weight /\ Len(v[q]) = At(m, q).weight
          /\ \A p \in 1 .. At(m, q).weight : u[q][p] = v[q][p]
      BY <2>3, <2>5 DEF Says
    <3>2. QED
      BY <3>1, SeqEqual
  <2>6. QED
    BY <2>4, <2>5
<1>5. A = Nat
  <2>1. A \in SUBSET Nat
    OBVIOUS
  <2> HIDE DEF A
  <2>2. QED
    BY <1>3, <1>4, <2>1, NatInd
<1>6. SUFFICES ASSUME NEW q \in Nat, At(m, q) # NoRope PROVE u[q] = v[q]
  OBVIOUS
<1>7. h[q] + 1 \in A /\ h[q] < h[q] + 1
  BY <1>2, <1>5
<1>8. QED
  BY <1>6, <1>7

T(m) == [q \in Nat |-> TextOf(m, q)]

(* TextOf tells the characters of all ropes. *)
LEMMA TextTells ==
  ASSUME NEW m, NEW x, NEW h, Fine(m, x, h)
  PROVE  Tells(m, T(m))
<1>1. m \in Memory /\ h \in Counts
  BY DEF Fine
<1>2. PICK top : top = Len(m) /\ top \in Nat
  BY <1>1, Dom
<1>3. PICK f : /\ \A r : TextOf(m, r) = f[Len(m)][r]
               /\ \A d \in 0 .. Len(m) : f[d] = Texted(m, f[d - 1], d)
  BY <1>1, TextIs
<1>4. \A q \in Nat : h[q] \in Nat
  BY <1>1 DEF Counts
<1>5. ASSUME NEW q \in Nat, At(m, q) # NoRope, At(m, q).left = Nil
      PROVE  \A d \in 0 .. top : f[d][q] = Window(m, q)
  <2>1. TAKE d \in 0 .. top
  <2>2. q \in DOMAIN m /\ At(m, q) = m[q]
    BY <1>5, UsedRef
  <2>3. f[d] = Texted(m, f[d - 1], d)
    BY <1>2, <1>3
  <2>4. QED
    BY <1>5, <2>2, <2>3 DEF Texted, isleaf
<1>6. ASSUME NEW q \in Nat, At(m, q) # NoRope, At(m, q).left # Nil
      PROVE  \A d \in 1 .. top : f[d][q] = f[d - 1][At(m, q).left] \o f[d - 1][At(m, q).right]
  <2>1. TAKE d \in 1 .. top
  <2>2. q \in DOMAIN m /\ At(m, q) = m[q]
    BY <1>6, UsedRef
  <2>3. d \in 0 .. Len(m) /\ d # 0
    BY <1>2
  <2>4. f[d] = Texted(m, f[d - 1], d)
    BY <1>3, <2>3
  <2>5. QED
    BY <1>6, <2>2, <2>3, <2>4 DEF Texted, isleaf
<1> DEFINE B == {d \in 0 .. top : \A q \in Nat : At(m, q) # NoRope /\ Cardinality(Under(m, h, q)) <= d =>
                   \A e \in d .. top : f[e][q] = f[d][q]}
<1>7. 0 \in B
  <2>1. SUFFICES ASSUME NEW q \in Nat, At(m, q) # NoRope, Cardinality(Under(m, h, q)) <= 0, NEW e \in 0 .. top
                 PROVE  f[e][q] = f[0][q]
    BY <1>2
  <2>2. CASE At(m, q).left = Nil
    BY <1>2, <1>5, <2>1, <2>2
  <2>3. CASE At(m, q).left # Nil
    <3>1. NodeHas(m, h, q, At(m, q))
      BY <2>1, <2>3, NodeParts
    <3>2. PICK a : a = At(m, q).left
      OBVIOUS
    <3>3. a \in Nat /\ At(m, a) # NoRope /\ h[a] < h[q]
      BY <3>1, <3>2 DEF NodeHas
    <3>4. Cardinality(Under(m, h, a)) < Cardinality(Under(m, h, q))
      BY <1>1, <3>3, UnderLess
    <3>5. Cardinality(Under(m, h, a)) \in Nat /\ Cardinality(Under(m, h, q)) \in Nat
      BY <1>1, UnderFinite
    <3>6. QED
      BY <2>1, <3>4, <3>5
  <2>4. QED
    BY <2>2, <2>3
<1>8. \A d \in 1 .. top : d - 1 \in B => d \in B
  <2>1. TAKE d \in 1 .. top
  <2>2. HAVE d - 1 \in B
  <2>3. d \in 0 .. top
    BY <1>2
  <2>4. SUFFICES ASSUME NEW q \in Nat, At(m, q) # NoRope, Cardinality(Under(m, h, q)) <= d, NEW e \in d .. top
                 PROVE  f[e][q] = f[d][q]
    BY <2>3
  <2>5. CASE At(m, q).left = Nil
    BY <1>2, <1>5, <2>3, <2>4, <2>5
  <2>6. CASE At(m, q).left # Nil
    <3>1. NodeHas(m, h, q, At(m, q))
      BY <2>4, <2>6, NodeParts
    <3>2. PICK a, b : a = At(m, q).left /\ b = At(m, q).right
      OBVIOUS
    <3>3. a \in Nat /\ b \in Nat /\ h[a] < h[q] /\ h[b] < h[q] /\ At(m, a) # NoRope /\ At(m, b) # NoRope
      BY <3>1, <3>2 DEF NodeHas
    <3>4. Cardinality(Under(m, h, a)) < Cardinality(Under(m, h, q)) /\ Cardinality(Under(m, h, b)) < Cardinality(Under(m, h, q))
      BY <1>1, <3>3, UnderLess
    <3>5. \A p : Cardinality(Under(m, h, p)) \in Nat
      BY <1>1, UnderFinite
    <3>6. Cardinality(Under(m, h, a)) <= d - 1 /\ Cardinality(Under(m, h, b)) <= d - 1
      BY <2>4, <3>4, <3>5
    <3>7. e \in 1 .. top /\ e - 1 \in d - 1 .. top
      BY <1>2, <2>4
    <3>8. f[e - 1][a] = f[d - 1][a] /\ f[e - 1][b] = f[d - 1][b]
      BY <2>2, <3>3, <3>6, <3>7
    <3>9. f[e][q] = f[e - 1][a] \o f[e - 1][b] /\ f[d][q] = f[d - 1][a] \o f[d - 1][b]
      BY <1>6, <2>4, <2>6, <3>2, <3>7
    <3>10. QED
      BY <3>8, <3>9
  <2>7. QED
    BY <2>5, <2>6
<1>9. \A d \in 0 .. top : d \in B
  <2> HIDE DEF B
  <2>1. QED
    BY <1>2, <1>7, <1>8, UpTo
<1>10. \A q \in Nat : T(m)[q] = f[top][q]
  BY <1>2, <1>3 DEF T
<1> DEFINE D == {n \in Nat : \A q \in Nat : At(m, q) # NoRope /\ h[q] < n => Says(m, T(m), q)}
<1>11. 0 \in D
  BY <1>4
<1>12. \A n \in D : n + 1 \in D
  <2>1. TAKE n \in D
  <2>2. SUFFICES ASSUME NEW q \in Nat, At(m, q) # NoRope, h[q] < n + 1 PROVE Says(m, T(m), q)
    OBVIOUS
  <2>3. CASE At(m, q).left = Nil
    <3>1. T(m)[q] = Window(m, q)
      BY <1>2, <1>5, <1>10, <2>2, <2>3
    <3>2. /\ Window(m, q) \in Seq(Char) /\ Len(Window(m, q)) = At(m, q).weight
          /\ \A p \in 1 .. At(m, q).weight : Window(m, q)[p] = At(m, At(m, q).buf).own[At(m, q).off + p]
      BY <2>2, <2>3, WindowIs
    <3>3. QED
      BY <2>3, <3>1, <3>2 DEF Says
  <2>4. CASE At(m, q).left # Nil
    <3>1. NodeHas(m, h, q, At(m, q))
      BY <2>2, <2>4, NodeParts
    <3>2. PICK a, b : a = At(m, q).left /\ b = At(m, q).right
      OBVIOUS
    <3>3. /\ a \in Nat /\ b \in Nat /\ h[a] < h[q] /\ h[b] < h[q] /\ At(m, a) # NoRope /\ At(m, b) # NoRope
          /\ At(m, q).weight = At(m, a).weight + At(m, b).weight
      BY <3>1, <3>2 DEF NodeHas
    <3>4. Cardinality(Under(m, h, a)) < Cardinality(Under(m, h, q)) /\ Cardinality(Under(m, h, b)) < Cardinality(Under(m, h, q))
      BY <1>1, <3>3, UnderLess
    <3>5. \A p : Cardinality(Under(m, h, p)) \in Nat /\ Cardinality(Under(m, h, p)) <= top
      BY <1>1, <1>2, UnderFinite
    <3>6. Cardinality(Under(m, h, a)) \in Nat /\ Cardinality(Under(m, h, b)) \in Nat
          /\ Cardinality(Under(m, h, q)) \in Nat /\ Cardinality(Under(m, h, q)) <= top
      BY <3>5
    <3>7. Cardinality(Under(m, h, a)) <= top - 1 /\ Cardinality(Under(m, h, b)) <= top - 1 /\ top \in 1 .. top
          /\ top - 1 \in 0 .. top /\ top \in top - 1 .. top
      BY <1>2, <3>4, <3>6
    <3>8. top - 1 \in B
      BY <1>9, <3>7
    <3>9. f[top][a] = f[top - 1][a] /\ f[top][b] = f[top - 1][b]
      BY <3>3, <3>7, <3>8
    <3>10. f[top][q] = f[top - 1][a] \o f[top - 1][b]
      BY <1>6, <2>2, <2>4, <3>2, <3>7
    <3>11. T(m)[q] = T(m)[a] \o T(m)[b]
      BY <1>10, <3>3, <3>9, <3>10
    <3>12. h[a] < n /\ h[b] < n /\ n \in Nat
      BY <1>4, <2>1, <2>2, <3>3
    <3>13. Says(m, T(m), a) /\ Says(m, T(m), b)
      BY <2>1, <3>3, <3>12
    <3>14. /\ T(m)[a] \in Seq(Char) /\ T(m)[b] \in Seq(Char)
           /\ Len(T(m)[a]) = At(m, a).weight /\ Len(T(m)[b]) = At(m, b).weight
      BY <3>13 DEF Says
    <3>15. T(m)[q] \in Seq(Char) /\ Len(T(m)[q]) = At(m, q).weight
      <4>1. PICK s, t : s = T(m)[a] /\ t = T(m)[b]
        OBVIOUS
      <4>2. s \in Seq(Char) /\ t \in Seq(Char) /\ Len(s) = At(m, a).weight /\ Len(t) = At(m, b).weight
        BY <3>14, <4>1
      <4>3. s \o t \in Seq(Char) /\ Len(s \o t) = Len(s) + Len(t)
        BY <4>2, ConcatProperties
      <4>4. T(m)[q] = s \o t
        BY <3>11, <4>1
      <4>5. QED
        BY <3>3, <4>2, <4>3, <4>4
    <3>16. QED
      BY <2>4, <3>2, <3>11, <3>15 DEF Says
  <2>5. QED
    BY <2>3, <2>4
<1>13. D = Nat
  <2>1. D \in SUBSET Nat
    OBVIOUS
  <2> HIDE DEF D
  <2>2. QED
    BY <1>11, <1>12, <2>1, NatInd
<1>14. SUFFICES ASSUME NEW q \in Nat, At(m, q) # NoRope PROVE Says(m, T(m), q)
  BY DEF Tells
<1>15. h[q] + 1 \in D /\ h[q] < h[q] + 1
  BY <1>4, <1>13
<1>16. QED
  BY <1>14, <1>15

(* The text of a rope in two memories where what is in both is alike.      *)
Kept(m, n) == \A p \in Nat : At(m, p) # NoRope /\ At(n, p) # NoRope => Alike(At(m, p), At(n, p))

(* The text of a rope in two memories where what is in both is alike. *)
LEMMA TextKept ==
  ASSUME NEW m, NEW n, NEW x, NEW y, NEW g, NEW h, NEW r, Fine(m, x, g), Fine(n, y, h), Kept(m, n), r \in Nat,
         At(m, r) # NoRope, At(n, r) # NoRope
  PROVE  TextOf(n, r) = TextOf(m, r)
<1> DEFINE A == {k \in Nat : \A q \in Nat : At(m, q) # NoRope /\ At(n, q) # NoRope /\ h[q] < k => T(n)[q] = T(m)[q]}
<1>1. n \in Memory /\ h \in Counts
  BY DEF Fine
<1>2. \A q \in Nat : h[q] \in Nat
  BY <1>1 DEF Counts
<1>3. 0 \in A
  BY <1>2
<1>4. Tells(m, T(m)) /\ Tells(n, T(n))
  BY TextTells
<1>5. \A k \in A : k + 1 \in A
  <2>1. TAKE k \in A
  <2>2. SUFFICES ASSUME NEW q \in Nat, At(m, q) # NoRope, At(n, q) # NoRope, h[q] < k + 1 PROVE T(n)[q] = T(m)[q]
    OBVIOUS
  <2>3. Says(m, T(m), q) /\ Says(n, T(n), q)
    BY <1>4, <2>2 DEF Tells
  <2>4. Alike(At(m, q), At(n, q))
    BY <2>2 DEF Kept
  <2>5. CASE At(n, q).left # Nil
    <3>1. NodeHas(n, h, q, At(n, q))
      BY <2>2, <2>5, NodeParts
    <3>2. At(m, q).left # Nil
      BY <2>4, <2>5 DEF Alike
    <3>3. NodeHas(m, g, q, At(m, q))
      BY <2>2, <3>2, NodeParts
    <3>4. PICK a, b : a = At(n, q).left /\ b = At(n, q).right
      OBVIOUS
    <3>5. a = At(m, q).left /\ b = At(m, q).right
      BY <2>4, <3>4 DEF Alike
    <3>6. a \in Nat /\ b \in Nat /\ h[a] < h[q] /\ h[b] < h[q] /\ At(n, a) # NoRope /\ At(n, b) # NoRope
      BY <3>1, <3>4 DEF NodeHas
    <3>7. At(m, a) # NoRope /\ At(m, b) # NoRope
      BY <3>3, <3>5 DEF NodeHas
    <3>8. h[a] < k /\ h[b] < k /\ k \in Nat
      BY <1>2, <2>1, <2>2, <3>6
    <3>9. T(n)[a] = T(m)[a] /\ T(n)[b] = T(m)[b]
      BY <2>1, <3>6, <3>7, <3>8
    <3>10. QED
      BY <2>3, <2>5, <3>2, <3>4, <3>5, <3>9 DEF Says
  <2>6. CASE At(n, q).left = Nil
    <3>1. LeafHas(n, h, q, At(n, q))
      BY <2>2, <2>6, LeafParts
    <3>2. At(m, q).left = Nil
      BY <2>4, <2>6 DEF Alike
    <3>3. LeafHas(m, g, q, At(m, q))
      BY <2>2, <3>2, LeafParts
    <3>4. PICK b : b = At(n, q).buf
      OBVIOUS
    <3>5. b = At(m, q).buf
      BY <2>4, <3>4 DEF Alike
    <3>6. b \in Nat /\ At(n, b) # NoRope /\ At(m, b) # NoRope
      BY <3>1, <3>3, <3>4, <3>5 DEF LeafHas
    <3>7. At(n, b).own = At(m, b).own
      BY <3>6 DEF Kept, Alike
    <3>8. At(n, q).off = At(m, q).off /\ At(n, q).weight = At(m, q).weight
      BY <2>4 DEF Alike
    <3>9. /\ T(m)[q] \in Seq(Char) /\ Len(T(m)[q]) = At(m, q).weight
          /\ \A p \in 1 .. At(m, q).weight : T(m)[q][p] = At(m, b).own[At(m, q).off + p]
      BY <2>3, <3>2, <3>5 DEF Says
    <3>10. /\ T(n)[q] \in Seq(Char) /\ Len(T(n)[q]) = At(m, q).weight
           /\ \A p \in 1 .. At(m, q).weight : T(n)[q][p] = At(m, b).own[At(m, q).off + p]
      BY <2>3, <2>6, <3>4, <3>7, <3>8 DEF Says
    <3>11. QED
      <4>1. \A p \in 1 .. Len(T(m)[q]) : T(n)[q][p] = T(m)[q][p]
        BY <3>9, <3>10
      <4>2. Len(T(n)[q]) = Len(T(m)[q])
        BY <3>9, <3>10
      <4>3. QED
        BY <3>9, <3>10, <4>1, <4>2, SeqEqual
  <2>7. QED
    BY <2>5, <2>6
<1>6. A = Nat
  <2>1. A \in SUBSET Nat
    OBVIOUS
  <2> HIDE DEF A
  <2>2. QED
    BY <1>3, <1>5, <2>1, NatInd
<1>7. h[r] + 1 \in A /\ h[r] < h[r] + 1
  BY <1>2, <1>6
<1>8. T(n)[r] = T(m)[r]
  BY <1>7
<1>9. QED
  BY <1>8 DEF T

-----------------------------------------------------------------------------
(* pic_str: o is filled from its start on, with what the ropes say. *)

NoNode(m, o) == \A q \in Nat : At(m, q).left # o /\ At(m, q).right # o

(* While o is being filled, up to at: windows on it lie before that. *)
Filling(m, x, h, v, o, at) ==
  /\ Fine(m, x, h) /\ o \in Nat /\ x[o] >= 1 /\ Own(At(m, o)) /\ NoNode(m, o)
  /\ \A q \in Nat : q # o /\ At(m, q) # NoRope => Says(m, v, q)
  /\ \A q \in Nat : At(m, q).owner = o => At(m, q).off + At(m, q).weight <= at

Stays(n, k) ==
  \A p \in Nat : At(k, p) # NoRope =>
    /\ At(n, p) # NoRope /\ At(k, p).weight = At(n, p).weight
    /\ Own(At(n, p)) => Own(At(k, p))

(* Buffers and weights stay, twice. *)
LEMMA StaysTwice ==
  ASSUME NEW m, NEW n, NEW k, Stays(m, n), Stays(n, k)
  PROVE  Stays(m, k)
  BY DEF Stays

(* They do where ropes are lost. *)
LEMMA LostStays ==
  ASSUME NEW m, NEW n, Lost(m, n)
  PROVE  Stays(m, n)
  BY DEF Lost, Stays, Alike, Own

(* A rope with its own characters. *)
LEMMA OwnHas ==
  ASSUME NEW m, NEW x, NEW h, NEW o, Fine(m, x, h), o \in Nat, Own(At(m, o))
  PROVE  /\ At(m, o) # NoRope /\ At(m, o) = m[o] /\ o \in DOMAIN m /\ At(m, o).owner = Nil /\ At(m, o).left = Nil
         /\ At(m, o).right = Nil /\ At(m, o).buf = o /\ At(m, o).off = 0 /\ At(m, o).weight <= Len(At(m, o).own)
         /\ h[o] = 0 /\ At(m, o).own \in Seq(Char) /\ At(m, o).ref >= 1
<1>1. m \in Memory /\ Sound(m, h)
  BY DEF Fine
<1>2. At(m, o) # NoRope /\ At(m, o).owner = Nil /\ At(m, o).left = Nil
  BY DEF Own
<1>3. o \in DOMAIN m /\ At(m, o) = m[o] /\ At(m, o).ref >= 1
  BY <1>2, UsedRef
<1>4. Fits(m, h, o, At(m, o))
  BY <1>1 DEF Sound
<1>5. At(m, o).right = Nil /\ OwnFits(h, o, At(m, o))
  BY <1>2, <1>4 DEF Fits
<1>6. At(m, o) \in Ropes
  BY <1>1, AtIn
<1>7. At(m, o).own \in Seq(Char)
  BY <1>6, RopeParts
<1>8. QED
  BY <1>2, <1>3, <1>5, <1>7 DEF OwnFits

(* pic_rope_decref while o is filled. *)
LEMMA FillingDecref ==
  ASSUME NEW m, NEW x, NEW h, NEW v, NEW o, NEW at, NEW r, NEW k, Filling(m, x, h, v, o, at), r \in Nat, x[r] >= 1,
         Dec(x, r)[o] >= 1, k = pic_rope_decref(m, r)
  PROVE  /\ Filling(k, Dec(x, r), h, v, o, at) /\ At(k, o).own = At(m, o).own /\ Lost(m, k) /\ Low(m, k, h, r)
<1>1. /\ Fine(m, x, h) /\ o \in Nat /\ Own(At(m, o)) /\ NoNode(m, o)
      /\ \A q \in Nat : q # o /\ At(m, q) # NoRope => Says(m, v, q)
      /\ \A q \in Nat : At(m, q).owner = o => At(m, q).off + At(m, q).weight <= at
  BY DEF Filling
<1>2. Fine(k, Dec(x, r), h) /\ Lost(m, k) /\ Low(m, k, h, r)
  BY <1>1, Decref
<1>3. k \in Memory /\ Dec(x, r) \in Counts /\ Exact(k, Dec(x, r))
  BY <1>2 DEF Fine
<1>4. At(k, o) # NoRope
  BY <1>1, <1>3, Counted
<1>5. Alike(At(m, o), At(k, o))
  BY <1>1, <1>2, <1>4 DEF Lost
<1>6. Own(At(k, o)) /\ At(k, o).own = At(m, o).own
  BY <1>1, <1>4, <1>5 DEF Own, Alike
<1>7. \A q \in Nat : At(k, q) = NoRope \/ Alike(At(m, q), At(k, q))
  BY <1>2 DEF Lost
<1>8. NoRope.left = Nil /\ NoRope.right = Nil /\ NoRope.owner = Nil /\ o # Nil
  BY <1>1, NilAssumption DEF NoRope
<1>9. NoNode(k, o)
  BY <1>1, <1>7, <1>8 DEF NoNode, Alike
<1>10. \A q \in Nat : At(k, q).owner = o => At(k, q).off + At(k, q).weight <= at
  BY <1>1, <1>7, <1>8 DEF Alike
<1>11. ASSUME NEW q \in Nat, q # o, At(k, q) # NoRope PROVE Says(k, v, q)
  <2>1. At(m, q) # NoRope /\ Alike(At(m, q), At(k, q))
    BY <1>2, <1>11 DEF Lost
  <2>2. Says(m, v, q)
    BY <1>1, <1>11, <2>1
  <2>3. CASE At(k, q).left # Nil
    BY <2>1, <2>2, <2>3 DEF Says, Alike
  <2>4. CASE At(k, q).left = Nil
    <3>1. LeafHas(k, h, q, At(k, q))
      BY <1>2, <1>11, <2>4, LeafParts
    <3>2. PICK b : b = At(k, q).buf
      OBVIOUS
    <3>3. b \in Nat /\ At(k, b) # NoRope
      BY <3>1, <3>2 DEF LeafHas
    <3>4. At(k, b).own = At(m, b).own
      BY <1>7, <3>3 DEF Alike
    <3>5. QED
      BY <2>1, <2>2, <2>4, <3>2, <3>4 DEF Says, Alike
  <2>5. QED
    BY <2>3, <2>4
<1>12. QED
  BY <1>1, <1>2, <1>6, <1>9, <1>10, <1>11 DEF Filling

-----------------------------------------------------------------------------
(* memcpy *)
Written(s, t, w, at) == [k \in DOMAIN s |-> IF k \in at + 1 .. at + w THEN t[k - at] ELSE s[k]]

Wrote(s, t, w, at, f) ==
  /\ f \in Seq(Char) /\ Len(f) = Len(s)
  /\ \A p \in 1 .. at : f[p] = s[p]
  /\ \A p \in 1 .. w : f[at + p] = t[p]

(* The characters after memcpy. *)
LEMMA WrittenIs ==
  ASSUME NEW s, NEW t, NEW w, NEW at, s \in Seq(Char), t \in Seq(Char), Len(t) = w, w \in Nat, at \in Nat,
         at + w <= Len(s)
  PROVE  Wrote(s, t, w, at, Written(s, t, w, at))
<1>1. Len(s) \in Nat /\ DOMAIN s = 1 .. Len(s) /\ DOMAIN t = 1 .. w /\ \A p \in 1 .. Len(s) : s[p] \in Char
  BY LenProperties
<1>2. \A p \in 1 .. w : t[p] \in Char
  BY <1>1
<1> DEFINE f == Written(s, t, w, at)
<1>3. f = [k \in 1 .. Len(s) |-> IF k \in at + 1 .. at + w THEN t[k - at] ELSE s[k]]
  BY <1>1 DEF Written
<1>4. \A k \in 1 .. Len(s) : f[k] = IF k \in at + 1 .. at + w THEN t[k - at] ELSE s[k]
  BY <1>3
<1>5. \A k \in 1 .. Len(s) : f[k] \in Char
  <2>1. TAKE k \in 1 .. Len(s)
  <2>2. CASE k \in at + 1 .. at + w
    <3>1. k - at \in 1 .. w
      BY <1>1, <2>2
    <3>2. QED
      BY <1>2, <1>4, <2>2, <3>1
  <2>3. CASE k \notin at + 1 .. at + w
    BY <1>1, <1>4, <2>3
  <2>4. QED
    BY <2>2, <2>3
<1>6. f \in [1 .. Len(s) -> Char]
  BY <1>3, <1>5
<1>7. f \in Seq(Char) /\ Len(f) = Len(s)
  BY <1>1, <1>6
<1>8. \A p \in 1 .. at : f[p] = s[p]
  BY <1>1, <1>4
<1>9. \A p \in 1 .. w : f[at + p] = t[p]
  <2>1. TAKE p \in 1 .. w
  <2>2. at + p \in 1 .. Len(s) /\ at + p \in at + 1 .. at + w /\ (at + p) - at = p
    BY <1>1
  <2>3. f[at + p] = t[(at + p) - at]
    BY <1>4, <2>2
  <2>4. QED
    BY <2>2, <2>3
<1>10. QED
  BY <1>7, <1>8, <1>9 DEF Wrote

Holds(k, n, v, o, q, at, w) ==
  /\ Len(At(k, o).own) = Len(At(n, o).own)
  /\ \A p \in 1 .. at : At(k, o).own[p] = At(n, o).own[p]
  /\ \A p \in 1 .. w : At(k, o).own[at + p] = v[q][p]

Filled(n, k, x, h, v, o, q, at, w) ==
  Filling(k, x, h, v, o, at + w) /\ Low(n, k, h, q) /\ Stays(n, k) /\ Holds(k, n, v, o, q, at, w)

WithOwn(c, s) == [c EXCEPT !.own = s]

(* A rope with other characters. *)
LEMMA WithOwnIs ==
  ASSUME NEW c, NEW s, c \in Ropes, s \in Seq(Char)
  PROVE  /\ WithOwn(c, s) \in Ropes /\ WithOwn(c, s).own = s /\ WithOwn(c, s).ref = c.ref
         /\ WithOwn(c, s).weight = c.weight /\ WithOwn(c, s).owner = c.owner /\ WithOwn(c, s).buf = c.buf
         /\ WithOwn(c, s).off = c.off /\ WithOwn(c, s).left = c.left /\ WithOwn(c, s).right = c.right
  BY DEF WithOwn, Ropes

(* memcpy of a leaf fills o with its characters, also where the leaf is a   *)
(* window on o already.                                                     *)
LEMMA CopiedFills ==
  ASSUME NEW n, NEW x, NEW h, NEW v, NEW o, NEW at, NEW q, NEW w, NEW k, Filling(n, x, h, v, o, at), q \in Nat, q # o,
         At(n, q) # NoRope, At(n, q).left = Nil, w = At(n, q).weight, at \in Nat, at + w <= Len(At(n, o).own),
         k = Copied(n, q, o, at)
  PROVE  Filled(n, k, x, h, v, o, q, at, w)
<1>1. /\ Fine(n, x, h) /\ o \in Nat /\ x[o] >= 1 /\ Own(At(n, o)) /\ NoNode(n, o)
      /\ \A p \in Nat : p # o /\ At(n, p) # NoRope => Says(n, v, p)
      /\ \A p \in Nat : At(n, p).owner = o => At(n, p).off + At(n, p).weight <= at
  BY DEF Filling
<1>2. n \in Memory /\ x \in Counts /\ Exact(n, x) /\ h \in Counts /\ Sound(n, h)
  BY <1>1 DEF Fine
<1>3. /\ At(n, o) # NoRope /\ At(n, o) = n[o] /\ o \in DOMAIN n /\ At(n, o).owner = Nil /\ At(n, o).left = Nil
      /\ At(n, o).right = Nil /\ At(n, o).buf = o /\ At(n, o).off = 0 /\ At(n, o).weight <= Len(At(n, o).own)
      /\ h[o] = 0 /\ At(n, o).own \in Seq(Char) /\ At(n, o).ref >= 1
  BY <1>1, OwnHas
<1>4. At(n, q) = n[q] /\ At(n, q) \in Ropes /\ At(n, o) \in Ropes
  BY <1>1, <1>2, UsedRef, AtIn
<1>5. w \in Nat
  BY <1>4, RopeParts
<1>6. PICK s, t : s = At(n, o).own /\ t = Window(n, q)
  OBVIOUS
<1>7. /\ t \in Seq(Char) /\ Len(t) = w
      /\ \A p \in 1 .. w : t[p] = At(n, At(n, q).buf).own[At(n, q).off + p]
  BY <1>1, <1>6, WindowIs
<1>8. PICK f : f = Written(s, t, w, at)
  OBVIOUS
<1>9. s \in Seq(Char) /\ at + w <= Len(s)
  BY <1>3, <1>6
<1>10. /\ f \in Seq(Char) /\ Len(f) = Len(s) /\ \A p \in 1 .. at : f[p] = s[p]
       /\ \A p \in 1 .. w : f[at + p] = t[p]
  <2>1. Len(t) = w /\ t \in Seq(Char)
    BY <1>7
  <2>2. Wrote(s, t, w, at, f)
    BY <1>5, <2>1, <1>8, <1>9, WrittenIs
  <2>3. QED
    BY <2>2 DEF Wrote
<1>11. PICK c : c = WithOwn(At(n, o), f)
  OBVIOUS
<1>12. /\ c \in Ropes /\ c.own = f /\ c.ref = At(n, o).ref /\ c.weight = At(n, o).weight /\ c.owner = At(n, o).owner
       /\ c.buf = At(n, o).buf /\ c.off = At(n, o).off /\ c.left = At(n, o).left /\ c.right = At(n, o).right
  BY <1>4, <1>10, <1>11, WithOwnIs
<1>13. k = Put(n, o, c)
  BY <1>3, <1>4, <1>6, <1>8, <1>11 DEF Copied, Put, Written, WithOwn
<1>14. Set(n, k, o, c)
  BY <1>2, <1>3, <1>12, <1>13, PutSet
<1>15. c # NoRope /\ Own(c)
  <2>1. c # NoRope
    BY <1>3, <1>12 DEF NoRope
  <2>2. QED
    BY <1>3, <1>12, <2>1 DEF Own
<1>16. Sound(k, h)
  <2>1. Serves(At(n, o), c)
    BY <1>6, <1>10, <1>12, <1>15 DEF Serves
  <2>2. Fits(k, h, o, c)
    BY <1>3, <1>6, <1>10, <1>12 DEF Fits, OwnFits
  <2>3. QED
    BY <1>1, <1>2, <1>14, <2>1, <2>2, SoundSet
<1>17. Exact(k, x)
  <2>1. \A p : Held(c, p) = Held(At(n, o), p)
    BY <1>12 DEF Held
  <2>2. At(n, o).ref = x[o] + Inner(n, o)
    BY <1>1, <1>2 DEF Exact
  <2>3. Moves(n, o, c, x, x)
    BY <1>12, <2>1, <2>2 DEF Moves
  <2>4. QED
    BY <1>1, <1>2, <1>14, <2>3, ExactSet
<1>18. Fine(k, x, h)
  BY <1>2, <1>14, <1>16, <1>17 DEF Fine, Set
<1>19. At(k, o) = c /\ \A p \in Nat : p # o => At(k, p) = At(n, p)
  BY <1>14 DEF Set
<1>20. NoNode(k, o)
  BY <1>1, <1>3, <1>12, <1>19, NilAssumption DEF NoNode
<1>21. \A p \in Nat : At(k, p).owner = o => At(k, p).off + At(k, p).weight <= at + w
  <2>1. SUFFICES ASSUME NEW p \in Nat, At(k, p).owner = o PROVE At(k, p).off + At(k, p).weight <= at + w
    OBVIOUS
  <2>2. p # o
    BY <1>1, <1>3, <1>12, <1>19, <2>1, NilAssumption
  <2>3. At(k, p) = At(n, p) /\ At(n, p).off + At(n, p).weight <= at
    BY <1>1, <1>19, <2>1, <2>2
  <2>4. At(n, p) \in Ropes
    BY <1>2, AtIn
  <2>5. At(n, p).off \in Nat /\ At(n, p).weight \in Nat
    BY <2>4, RopeParts
  <2>6. QED
    BY <1>5, <2>3, <2>5
<1>22. ASSUME NEW p \in Nat, p # o, At(k, p) # NoRope PROVE Says(k, v, p)
  <2>1. At(k, p) = At(n, p) /\ Says(n, v, p)
    BY <1>1, <1>19, <1>22
  <2>2. CASE At(n, p).left # Nil
    BY <2>1, <2>2 DEF Says
  <2>3. CASE At(n, p).left = Nil
    <3>1. LeafHas(n, h, p, At(n, p))
      BY <1>1, <1>22, <2>1, <2>3, LeafParts
    <3>2. PICK b : b = At(n, p).buf
      OBVIOUS
    <3>3. b \in Nat /\ At(n, p).off \in Nat /\ At(n, p).weight \in Nat
          /\ (At(n, p).owner # Nil => b = At(n, p).owner) /\ (At(n, p).owner = Nil => b = p)
      BY <3>1, <3>2 DEF LeafHas
    <3>4. CASE b # o
      <4>1. At(k, b) = At(n, b)
        BY <1>19, <3>3, <3>4
      <4>2. QED
        BY <2>1, <2>3, <3>2, <4>1 DEF Says
    <3>5. CASE b = o
      <4>1. At(n, p).owner = o
        BY <1>22, <3>3, <3>5
      <4>2. At(n, p).off + At(n, p).weight <= at
        BY <1>1, <4>1
      <4>3. \A i \in 1 .. At(n, p).weight : At(n, p).off + i \in 1 .. at
        BY <3>3, <4>2
      <4>4. \A i \in 1 .. At(n, p).weight : f[At(n, p).off + i] = s[At(n, p).off + i]
        BY <1>10, <4>3
      <4>5. At(k, b).own = f /\ At(n, b).own = s
        BY <1>6, <1>12, <1>19, <3>5
      <4>6. QED
        BY <2>1, <2>3, <3>2, <4>4, <4>5 DEF Says
    <3>6. QED
      BY <3>4, <3>5
  <2>4. QED
    BY <2>2, <2>3
<1>23. Filling(k, x, h, v, o, at + w)
  BY <1>1, <1>15, <1>18, <1>19, <1>20, <1>21, <1>22 DEF Filling
<1>24. Low(n, k, h, q)
  <2>1. SUFFICES ASSUME NEW p \in Nat, h[p] > h[q] PROVE At(k, p) = At(n, p)
    BY DEF Low
  <2>2. p # o
    <3>1. h[q] \in Nat /\ h[p] \in Nat
      BY <1>2 DEF Counts
    <3>2. QED
      BY <1>3, <2>1, <3>1
  <2>3. QED
    BY <1>19, <2>2
<1>25. Stays(n, k)
  BY <1>1, <1>3, <1>12, <1>15, <1>19 DEF Stays
<1>26. Holds(k, n, v, o, q, at, w)
  <2>1. At(k, o).own = f /\ At(n, o).own = s
    BY <1>6, <1>12, <1>19
  <2>2. Says(n, v, q)
    BY <1>1
  <2>3. \A p \in 1 .. w : v[q][p] = At(n, At(n, q).buf).own[At(n, q).off + p]
    BY <2>2 DEF Says
  <2>4. QED
    BY <1>7, <1>10, <2>1, <2>3 DEF Holds
<1>27. QED
  BY <1>23, <1>24, <1>25, <1>26 DEF Filled

Ends(e, at, w) == e = at + w
HasRoom(m, o, at, w) == at + w <= Len(At(m, o).own)
Told(m, v, o, q, at, w) == \A p \in 1 .. w : At(m, o).own[at + p] = v[q][p]

(* A node that becomes a window on o, given n1, where o has one more pointer. *)
Flat(c, o, at) == [Leaf(o, at, c.weight, o, << >>) EXCEPT !.ref = c.ref]

(* The fields of a node that becomes a window on o. *)
LEMMA FlatIs ==
  ASSUME NEW c, NEW o, NEW at, c \in Ropes, o \in Nat, at \in Nat
  PROVE  /\ Flat(c, o, at) \in Ropes /\ Flat(c, o, at).ref = c.ref /\ Flat(c, o, at).weight = c.weight
         /\ Flat(c, o, at).owner = o /\ Flat(c, o, at).buf = o /\ Flat(c, o, at).off = at
         /\ Flat(c, o, at).left = Nil /\ Flat(c, o, at).right = Nil
<1>1. << >> \in Seq(Char) /\ c.weight \in Nat /\ c.ref \in Nat
  BY RopeParts
<1>2. QED
  BY <1>1 DEF Flat, Leaf, Ropes, Pointer

(* It may, where it ends within o's characters. *)
LEMMA FlatFine ==
  ASSUME NEW n, NEW x, NEW h, NEW o, NEW at, NEW q, NEW c, NEW d, NEW k, NEW y, Fine(n, Inc(x, o), h), x \in Counts,
         o \in Nat, q \in Nat, q # o, c = At(n, q), NodeHas(n, h, q, c), c # NoRope, at \in Nat, Own(At(n, o)), h[o] = 0,
         HasRoom(n, o, at, c.weight), d = Flat(c, o, at), k = Put(n, q, d), c.left # Nil,
         y = Inc(Inc(x, c.left), c.right)
  PROVE  Fine(k, y, h) /\ Set(n, k, q, d) /\ d # NoRope
<1>1. n \in Memory /\ Inc(x, o) \in Counts /\ Exact(n, Inc(x, o)) /\ h \in Counts /\ Sound(n, h)
  BY DEF Fine
<1>2. c \in Ropes /\ q \in DOMAIN n
  BY <1>1, AtIn, UsedRef
<1>3. /\ d \in Ropes /\ d.ref = c.ref /\ d.weight = c.weight /\ d.owner = o /\ d.buf = o /\ d.off = at
      /\ d.left = Nil /\ d.right = Nil
  BY <1>2, FlatIs
<1>4. Set(n, k, q, d)
  BY <1>1, <1>2, <1>3, PutSet
<1>5. /\ c.left \in Nat /\ c.right \in Nat /\ c.owner = Nil /\ h[c.left] < h[q] /\ h[c.right] < h[q]
  BY DEF NodeHas
<1>6. h[q] \in Nat /\ h[c.left] \in Nat /\ h[q] > 0
  <2>1. h[q] \in Nat /\ h[c.left] \in Nat
    BY <1>1, <1>5 DEF Counts
  <2>2. QED
    BY <1>5, <2>1
<1>7. d # NoRope
  BY <1>3, NilAssumption DEF NoRope
<1>8. Inc(x, c.left) \in Counts /\ \A p \in Nat : Inc(x, c.left)[p] = x[p] + One(p = c.left)
  BY <1>5, IncIn
<1>9. y \in Counts /\ \A p \in Nat : y[p] = Inc(x, c.left)[p] + One(p = c.right)
  BY <1>5, <1>8, IncIn
<1>10. \A p \in Nat : Inc(x, o)[p] = x[p] + One(p = o)
  BY IncIn
<1>11. \A p \in Nat : Held(d, p) = One(d.owner = p)
  BY <1>3, LeafHeld
<1>12. \A p \in Nat : Held(c, p) = One(c.left = p) + One(c.right = p)
  BY <1>5, NodeHeld
<1>13. Moves(n, q, d, Inc(x, o), y)
  <2>1. \A p \in Nat : x[p] \in Nat
    BY DEF Counts
  <2>2. ASSUME NEW p \in Nat PROVE y[p] + Held(d, p) = Inc(x, o)[p] + Held(c, p)
    <3>1. y[p] = x[p] + One(p = c.left) + One(p = c.right) /\ Inc(x, o)[p] = x[p] + One(p = o)
      BY <1>8, <1>9, <1>10, <2>1 DEF One
    <3>2. Held(d, p) = One(o = p) /\ Held(c, p) = One(c.left = p) + One(c.right = p)
      BY <1>3, <1>11, <1>12
    <3>3. x[p] \in Nat
      BY <2>1
    <3>4. QED
      BY <3>1, <3>2, <3>3 DEF One
  <2>3. c.ref = Inc(x, o)[q] + Inner(n, q)
    BY <1>1 DEF Exact
  <2>4. Inner(n, q) \in Nat /\ Inc(x, o)[q] \in Nat /\ y[q] \in Nat /\ Held(c, q) \in Nat /\ Held(d, q) \in Nat
    BY <1>1, <1>2, <1>3, <1>9, InnerNat, HeldNat DEF Counts
  <2>5. y[q] + Held(d, q) = Inc(x, o)[q] + Held(c, q)
    BY <2>2
  <2>6. d.ref + Held(c, q) = y[q] + Inner(n, q) + Held(d, q)
    BY <1>3, <2>3, <2>4, <2>5
  <2>7. QED
    BY <2>2, <2>6 DEF Moves
<1>14. Exact(k, y)
  BY <1>1, <1>4, <1>9, <1>13, ExactSet
<1>15. ~Own(c)
  BY DEF Own
<1>16. Serves(At(n, q), d)
  BY <1>3, <1>15 DEF Serves
<1>17. Fits(k, h, q, d)
  <2>1. At(k, o) = At(n, o)
    BY <1>4 DEF Set
  <2>2. d.ref >= 1
    BY <1>3, UsedRef
  <2>3. WindowFits(k, h, q, d)
    BY <1>3, <1>6, <2>1 DEF WindowFits, HasRoom
  <2>4. QED
    BY <1>3, <2>2, <2>3, NilAssumption DEF Fits
<1>18. Sound(k, h)
  BY <1>1, <1>4, <1>16, <1>17, SoundSet
<1>19. QED
  BY <1>1, <1>4, <1>7, <1>9, <1>14, <1>18 DEF Fine, Set

(* Telling the same where buffers say the same. *)
LEMMA SaysSame ==
  ASSUME NEW n, NEW k, NEW v, NEW x, NEW h, NEW p, Fine(n, x, h), Says(n, v, p), p \in Nat, At(n, p) # NoRope,
         At(k, p) = At(n, p), \A b \in Nat : Own(At(n, b)) => At(k, b).own = At(n, b).own
  PROVE  Says(k, v, p)
<1>1. CASE At(n, p).left # Nil
  BY <1>1 DEF Says
<1>2. CASE At(n, p).left = Nil
  <2>1. LeafHas(n, h, p, At(n, p))
    BY <1>2, LeafParts
  <2>2. PICK b : b = At(n, p).buf
    OBVIOUS
  <2>3. b \in Nat /\ Own(At(n, b))
    BY <2>1, <2>2 DEF LeafHas
  <2>4. At(k, b).own = At(n, b).own
    BY <2>3
  <2>5. QED
    BY <1>2, <2>2, <2>4 DEF Says
<1>3. QED
  BY <1>1, <1>2

(* The first half of Compress: nothing is given back yet. *)
Windowed(n, q, o, at) == Put(pic_rope_incref(n, o), q, Flat(At(n, q), o, at))

(* The children of node q are in the buffer; now q itself can be. *)
Ready(n, x, h, v, o, at, q, w, c, e) ==
  /\ Filling(n, x, h, v, o, e) /\ Ends(e, at, w) /\ q \in Nat /\ q # o /\ c = At(n, q) /\ c # NoRope /\ c.left # Nil
  /\ w = c.weight /\ at \in Nat /\ HasRoom(n, o, at, w) /\ Told(n, v, o, q, at, w)

(* It is one, and says what it said. *)
LEMMA WindowedFills ==
  ASSUME NEW n, NEW x, NEW h, NEW v, NEW o, NEW at, NEW q, NEW w, NEW k, NEW c, NEW e, Ready(n, x, h, v, o, at, q, w, c, e), k = Windowed(n, q, o, at)
  PROVE  /\ Filling(k, Inc(Inc(x, c.left), c.right), h, v, o, e) /\ Low(n, k, h, q) /\ Stays(n, k)
         /\ At(k, o).own = At(n, o).own
<1>1. /\ Filling(n, x, h, v, o, e) /\ Ends(e, at, w) /\ q \in Nat /\ q # o /\ c = At(n, q) /\ c # NoRope
      /\ c.left # Nil /\ w = c.weight /\ at \in Nat /\ HasRoom(n, o, at, w) /\ Told(n, v, o, q, at, w)
  BY DEF Ready
<1>2. /\ Fine(n, x, h) /\ o \in Nat /\ x[o] >= 1 /\ Own(At(n, o)) /\ NoNode(n, o)
      /\ \A p \in Nat : p # o /\ At(n, p) # NoRope => Says(n, v, p)
      /\ \A p \in Nat : At(n, p).owner = o => At(n, p).off + At(n, p).weight <= e
  BY <1>1 DEF Filling
<1>3. n \in Memory /\ x \in Counts /\ Exact(n, x) /\ h \in Counts /\ Sound(n, h)
  BY <1>2 DEF Fine
<1>4. /\ At(n, o) # NoRope /\ At(n, o) = n[o] /\ o \in DOMAIN n /\ At(n, o).owner = Nil /\ At(n, o).left = Nil
      /\ At(n, o).right = Nil /\ h[o] = 0 /\ At(n, o).ref >= 1
  BY <1>2, OwnHas
<1>5. PICK i : i = pic_rope_incref(n, o)
  OBVIOUS
<1>6. /\ Fine(i, Inc(x, o), h) /\ Grown(n, i) /\ Set(n, i, o, Ref(n[o], n[o].ref + 1))
  BY <1>2, <1>4, <1>5, Incref
<1>7. At(i, q) = c /\ \A p \in Nat : p # o => At(i, p) = At(n, p)
  BY <1>1, <1>6 DEF Set
<1>8. At(i, o) # NoRope /\ Alike(At(n, o), At(i, o))
  BY <1>2, <1>4, <1>6 DEF Grown
<1>9. Own(At(i, o)) /\ HasRoom(i, o, at, w) /\ At(i, o).own = At(n, o).own /\ At(i, o).weight = At(n, o).weight
  BY <1>1, <1>2, <1>8 DEF Own, Alike, HasRoom
<1>10. PICK d : d = Flat(c, o, at)
  OBVIOUS
<1>11. k = Put(i, q, d)
  BY <1>1, <1>5, <1>10 DEF Windowed
<1>12. NodeHas(i, h, q, c)
  BY <1>1, <1>6, <1>7, NodeParts
<1>13. HasRoom(i, o, at, c.weight)
  BY <1>1, <1>9
<1>14. PICK y : y = Inc(Inc(x, c.left), c.right)
  OBVIOUS
<1>15. Fine(k, y, h) /\ Set(i, k, q, d) /\ d # NoRope
  BY <1>1, <1>2, <1>3, <1>4, <1>6, <1>7, <1>9, <1>10, <1>11, <1>12, <1>13, <1>14, FlatFine
<1>16. c \in Ropes
  BY <1>1, <1>3, AtIn
<1>17. /\ d \in Ropes /\ d.ref = c.ref /\ d.weight = c.weight /\ d.owner = o /\ d.buf = o /\ d.off = at
       /\ d.left = Nil /\ d.right = Nil
  BY <1>1, <1>2, <1>10, <1>16, FlatIs
<1>18. At(k, q) = d /\ At(k, o) = At(i, o) /\ \A p \in Nat : p # o /\ p # q => At(k, p) = At(n, p)
  BY <1>1, <1>2, <1>7, <1>15 DEF Set
<1>19. /\ c.left \in Nat /\ c.right \in Nat
  BY <1>12 DEF NodeHas
<1>20. y[o] >= 1
  <2>1. Inc(x, c.left) \in Counts /\ \A p \in Nat : Inc(x, c.left)[p] = x[p] + One(p = c.left)
    BY <1>3, <1>19, IncIn
  <2>2. \A p \in Nat : y[p] = Inc(x, c.left)[p] + One(p = c.right)
    BY <1>14, <1>19, <2>1, IncIn
  <2>3. y[o] = Inc(x, c.left)[o] + One(o = c.right) /\ Inc(x, c.left)[o] = x[o] + One(o = c.left) /\ x[o] \in Nat
    BY <1>2, <1>3, <2>1, <2>2 DEF Counts
  <2>4. QED
    BY <1>2, <2>3 DEF One
<1>21. Own(At(k, o)) /\ At(k, o).own = At(n, o).own
  BY <1>9, <1>18
<1>22. \A b \in Nat : Own(At(n, b)) => At(k, b).own = At(n, b).own
  <2>1. ~Own(c)
    BY <1>1 DEF Own
  <2>2. QED
    BY <1>1, <1>18, <1>21, <2>1
<1>23. NoNode(k, o)
  <2>1. SUFFICES ASSUME NEW p \in Nat PROVE At(k, p).left # o /\ At(k, p).right # o
    BY <1>1 DEF NoNode
  <2>2. At(n, p).left # o /\ At(n, p).right # o /\ o # Nil
    BY <1>2, NilAssumption DEF NoNode
  <2>3. At(i, o).left = Nil /\ At(i, o).right = Nil
    BY <1>4, <1>8 DEF Alike
  <2>4. QED
    BY <1>17, <1>18, <2>2, <2>3
<1>24. \A p \in Nat : At(k, p).owner = o => At(k, p).off + At(k, p).weight <= e
  <2>1. SUFFICES ASSUME NEW p \in Nat, At(k, p).owner = o PROVE At(k, p).off + At(k, p).weight <= e
    OBVIOUS
  <2>2. p # o
    BY <1>2, <1>21, <2>1, NilAssumption DEF Own
  <2>3. CASE p = q
    <3>1. w \in Nat
      BY <1>1, <1>16, RopeParts
    <3>2. QED
      BY <1>1, <1>17, <1>18, <2>3, <3>1 DEF Ends
  <2>4. CASE p # q
    BY <1>2, <1>18, <2>1, <2>2, <2>4
  <2>5. QED
    BY <2>3, <2>4
<1>25. ASSUME NEW p \in Nat, p # o, At(k, p) # NoRope PROVE Says(k, v, p)
  <2>1. CASE p = q
    <3>1. Says(n, v, q)
      BY <1>1, <1>2
    <3>2. v[q] \in Seq(Char) /\ Len(v[q]) = w
      BY <1>1, <3>1 DEF Says
    <3>3. \A l \in 1 .. w : v[q][l] = At(k, o).own[at + l]
      BY <1>1, <1>21 DEF Told
    <3>4. At(k, p) = d /\ d.left = Nil /\ d.weight = w
      BY <1>1, <1>17, <1>18, <2>1
    <3>5. \A l \in 1 .. d.weight : v[p][l] = At(k, d.buf).own[d.off + l]
      BY <1>1, <1>17, <2>1, <3>3
    <3>6. QED
      BY <2>1, <3>2, <3>4, <3>5 DEF Says
  <2>2. CASE p # q
    <3>1. At(k, p) = At(n, p)
      BY <1>18, <1>25, <2>2
    <3>2. At(n, p) # NoRope
      BY <1>25, <3>1
    <3>3. Says(n, v, p)
      BY <1>2, <1>25, <3>2
    <3>4. QED
      BY <1>2, <1>22, <3>1, <3>2, <3>3, SaysSame
  <2>3. QED
    BY <2>1, <2>2
<1>26. Filling(k, y, h, v, o, e)
  BY <1>2, <1>15, <1>20, <1>21, <1>23, <1>24, <1>25 DEF Filling
<1>27. Low(n, k, h, q)
  <2>1. SUFFICES ASSUME NEW p \in Nat, h[p] > h[q] PROVE At(k, p) = At(n, p)
    BY <1>1 DEF Low
  <2>2. h[q] \in Nat /\ h[p] \in Nat
    BY <1>1, <1>3 DEF Counts
  <2>3. p # o /\ p # q
    BY <1>4, <2>1, <2>2
  <2>4. QED
    BY <1>18, <2>3
<1>28. Stays(n, k)
  <2>1. SUFFICES ASSUME NEW p \in Nat, At(k, p) # NoRope
                 PROVE  /\ At(n, p) # NoRope /\ At(k, p).weight = At(n, p).weight
                        /\ Own(At(n, p)) => Own(At(k, p))
    BY <1>1 DEF Stays
  <2>2. CASE p = q
    BY <1>1, <1>17, <1>18, <2>2 DEF Own
  <2>3. CASE p = o
    BY <1>4, <1>9, <1>18, <2>3
  <2>4. CASE p # o /\ p # q
    <3>1. At(k, p) = At(n, p)
      BY <1>18, <2>4
    <3>2. QED
      BY <2>1, <3>1
  <2>5. QED
    BY <2>2, <2>3, <2>4
<1>29. QED
  BY <1>14, <1>21, <1>26, <1>27, <1>28

(* Compress: and its children lose a pointer. *)
LEMMA CompressFills ==
  ASSUME NEW n, NEW x, NEW h, NEW v, NEW o, NEW at, NEW q, NEW w, NEW k, NEW c, NEW e, Ready(n, x, h, v, o, at, q, w, c, e), k = Compress(n, q, o, at)
  PROVE  /\ Filling(k, x, h, v, o, e) /\ Low(n, k, h, q) /\ Stays(n, k) /\ At(k, o).own = At(n, o).own
<1>1. /\ Filling(n, x, h, v, o, e) /\ Ends(e, at, w) /\ q \in Nat /\ q # o /\ c = At(n, q) /\ c # NoRope
      /\ c.left # Nil /\ w = c.weight /\ at \in Nat /\ HasRoom(n, o, at, w) /\ Told(n, v, o, q, at, w)
  BY DEF Ready
<1>2. Fine(n, x, h) /\ o \in Nat /\ x[o] >= 1
  BY <1>1 DEF Filling
<1>3. x \in Counts /\ h \in Counts /\ n \in Memory
  BY <1>2 DEF Fine
<1>4. NodeHas(n, h, q, c) /\ c = n[q]
  BY <1>1, <1>2, NodeParts, UsedRef
<1>5. c.left \in Nat /\ c.right \in Nat /\ h[c.left] < h[q] /\ h[c.right] < h[q]
  BY <1>4 DEF NodeHas
<1>6. PICK i : i = Windowed(n, q, o, at)
  OBVIOUS
<1>7. PICK j : j = pic_rope_decref(i, c.left)
  OBVIOUS
<1>8. k = pic_rope_decref(j, c.right)
  BY <1>1, <1>4, <1>6, <1>7 DEF Compress, Windowed, Put, Flat
<1>9. /\ Filling(i, Inc(Inc(x, c.left), c.right), h, v, o, e) /\ Low(n, i, h, q) /\ Stays(n, i)
      /\ At(i, o).own = At(n, o).own
  BY <1>6, WindowedFills
<1>10. PICK y : y = Inc(Inc(x, c.left), c.right)
  OBVIOUS
<1>11. PICK z : z = Inc(x, c.right)
  OBVIOUS
<1>12. z \in Counts /\ (\A p \in Nat : z[p] = x[p] + One(p = c.right)) /\ z[c.right] >= 1
  BY <1>3, <1>5, <1>11, IncIn
<1>13. y = Inc(z, c.left)
  BY <1>3, <1>5, <1>10, <1>11, IncInc
<1>14. y \in Counts /\ y[c.left] >= 1
  BY <1>5, <1>12, <1>13, IncIn
<1>15. Dec(y, c.left) = z
  BY <1>5, <1>12, <1>13, IncDec
<1>16. Dec(z, c.right) = x
  BY <1>3, <1>5, <1>11, IncDec
<1>17. z[o] >= 1
  <2>1. z[o] = x[o] + One(o = c.right) /\ x[o] \in Nat
    BY <1>2, <1>3, <1>12 DEF Counts
  <2>2. QED
    BY <1>2, <2>1 DEF One
<1>18. Filling(i, y, h, v, o, e) /\ Dec(y, c.left)[o] >= 1
  BY <1>9, <1>10, <1>15, <1>17
<1>19. /\ Filling(j, Dec(y, c.left), h, v, o, e) /\ At(j, o).own = At(i, o).own /\ Lost(i, j) /\ Low(i, j, h, c.left)
  BY <1>5, <1>7, <1>14, <1>18, FillingDecref
<1>20. Filling(j, z, h, v, o, e) /\ Dec(z, c.right)[o] >= 1
  BY <1>2, <1>15, <1>16, <1>19
<1>21. /\ Filling(k, Dec(z, c.right), h, v, o, e) /\ At(k, o).own = At(j, o).own /\ Lost(j, k)
       /\ Low(j, k, h, c.right)
  BY <1>5, <1>8, <1>12, <1>20, FillingDecref
<1>22. Stays(i, j) /\ Stays(j, k)
  BY <1>19, <1>21, LostStays
<1>23. Stays(n, k)
  BY <1>9, <1>22, StaysTwice
<1>24. h[c.left] <= h[q] /\ h[c.right] <= h[q] /\ h[q] <= h[q] /\ h[q] \in Nat
  <2>1. h[q] \in Nat /\ h[c.left] \in Nat /\ h[c.right] \in Nat
    BY <1>1, <1>3, <1>5 DEF Counts
  <2>2. QED
    BY <1>5, <2>1
<1>25. Low(n, j, h, q)
  BY <1>1, <1>3, <1>5, <1>9, <1>19, <1>24, LowTwice
<1>26. Low(n, k, h, q)
  BY <1>1, <1>3, <1>5, <1>21, <1>24, <1>25, LowTwice
<1>27. QED
  BY <1>9, <1>16, <1>19, <1>21, <1>23, <1>26

-----------------------------------------------------------------------------
(* flatten. *)

(* One more level of flatten. *)
Flattened(o, rest, d) ==
  [c \in Memory \X Nat \X Nat |->
     LET n == c[1]  q == c[2]  at == c[3]
         left == rest[<< n, n[q].left, at >>]
         both == rest[<< left, left[q].right, at + left[left[q].left].weight >>]
     IN IF isleaf(n, q) THEN Copied(n, q, o, at)
        ELSE IF d = 0 THEN n
        ELSE Compress(both, q, o, at)]

(* The levels of flatten exist. *)
LEMMA FlattenedExists ==
  ASSUME NEW top \in Nat, NEW o
  PROVE  \E f : f = [d \in 0 .. top |-> Flattened(o, f[d - 1], d)]
<1> DEFINE Ok(e, f) == f = [d \in 0 .. e |-> Flattened(o, f[d - 1], d)]
           A == {e \in 0 .. top : \E f : Ok(e, f)}
<1>1. \A u, v : Flattened(o, u, 0) = Flattened(o, v, 0)
  BY DEF Flattened
<1>2. 0 \in A
  <2> DEFINE f == [d \in 0 .. 0 |-> Flattened(o, 0, 0)]
  <2>1. f = [d \in 0 .. 0 |-> f[d]] /\ f[0] = Flattened(o, 0, 0)
    OBVIOUS
  <2>2. \A d \in 0 .. 0 : f[d] = Flattened(o, f[d - 1], d)
    <3> HIDE DEF f
    <3>1. QED
      BY <1>1, <2>1
  <2> HIDE DEF f
  <2>3. Ok(0, f)
    BY <2>1, <2>2
  <2>4. QED
    BY <2>3
<1>3. \A e \in 1 .. top : e - 1 \in A => e \in A
  <2>1. TAKE e \in 1 .. top
  <2>2. HAVE e - 1 \in A
  <2>3. PICK f : Ok(e - 1, f)
    BY <2>2
  <2>4. f = [d \in 0 .. e - 1 |-> Flattened(o, f[d - 1], d)]
    BY <2>3
  <2>5. \A d \in 0 .. e - 1 : f[d] = Flattened(o, f[d - 1], d)
    <3> HIDE <2>3
    <3>1. QED
      BY <2>4
  <2> DEFINE g == [d \in 0 .. e |-> IF d = e THEN Flattened(o, f[e - 1], e) ELSE f[d]]
  <2>6. g = [d \in 0 .. e |-> g[d]] /\ g[e] = Flattened(o, f[e - 1], e) /\ \A d \in 0 .. e - 1 : g[d] = f[d]
    OBVIOUS
  <2> HIDE DEF g
  <2>7. \A d \in 0 .. e : g[d] = Flattened(o, g[d - 1], d)
    <3>1. TAKE d \in 0 .. e
    <3>2. CASE d = 0
      <4>1. 0 \in 0 .. e - 1
        BY <2>1
      <4>2. g[0] = Flattened(o, f[0 - 1], 0)
        BY <2>5, <2>6, <4>1
      <4>3. Flattened(o, f[0 - 1], 0) = Flattened(o, g[0 - 1], 0)
        BY <1>1
      <4>4. QED
        BY <3>2, <4>2, <4>3
    <3>3. CASE d = e
      <4>1. e - 1 \in 0 .. e - 1
        BY <2>1
      <4>2. g[e - 1] = f[e - 1]
        BY <2>6, <4>1
      <4>3. QED
        BY <2>6, <3>3, <4>2
    <3>4. CASE d # 0 /\ d # e
      <4>1. d \in 0 .. e - 1 /\ d - 1 \in 0 .. e - 1
        BY <3>4
      <4>2. g[d] = f[d] /\ g[d - 1] = f[d - 1] /\ f[d] = Flattened(o, f[d - 1], d)
        BY <2>5, <2>6, <4>1
      <4>3. QED
        BY <4>2
    <3>5. QED
      BY <3>2, <3>3, <3>4
  <2>8. Ok(e, g)
    BY <2>6, <2>7
  <2>9. QED
    BY <2>8
<1>4. top \in A
  <2> HIDE DEF A
  <2>1. \A e \in 0 .. top : e \in A
    BY <1>2, <1>3, UpTo
  <2>2. QED
    BY <2>1
<1>5. QED
  BY <1>4

(* flatten is the topmost of its levels. *)
LEMMA FlattenIs ==
  ASSUME NEW m, NEW r, NEW owner, NEW off, m \in Memory
  PROVE  \E f : /\ flatten(m, r, owner, off) = f[Len(m)][<< m, r, off >>]
                /\ \A d \in 0 .. Len(m) : f[d] = Flattened(owner, f[d - 1], d)
<1>1. Len(m) \in Nat
  BY Dom
<1> DEFINE flattened[d \in 0 .. Len(m)] ==
        [c \in Memory \X Nat \X Nat |->
           LET n == c[1]  q == c[2]  at == c[3]
               rest == flattened[d - 1]
               left == rest[<< n, n[q].left, at >>]
               both == rest[<< left, left[q].right, at + left[left[q].left].weight >>]
           IN IF isleaf(n, q) THEN Copied(n, q, owner, at)
              ELSE IF d = 0 THEN n
              ELSE Compress(both, q, owner, at)]
<1>2. flatten(m, r, owner, off) = flattened[Len(m)][<< m, r, off >>]
  BY DEF flatten
<1>3. \E f : f = [d \in 0 .. Len(m) |-> Flattened(owner, f[d - 1], d)]
  BY <1>1, FlattenedExists
<1>4. flattened = [d \in 0 .. Len(m) |-> Flattened(owner, flattened[d - 1], d)]
  BY <1>3 DEF Flattened
<1> HIDE DEF flattened
<1>5. \A d \in 0 .. Len(m) : flattened[d] = Flattened(owner, flattened[d - 1], d)
  BY <1>4
<1>6. QED
  BY <1>2, <1>5

FlatCases(o, rest, d, n, q, at, c, e) ==
  /\ c.left = Nil => e = Copied(n, q, o, at)
  /\ c.left # Nil /\ d # 0 =>
       \E l, t : /\ l = rest[<< n, c.left, at >>]
                 /\ t = rest[<< l, l[q].right, at + l[l[q].left].weight >>]
                 /\ e = Compress(t, q, o, at)

(* A level of flatten, case by case. *)
LEMMA FlattenedAt ==
  ASSUME NEW o, NEW rest, NEW d, NEW n, NEW q, NEW at, NEW c, NEW e, n \in Memory, q \in Nat, at \in Nat, c = n[q],
         e = Flattened(o, rest, d)[<< n, q, at >>]
  PROVE  FlatCases(o, rest, d, n, q, at, c, e)
<1>1. << n, q, at >> \in Memory \X Nat \X Nat
  OBVIOUS
<1>2. c.left = Nil => e = Copied(n, q, o, at)
  BY <1>1 DEF Flattened, isleaf
<1>3. ASSUME c.left # Nil, d # 0
      PROVE  \E l, t : /\ l = rest[<< n, c.left, at >>]
                       /\ t = rest[<< l, l[q].right, at + l[l[q].left].weight >>]
                       /\ e = Compress(t, q, o, at)
  <2>1. PICK l, t : l = rest[<< n, c.left, at >>] /\ t = rest[<< l, l[q].right, at + l[l[q].left].weight >>]
    OBVIOUS
  <2>2. e = Compress(t, q, o, at)
    BY <1>1, <1>3, <2>1 DEF Flattened, isleaf
  <2>3. QED
    BY <2>1, <2>2
<1>4. QED
  BY <1>2, <1>3 DEF FlatCases

Child(n, o, q, at) ==
  q \in Nat /\ q # o /\ At(n, q) # NoRope /\ at \in Nat /\ HasRoom(n, o, at, At(n, q).weight)

Flattens(f, d, o) ==
  \A n, x, h, v, q, at :
    Filling(n, x, h, v, o, at) /\ Child(n, o, q, at) /\ Cardinality(Under(n, h, q)) <= d =>
      Filled(n, f[<< n, q, at >>], x, h, v, o, q, at, At(n, q).weight)

(* What a level does, at one rope. *)
LEMMA FlattensUse ==
  ASSUME NEW f, NEW d, NEW o, NEW n, NEW x, NEW h, NEW v, NEW q, NEW at, NEW w, Flattens(f, d, o),
         Filling(n, x, h, v, o, at), Child(n, o, q, at), Cardinality(Under(n, h, q)) <= d, w = At(n, q).weight
  PROVE  Filled(n, f[<< n, q, at >>], x, h, v, o, q, at, w)
  BY DEF Flattens

(* The characters of a node are those of its children, one after the other. *)
Concat(v, q, a, b, wa, wb) ==
  /\ v[a] \in Seq(Char) /\ Len(v[a]) = wa /\ v[b] \in Seq(Char) /\ Len(v[b]) = wb
  /\ v[q] = v[a] \o v[b]

(* The characters of a node are those of its children, one after the other. *)
LEMMA ToldBoth ==
  ASSUME NEW n, NEW l, NEW t, NEW v, NEW o, NEW q, NEW a, NEW b, NEW at, NEW wa, NEW wb, NEW w, NEW u,
         at \in Nat, wa \in Nat, wb \in Nat, Ends(w, wa, wb), Ends(u, at, wa), Holds(l, n, v, o, a, at, wa),
         Holds(t, l, v, o, b, u, wb), Concat(v, q, a, b, wa, wb)
  PROVE  Holds(t, n, v, o, q, at, w)
<1>1. /\ w = wa + wb /\ u = at + wa /\ v[a] \in Seq(Char) /\ Len(v[a]) = wa /\ v[b] \in Seq(Char)
      /\ Len(v[b]) = wb /\ v[q] = v[a] \o v[b]
  BY DEF Ends, Concat
<1>2. /\ Len(At(l, o).own) = Len(At(n, o).own)
      /\ \A p \in 1 .. at : At(l, o).own[p] = At(n, o).own[p]
      /\ \A p \in 1 .. wa : At(l, o).own[at + p] = v[a][p]
  BY DEF Holds
<1>3. /\ Len(At(t, o).own) = Len(At(l, o).own)
      /\ \A p \in 1 .. u : At(t, o).own[p] = At(l, o).own[p]
      /\ \A p \in 1 .. wb : At(t, o).own[u + p] = v[b][p]
  BY DEF Holds
<1>4. \A p \in 1 .. w : v[q][p] = IF p <= wa THEN v[a][p] ELSE v[b][p - wa]
  <2>1. /\ Len(v[a] \o v[b]) = Len(v[a]) + Len(v[b])
        /\ \A p \in 1 .. Len(v[a]) + Len(v[b]) :
             (v[a] \o v[b])[p] = IF p <= Len(v[a]) THEN v[a][p] ELSE v[b][p - Len(v[a])]
    BY <1>1, ConcatProperties
  <2>2. \A p \in 1 .. w : (v[a] \o v[b])[p] = IF p <= wa THEN v[a][p] ELSE v[b][p - wa]
    BY <1>1, <2>1
  <2>3. QED
    BY <1>1, <2>2
<1>5. ASSUME NEW p \in 1 .. w PROVE At(t, o).own[at + p] = v[q][p]
  <2>1. CASE p <= wa
    <3>1. at + p \in 1 .. u /\ p \in 1 .. wa
      BY <1>1, <2>1
    <3>2. At(t, o).own[at + p] = At(l, o).own[at + p]
      BY <1>3, <3>1
    <3>3. At(l, o).own[at + p] = v[a][p]
      BY <1>2, <3>1
    <3>4. QED
      BY <1>4, <2>1, <3>2, <3>3
  <2>2. CASE ~ (p <= wa)
    <3>1. p - wa \in 1 .. wb /\ u + (p - wa) = at + p
      BY <1>1, <2>2
    <3>2. At(t, o).own[u + (p - wa)] = v[b][p - wa]
      BY <1>3, <3>1
    <3>3. QED
      BY <1>4, <2>2, <3>1, <3>2
  <2>3. QED
    BY <2>1, <2>2
<1>6. \A p \in 1 .. at : p \in 1 .. u
  BY <1>1
<1>7. QED
  BY <1>2, <1>3, <1>5, <1>6 DEF Holds

(* A level with as many calls left as there are lower ropes fills o with    *)
(* the characters of the rope.                                              *)
LEMMA FlattensStep ==
  ASSUME NEW rest, NEW d, NEW o, d \in Nat, d = 0 \/ Flattens(rest, d - 1, o)
  PROVE  Flattens(Flattened(o, rest, d), d, o)
<1>1. SUFFICES ASSUME NEW n, NEW x, NEW h, NEW v, NEW q, NEW at, Filling(n, x, h, v, o, at), Child(n, o, q, at),
                      Cardinality(Under(n, h, q)) <= d
               PROVE  Filled(n, Flattened(o, rest, d)[<< n, q, at >>], x, h, v, o, q, at, At(n, q).weight)
  BY DEF Flattens
<1>2. /\ Fine(n, x, h) /\ o \in Nat /\ x[o] >= 1 /\ Own(At(n, o)) /\ NoNode(n, o)
      /\ \A p \in Nat : p # o /\ At(n, p) # NoRope => Says(n, v, p)
  BY <1>1 DEF Filling
<1>3. n \in Memory /\ h \in Counts
  BY <1>2 DEF Fine
<1>4. q \in Nat /\ q # o /\ At(n, q) # NoRope /\ at \in Nat /\ HasRoom(n, o, at, At(n, q).weight)
  BY <1>1 DEF Child
<1>5. PICK c, w : c = At(n, q) /\ w = At(n, q).weight
  OBVIOUS
<1>6. c = n[q] /\ c \in Ropes /\ c # NoRope /\ w \in Nat
  BY <1>2, <1>3, <1>4, <1>5, UsedRef, AtIn, RopeParts
<1>7. PICK e : e = Flattened(o, rest, d)[<< n, q, at >>]
  OBVIOUS
<1>8. FlatCases(o, rest, d, n, q, at, c, e)
  BY <1>3, <1>4, <1>6, <1>7, FlattenedAt
<1>9. CASE c.left = Nil
  <2>1. e = Copied(n, q, o, at)
    BY <1>8, <1>9 DEF FlatCases
  <2>2. at + w <= Len(At(n, o).own)
    BY <1>4, <1>5 DEF HasRoom
  <2>3. At(n, q).left = Nil
    BY <1>5, <1>9
  <2>4. Filled(n, e, x, h, v, o, q, at, w)
    BY <1>1, <1>4, <1>5, <2>1, <2>2, <2>3, CopiedFills
  <2>5. QED
    BY <1>5, <1>7, <2>4
<1>10. CASE c.left # Nil
  <2>1. NodeHas(n, h, q, c)
    BY <1>2, <1>4, <1>5, <1>10, NodeParts
  <2>2. PICK a, b : a = c.left /\ b = c.right
    OBVIOUS
  <2>3. PICK wa, wb : wa = At(n, a).weight /\ wb = At(n, b).weight
    OBVIOUS
  <2>4. /\ a \in Nat /\ b \in Nat /\ h[a] < h[q] /\ h[b] < h[q] /\ At(n, a) # NoRope /\ At(n, b) # NoRope
        /\ wa \in Nat /\ wb \in Nat
    BY <2>1, <2>2, <2>3 DEF NodeHas
  <2>5. Ends(w, wa, wb)
    BY <1>5, <2>1, <2>2, <2>3 DEF NodeHas, Ends
  <2>6. a # o /\ b # o
    BY <1>2, <1>4, <1>5, <2>2 DEF NoNode
  <2>7. PICK u : Ends(u, at, wa)
    BY DEF Ends
  <2>8. w = wa + wb /\ u = at + wa /\ u \in Nat /\ at + w = u + wb /\ at + w \in Nat
    BY <1>4, <2>4, <2>5, <2>7 DEF Ends
  <2>9. at + w <= Len(At(n, o).own) /\ Len(At(n, o).own) \in Nat
    <3>1. At(n, o) \in Ropes
      BY <1>3, AtIn
    <3>2. Len(At(n, o).own) \in Nat
      BY <3>1, RopeParts, LenProperties
    <3>3. QED
      BY <1>4, <1>5, <3>2 DEF HasRoom
  <2>10. Child(n, o, a, at)
    <3>1. at + wa <= Len(At(n, o).own)
      BY <1>4, <2>4, <2>8, <2>9
    <3>2. QED
      BY <1>4, <2>3, <2>4, <2>6, <3>1 DEF Child, HasRoom
  <2>11. Cardinality(Under(n, h, a)) \in Nat /\ Cardinality(Under(n, h, b)) \in Nat
         /\ Cardinality(Under(n, h, q)) \in Nat
    BY <1>3, UnderFinite
  <2>12. /\ Cardinality(Under(n, h, a)) < Cardinality(Under(n, h, q))
         /\ Cardinality(Under(n, h, b)) < Cardinality(Under(n, h, q))
    BY <1>3, <1>4, <2>4, UnderLess
  <2>13. d # 0 /\ Cardinality(Under(n, h, a)) <= d - 1 /\ Cardinality(Under(n, h, b)) <= d - 1
    BY <1>1, <2>11, <2>12
  <2>14. PICK g : g = d - 1
    OBVIOUS
  <2>15. Flattens(rest, g, o) /\ Cardinality(Under(n, h, a)) <= g /\ Cardinality(Under(n, h, b)) <= g /\ g \in Nat
    BY <1>1, <2>13, <2>14
  <2>16. PICK l, t : /\ l = rest[<< n, c.left, at >>]
                     /\ t = rest[<< l, l[q].right, at + l[l[q].left].weight >>]
                     /\ e = Compress(t, q, o, at)
    BY <1>8, <1>10, <2>13 DEF FlatCases
  <2>17. Filled(n, l, x, h, v, o, a, at, wa)
    BY <1>1, <2>2, <2>3, <2>10, <2>15, <2>16, FlattensUse
  <2>18. Filling(l, x, h, v, o, u) /\ Low(n, l, h, a) /\ Stays(n, l) /\ Holds(l, n, v, o, a, at, wa)
    BY <2>8, <2>17 DEF Filled
  <2>19. Fine(l, x, h)
    BY <2>18 DEF Filling
  <2>20. l \in Memory
    BY <2>19 DEF Fine
  <2>21. At(l, q) = c
    <3>1. h[q] > h[a]
      <4>1. h[q] \in Nat /\ h[a] \in Nat
        BY <1>3, <1>4, <2>4 DEF Counts
      <4>2. QED
        BY <2>4, <4>1
    <3>2. QED
      BY <1>4, <1>5, <2>18, <3>1 DEF Low
  <2>22. l[q] = c
    BY <1>4, <1>6, <2>19, <2>21, UsedRef
  <2>23. NodeHas(l, h, q, c)
    BY <1>4, <1>6, <1>10, <2>19, <2>21, NodeParts
  <2>24. At(l, a) # NoRope /\ At(l, b) # NoRope /\ At(l, a) = l[a]
    BY <2>2, <2>23 DEF NodeHas
  <2>25. At(l, a).weight = wa /\ At(l, b).weight = wb
    BY <2>3, <2>4, <2>18, <2>24 DEF Stays
  <2>26. t = rest[<< l, b, u >>]
    BY <2>2, <2>8, <2>16, <2>22, <2>24, <2>25
  <2>27. Child(l, o, b, u)
    <3>1. Len(At(l, o).own) = Len(At(n, o).own)
      BY <2>18 DEF Holds
    <3>2. u + wb <= Len(At(l, o).own)
      BY <2>8, <2>9, <3>1
    <3>3. QED
      BY <2>4, <2>6, <2>8, <2>24, <2>25, <3>2 DEF Child, HasRoom
  <2>28. Cardinality(Under(l, h, b)) <= g
    <3>1. \A p \in Nat : At(l, p) # NoRope => At(n, p) # NoRope
      BY <2>18 DEF Stays
    <3>2. Cardinality(Under(l, h, b)) <= Cardinality(Under(n, h, b)) /\ Cardinality(Under(l, h, b)) \in Nat
      BY <1>3, <2>20, <3>1, UnderLost, UnderFinite
    <3>3. QED
      BY <2>11, <2>15, <3>2
  <2>29. Filled(l, t, x, h, v, o, b, u, wb)
    BY <2>15, <2>18, <2>25, <2>26, <2>27, <2>28, FlattensUse
  <2>30. PICK z : z = at + w
    OBVIOUS
  <2>31. Filling(t, x, h, v, o, z) /\ Low(l, t, h, b) /\ Stays(l, t) /\ Holds(t, l, v, o, b, u, wb)
    BY <2>8, <2>29, <2>30 DEF Filled
  <2>32. At(t, q) = c
    <3>1. h[q] > h[b]
      <4>1. h[q] \in Nat /\ h[b] \in Nat
        BY <1>3, <1>4, <2>4 DEF Counts
      <4>2. QED
        BY <2>4, <4>1
    <3>2. QED
      BY <1>4, <2>21, <2>31, <3>1 DEF Low
  <2>33. Says(n, v, a) /\ Says(n, v, b) /\ Says(n, v, q)
    BY <1>2, <1>4, <2>4, <2>6
  <2>34. Concat(v, q, a, b, wa, wb)
    BY <1>5, <1>10, <2>2, <2>3, <2>33 DEF Says, Concat
  <2>34a. Holds(t, n, v, o, q, at, w)
    BY <1>4, <2>4, <2>5, <2>7, <2>18, <2>31, <2>34, ToldBoth
  <2>35. /\ Told(t, v, o, q, at, w) /\ Len(At(t, o).own) = Len(At(n, o).own)
         /\ \A p \in 1 .. at : At(t, o).own[p] = At(n, o).own[p]
    BY <2>34a DEF Holds, Told
  <2>36. HasRoom(t, o, at, w)
    BY <2>9, <2>35 DEF HasRoom
  <2>37. Ends(z, at, w)
    BY <2>30 DEF Ends
  <2>38. Ready(t, x, h, v, o, at, q, w, c, z)
    BY <1>4, <1>5, <1>6, <1>10, <2>31, <2>32, <2>35, <2>36, <2>37 DEF Ready
  <2>39. e = Compress(t, q, o, at)
    BY <2>16
  <2>40. Filling(e, x, h, v, o, z) /\ Low(t, e, h, q) /\ Stays(t, e) /\ At(e, o).own = At(t, o).own
    BY <2>38, <2>39, CompressFills
  <2>41. Stays(n, e)
    BY <2>18, <2>31, <2>40, StaysTwice
  <2>42. Low(n, e, h, q)
    <3>1. h[a] <= h[q] /\ h[b] <= h[q] /\ h[q] <= h[q]
      <4>1. h[q] \in Nat /\ h[a] \in Nat /\ h[b] \in Nat
        BY <1>3, <1>4, <2>4 DEF Counts
      <4>2. QED
        BY <2>4, <4>1
    <3>2. Low(n, t, h, q)
      BY <1>3, <1>4, <2>4, <2>18, <2>31, <3>1, LowTwice
    <3>3. QED
      BY <1>3, <1>4, <2>40, <3>1, <3>2, LowTwice
  <2>43. Holds(e, n, v, o, q, at, w)
    BY <2>35, <2>40 DEF Holds, Told
  <2>44. Filled(n, e, x, h, v, o, q, at, w)
    BY <2>30, <2>40, <2>41, <2>42, <2>43 DEF Filled
  <2>45. QED
    BY <1>5, <1>7, <2>44
<1>11. QED
  BY <1>9, <1>10

(* flatten fills o with the characters of r, and changes what no rope says. *)
LEMMA Flatten ==
  ASSUME NEW m, NEW x, NEW h, NEW v, NEW o, NEW r, NEW w, NEW k, Filling(m, x, h, v, o, 0), Child(m, o, r, 0),
         w = At(m, r).weight, k = flatten(m, r, o, 0)
  PROVE  Filled(m, k, x, h, v, o, r, 0, w)
<1>1. Fine(m, x, h)
  BY DEF Filling
<1>2. m \in Memory
  BY <1>1 DEF Fine
<1>3. PICK f : /\ flatten(m, r, o, 0) = f[Len(m)][<< m, r, 0 >>]
               /\ \A d \in 0 .. Len(m) : f[d] = Flattened(o, f[d - 1], d)
  BY <1>2, FlattenIs
<1>4. Len(m) \in Nat
  BY <1>2, Dom
<1> DEFINE A == {d \in 0 .. Len(m) : Flattens(f[d], d, o)}
<1>5. 0 \in A
  <2>1. f[0] = Flattened(o, f[0 - 1], 0)
    BY <1>3, <1>4
  <2>2. Flattens(f[0], 0, o)
    BY <2>1, FlattensStep
  <2>3. QED
    BY <1>4, <2>2
<1>6. \A d \in 1 .. Len(m) : d - 1 \in A => d \in A
  <2>1. TAKE d \in 1 .. Len(m)
  <2>2. HAVE d - 1 \in A
  <2>3. Flattens(f[d - 1], d - 1, o) /\ d \in 0 .. Len(m) /\ d \in Nat
    BY <1>4, <2>2
  <2>4. f[d] = Flattened(o, f[d - 1], d)
    BY <1>3, <2>3
  <2>5. Flattens(f[d], d, o)
    BY <2>3, <2>4, FlattensStep
  <2>6. QED
    BY <2>3, <2>5
<1>7. Flattens(f[Len(m)], Len(m), o)
  <2>1. Len(m) \in 0 .. Len(m)
    BY <1>4
  <2>2. \A d \in 0 .. Len(m) : d \in A
    <3> HIDE DEF A
    <3>1. QED
      BY <1>4, <1>5, <1>6, UpTo
  <2>3. QED
    BY <2>1, <2>2
<1>8. Cardinality(Under(m, h, r)) <= Len(m)
  BY <1>2, UnderFinite
<1>9. QED
  BY <1>3, <1>7, <1>8, FlattensUse

-----------------------------------------------------------------------------
(* The pointers of strings, and of the buffers that pic_str made. *)

(* The pointers from outside: of strings, and the counts that buffers keep. *)
StrsAt(rp, p) == {s \in Str : rp[s] = p}
Named(rp) == {s \in Str : rp[s] # Nil}
Exts(rp, made) == [p \in Nat |-> Cardinality(StrsAt(rp, p)) + One(p \in made)]
Assigned(rp) == rp \in [Str -> Pointer] /\ IsFiniteSet(Named(rp))

(* The strings with rope p can be counted. *)
LEMMA StrsFinite ==
  ASSUME NEW rp, NEW p, Assigned(rp), p \in Nat
  PROVE  IsFiniteSet(StrsAt(rp, p)) /\ Cardinality(StrsAt(rp, p)) \in Nat
<1>1. StrsAt(rp, p) \subseteq Named(rp)
  BY NilAssumption DEF StrsAt, Named
<1>2. IsFiniteSet(StrsAt(rp, p))
  BY <1>1, FS_Subset DEF Assigned
<1>3. QED
  BY <1>2, FS_CardinalityType

(* The pointers from outside are counts. *)
LEMMA ExtsIn ==
  ASSUME NEW rp, NEW made, Assigned(rp)
  PROVE  /\ Exts(rp, made) \in Counts
         /\ \A p \in Nat : Exts(rp, made)[p] = Cardinality(StrsAt(rp, p)) + One(p \in made)
         /\ \A p \in Nat : p \in made => Exts(rp, made)[p] >= 1
<1>1. \A p \in Nat : Exts(rp, made)[p] = Cardinality(StrsAt(rp, p)) + One(p \in made)
  BY DEF Exts
<1>2. \A p \in Nat : Cardinality(StrsAt(rp, p)) \in Nat
  BY StrsFinite
<1>3. \A b : One(b) \in Nat /\ (b => One(b) = 1)
  BY DEF One
<1>4. \A p \in Nat : Cardinality(StrsAt(rp, p)) + One(p \in made) \in Nat
  BY <1>2, <1>3
<1>5. Exts(rp, made) \in Counts
  BY <1>4 DEF Exts, Counts
<1>6. ASSUME NEW p \in Nat, p \in made PROVE Exts(rp, made)[p] >= 1
  <2>1. Cardinality(StrsAt(rp, p)) \in Nat
    BY <1>2
  <2>2. One(p \in made) = 1
    BY <1>6 DEF One
  <2>3. QED
    BY <1>1, <2>1, <2>2
<1>7. QED
  BY <1>1, <1>5, <1>6

(* The rope of a string has one. *)
LEMMA ExtsAt ==
  ASSUME NEW rp, NEW made, NEW s, Assigned(rp), s \in Str, rp[s] # Nil
  PROVE  rp[s] \in Nat /\ Exts(rp, made)[rp[s]] >= 1
<1>1. rp[s] \in Nat
  BY DEF Assigned, Pointer
<1>2. PICK p : p = rp[s]
  OBVIOUS
<1>3. s \in StrsAt(rp, p) /\ p \in Nat
  BY <1>1, <1>2 DEF StrsAt
<1>4. IsFiniteSet(StrsAt(rp, p)) /\ Cardinality(StrsAt(rp, p)) \in Nat
  BY <1>3, StrsFinite
<1>5. Cardinality(StrsAt(rp, p)) # 0
  BY <1>3, <1>4, FS_EmptySet
<1>6. Exts(rp, made)[p] = Cardinality(StrsAt(rp, p)) + One(p \in made)
  BY <1>3 DEF Exts
<1>7. One(p \in made) \in Nat
  BY DEF One
<1>8. Exts(rp, made)[p] >= 1
  BY <1>4, <1>5, <1>6, <1>7
<1>9. QED
  BY <1>1, <1>2, <1>8

(* One string gets another rope. *)
Given(rp, rq, s, r) == rq = [rp EXCEPT ![s] = r]

(* One string gets another rope. *)
LEMMA GivenIs ==
  ASSUME NEW rp, NEW rq, NEW s, NEW r, Assigned(rp), s \in Str, r \in Pointer, Given(rp, rq, s, r)
  PROVE  Assigned(rq) /\ rq[s] = r /\ \A t \in Str : t # s => rq[t] = rp[t]
<1>1. rp \in [Str -> Pointer] /\ IsFiniteSet(Named(rp))
  BY DEF Assigned
<1>2. rq \in [Str -> Pointer] /\ rq[s] = r /\ \A t \in Str : t # s => rq[t] = rp[t]
  BY <1>1 DEF Given
<1>3. Named(rq) \subseteq Named(rp) \cup {s}
  BY <1>2 DEF Named
<1>4. IsFiniteSet(Named(rp) \cup {s})
  BY <1>1, FS_AddElement
<1>5. IsFiniteSet(Named(rq))
  BY <1>3, <1>4, FS_Subset
<1>6. QED
  BY <1>2, <1>5 DEF Assigned

Shifts(x, y, q, r, p) == y[p] + One(q = p) = x[p] + One(r = p)

(* Its old rope loses what the new one gets. *)
LEMMA GivenExts ==
  ASSUME NEW rp, NEW rq, NEW s, NEW r, NEW made, NEW p, Assigned(rp), s \in Str, r \in Pointer, Given(rp, rq, s, r),
         p \in Nat
  PROVE  Shifts(Exts(rp, made), Exts(rq, made), rp[s], r, p)
<1>1. Assigned(rq) /\ rq[s] = r /\ \A t \in Str : t # s => rq[t] = rp[t]
  BY GivenIs
<1>2. PICK S, S2 : S = StrsAt(rp, p) /\ S2 = StrsAt(rq, p)
  OBVIOUS
<1>3. IsFiniteSet(S) /\ Cardinality(S) \in Nat /\ Cardinality(S2) \in Nat
  BY <1>1, <1>2, StrsFinite
<1>4. \A t : t # s => (t \in S <=> t \in S2)
  BY <1>1, <1>2 DEF StrsAt
<1>5. Cardinality(S2) + One(s \in S) = Cardinality(S) + One(s \in S2)
  BY <1>3, <1>4, OneMore
<1>6. (s \in S <=> rp[s] = p) /\ (s \in S2 <=> r = p)
  BY <1>1, <1>2 DEF StrsAt
<1>7. One(s \in S) = One(rp[s] = p) /\ One(s \in S2) = One(r = p)
  BY <1>6 DEF One
<1>8. Exts(rp, made)[p] = Cardinality(S) + One(p \in made) /\ Exts(rq, made)[p] = Cardinality(S2) + One(p \in made)
  BY <1>2 DEF Exts
<1>9. \A b : One(b) \in Nat
  BY DEF One
<1>10. QED
  BY <1>3, <1>5, <1>7, <1>8, <1>9 DEF Shifts

(* A string that had none. *)
LEMMA ExtsNew ==
  ASSUME NEW rp, NEW rq, NEW s, NEW r, NEW made, Assigned(rp), s \in Str, r \in Nat, Given(rp, rq, s, r), rp[s] = Nil
  PROVE  Exts(rq, made) = Inc(Exts(rp, made), r)
<1>1. r \in Pointer
  BY DEF Pointer
<1>2. Assigned(rq)
  BY <1>1, GivenIs
<1>3. PICK x, y : x = Exts(rp, made) /\ y = Exts(rq, made)
  OBVIOUS
<1>4. x \in Counts /\ y \in Counts
  BY <1>2, <1>3, ExtsIn
<1>5. Inc(x, r) \in Counts /\ \A p \in Nat : Inc(x, r)[p] = x[p] + One(p = r)
  BY <1>4, IncIn
<1>6. \A p \in Nat : y[p] = Inc(x, r)[p]
  <2>1. TAKE p \in Nat
  <2>1a. Shifts(x, y, rp[s], r, p)
    BY <1>1, <1>3, GivenExts
  <2>2. y[p] + One(rp[s] = p) = x[p] + One(r = p)
    BY <2>1a DEF Shifts
  <2>3. rp[s] # p
    BY NilAssumption
  <2>4. One(rp[s] = p) = 0 /\ One(r = p) = One(p = r)
    BY <2>3 DEF One
  <2>5. y[p] \in Nat
    BY <1>4 DEF Counts
  <2>6. QED
    BY <1>5, <2>2, <2>4, <2>5
<1>7. y = Inc(x, r)
  BY <1>4, <1>5, <1>6, Same
<1>8. QED
  BY <1>3, <1>7

(* A string that gets none. *)
LEMMA ExtsGone ==
  ASSUME NEW rp, NEW rq, NEW s, NEW made, Assigned(rp), s \in Str, Given(rp, rq, s, Nil), rp[s] # Nil
  PROVE  Exts(rq, made) = Dec(Exts(rp, made), rp[s])
<1>1. Nil \in Pointer
  BY DEF Pointer
<1>2. Assigned(rq)
  BY <1>1, GivenIs
<1>3. PICK x, y, r : x = Exts(rp, made) /\ y = Exts(rq, made) /\ r = rp[s]
  OBVIOUS
<1>4. x \in Counts /\ y \in Counts /\ r \in Nat /\ x[r] >= 1
  BY <1>2, <1>3, ExtsIn, ExtsAt
<1>5. Dec(x, r) \in Counts /\ \A p \in Nat : Dec(x, r)[p] + One(p = r) = x[p]
  BY <1>4, DecIn
<1>6. \A p \in Nat : y[p] = Dec(x, r)[p]
  <2>1. TAKE p \in Nat
  <2>1a. Shifts(x, y, r, Nil, p)
    BY <1>1, <1>3, GivenExts
  <2>2. y[p] + One(r = p) = x[p] + One(Nil = p)
    BY <2>1a DEF Shifts
  <2>3. Nil # p
    BY NilAssumption
  <2>4. One(Nil = p) = 0 /\ One(r = p) = One(p = r) /\ One(p = r) \in Nat
    BY <2>3 DEF One
  <2>5. y[p] \in Nat /\ x[p] \in Nat /\ Dec(x, r)[p] \in Nat
    BY <1>4, <1>5 DEF Counts
  <2>6. QED
    BY <1>5, <2>2, <2>4, <2>5
<1>7. y = Dec(x, r)
  BY <1>4, <1>5, <1>6, Same
<1>8. QED
  BY <1>3, <1>7

(* A string that had another. *)
LEMMA ExtsOther ==
  ASSUME NEW rp, NEW rq, NEW s, NEW r, NEW made, Assigned(rp), s \in Str, r \in Nat, Given(rp, rq, s, r), rp[s] # Nil
  PROVE  Exts(rq, made) = Dec(Inc(Exts(rp, made), r), rp[s])
<1>1. r \in Pointer
  BY DEF Pointer
<1>2. Assigned(rq)
  BY <1>1, GivenIs
<1>3. PICK x, y, q : x = Exts(rp, made) /\ y = Exts(rq, made) /\ q = rp[s]
  OBVIOUS
<1>4. x \in Counts /\ y \in Counts /\ q \in Nat /\ x[q] >= 1
  BY <1>2, <1>3, ExtsIn, ExtsAt
<1>5. PICK z : z = Inc(x, r)
  OBVIOUS
<1>6. z \in Counts /\ \A p \in Nat : z[p] = x[p] + One(p = r)
  BY <1>4, <1>5, IncIn
<1>7. \A b : One(b) \in Nat
  BY DEF One
<1>8. z[q] >= 1
  <2>1. x[q] \in Nat /\ One(q = r) \in Nat /\ z[q] = x[q] + One(q = r)
    BY <1>4, <1>6, <1>7 DEF Counts
  <2>2. QED
    BY <1>4, <2>1
<1>9. Dec(z, q) \in Counts /\ \A p \in Nat : Dec(z, q)[p] + One(p = q) = z[p]
  BY <1>4, <1>6, <1>8, DecIn
<1>10. \A p \in Nat : y[p] = Dec(z, q)[p]
  <2>1. TAKE p \in Nat
  <2>1a. Shifts(x, y, q, r, p)
    BY <1>1, <1>3, GivenExts
  <2>2. y[p] + One(q = p) = x[p] + One(r = p)
    BY <2>1a DEF Shifts
  <2>3. One(q = p) = One(p = q) /\ One(r = p) = One(p = r)
    BY DEF One
  <2>4. y[p] \in Nat /\ Dec(z, q)[p] \in Nat /\ One(p = q) \in Nat
    BY <1>4, <1>7, <1>9 DEF Counts
  <2>5. y[p] + One(p = q) = Dec(z, q)[p] + One(p = q)
    BY <1>6, <1>9, <2>2, <2>3
  <2>6. QED
    BY <2>4, <2>5
<1>11. y = Dec(z, q)
  BY <1>4, <1>9, <1>10, Same
<1>12. QED
  BY <1>3, <1>5, <1>11

(* A buffer of pic_str keeps its count. *)
LEMMA ExtsMade ==
  ASSUME NEW rp, NEW made, NEW o, Assigned(rp), o \in Nat, o \notin made
  PROVE  Exts(rp, made \cup {o}) = Inc(Exts(rp, made), o)
<1>1. PICK x, y : x = Exts(rp, made) /\ y = Exts(rp, made \cup {o})
  OBVIOUS
<1>2. x \in Counts /\ y \in Counts
  BY <1>1, ExtsIn
<1>3. Inc(x, o) \in Counts /\ \A p \in Nat : Inc(x, o)[p] = x[p] + One(p = o)
  BY <1>2, IncIn
<1>4. \A p \in Nat : y[p] = Inc(x, o)[p]
  <2>1. TAKE p \in Nat
  <2>2. x[p] = Cardinality(StrsAt(rp, p)) + One(p \in made)
    BY <1>1 DEF Exts
  <2>3. y[p] = Cardinality(StrsAt(rp, p)) + One(p \in made \cup {o})
    BY <1>1 DEF Exts
  <2>4. Cardinality(StrsAt(rp, p)) \in Nat
    BY StrsFinite
  <2>5. One(p \in made \cup {o}) = One(p \in made) + One(p = o)
    BY DEF One
  <2>6. One(p \in made) \in Nat /\ One(p = o) \in Nat
    BY DEF One
  <2>7. QED
    BY <1>3, <2>2, <2>3, <2>4, <2>5, <2>6
<1>5. y = Inc(x, o)
  BY <1>2, <1>3, <1>4, Same
<1>6. QED
  BY <1>1, <1>5

Losing(n, lost) == [r \in DOMAIN n |-> IF r \in lost THEN NoRope ELSE n[r]]
LastOf(n, made) == {r \in made : n[r].ref = 1}

(* The memory without the ropes that are lost. *)
LEMMA LosingIs ==
  ASSUME NEW n, NEW lost, NEW k, n \in Memory, k = Losing(n, lost)
  PROVE  /\ k \in Memory /\ DOMAIN k = DOMAIN n
         /\ \A p \in Nat : At(k, p) = IF p \in lost THEN NoRope ELSE At(n, p)
<1>1. Len(n) \in Nat /\ DOMAIN n = 1 .. Len(n)
  BY Dom
<1>2. \A r \in DOMAIN n : (IF r \in lost THEN NoRope ELSE n[r]) \in Ropes
  <2>1. TAKE r \in DOMAIN n
  <2>2. n[r] \in Ropes
    BY DEF Memory
  <2>3. QED
    BY <2>2, NoRopeIn
<1>3. k = [r \in 1 .. Len(n) |-> IF r \in lost THEN NoRope ELSE n[r]]
  BY <1>1 DEF Losing
<1>4. k \in [1 .. Len(n) -> Ropes]
  BY <1>1, <1>2, <1>3
<1>5. k \in Seq(Ropes)
  BY <1>1, <1>4
<1>6. DOMAIN k = DOMAIN n /\ \A r \in DOMAIN n : k[r] = IF r \in lost THEN NoRope ELSE n[r]
  BY <1>1, <1>3
<1>7. \A p \in Nat : At(k, p) = IF p \in lost THEN NoRope ELSE At(n, p)
  BY <1>6 DEF At
<1>8. QED
  BY <1>5, <1>6, <1>7 DEF Memory

(* The last pointer to a buffer of pic_str was the one never given back.   *)
LEMMA LastIs ==
  ASSUME NEW n, NEW rp, NEW made, NEW h, NEW x, NEW p, Assigned(rp), x = Exts(rp, made), Fine(n, x, h), p \in Nat,
         p \in LastOf(n, made)
  PROVE  Cardinality(StrsAt(rp, p)) = 0 /\ Inner(n, p) = 0 /\ Unused(n, p)
<1>1. n \in Memory /\ x \in Counts /\ Exact(n, x)
  BY DEF Fine
<1>2. p \in made /\ n[p].ref = 1
  BY DEF LastOf
<1>3. x[p] >= 1 /\ x[p] = Cardinality(StrsAt(rp, p)) + One(p \in made)
  BY <1>2, ExtsIn
<1>4. At(n, p) = n[p]
  BY <1>1, <1>3, Counted
<1>5. 1 = x[p] + Inner(n, p) /\ Inner(n, p) \in Nat
  BY <1>1, <1>2, <1>4, InnerNat DEF Exact
<1>6. Cardinality(StrsAt(rp, p)) \in Nat
  BY StrsFinite
<1>7. One(p \in made) = 1
  BY <1>2 DEF One
<1>8. Cardinality(StrsAt(rp, p)) = 0 /\ Inner(n, p) = 0
  BY <1>3, <1>5, <1>6, <1>7
<1>9. QED
  BY <1>1, <1>8, UnusedIf

Owns(n, made) == \A p \in made : Own(At(n, p))

(* It is as sound as it was, since nothing led to them. *)
LEMMA LosingFine ==
  ASSUME NEW n, NEW rp, NEW made, NEW h, NEW lost, NEW k, Assigned(rp), made \subseteq Nat, Fine(n, Exts(rp, made), h),
         Owns(n, made), lost = LastOf(n, made), k = Losing(n, lost)
  PROVE  Fine(k, Exts(rp, made \ lost), h) /\ Lost(n, k) /\ Owns(k, made \ lost)
<1>1. PICK x, y : x = Exts(rp, made) /\ y = Exts(rp, made \ lost)
  OBVIOUS
<1>2. Fine(n, x, h)
  BY <1>1
<1>3. n \in Memory /\ x \in Counts /\ Exact(n, x) /\ h \in Counts /\ Sound(n, h)
  BY <1>2 DEF Fine
<1>4. k \in Memory /\ DOMAIN k = DOMAIN n /\ \A p \in Nat : At(k, p) = IF p \in lost THEN NoRope ELSE At(n, p)
  BY <1>3, LosingIs
<1>5. lost \subseteq made /\ lost \subseteq Nat
  BY DEF LastOf
<1>6. \A p \in lost : Cardinality(StrsAt(rp, p)) = 0 /\ Inner(n, p) = 0 /\ Unused(n, p)
  BY <1>1, <1>2, <1>5, LastIs
<1>7. y \in Counts /\ \A p \in Nat : y[p] = Cardinality(StrsAt(rp, p)) + One(p \in made \ lost)
  BY <1>1, ExtsIn
<1>8. \A p \in Nat : x[p] = Cardinality(StrsAt(rp, p)) + One(p \in made)
  BY <1>1, ExtsIn
<1>9. \A p \in lost : At(n, p).owner = Nil /\ At(n, p).left = Nil /\ At(n, p).right = Nil
  BY <1>2, <1>5, OwnHas DEF Owns
<1>10. NoRope.owner = Nil /\ NoRope.left = Nil /\ NoRope.right = Nil /\ NoRope.ref = 0
  BY DEF NoRope
<1>11. \A p \in Nat : At(k, p).owner = At(n, p).owner /\ At(k, p).left = At(n, p).left /\ At(k, p).right = At(n, p).right
  BY <1>4, <1>9, <1>10
<1>12. \A p \in Nat : Inner(k, p) = Inner(n, p)
  <2>1. TAKE p \in Nat
  <2>2. \A q \in DOMAIN n : q \in Nat /\ At(n, q) = n[q] /\ At(k, q) = k[q]
    BY <1>3, <1>4, Dom DEF At
  <2>3. \A q \in DOMAIN n : k[q].owner = n[q].owner /\ k[q].left = n[q].left /\ k[q].right = n[q].right
    BY <1>11, <2>2
  <2>4. Owned(k, p) = Owned(n, p) /\ OnLeft(k, p) = OnLeft(n, p) /\ OnRight(k, p) = OnRight(n, p)
    BY <1>4, <2>3 DEF Owned, OnLeft, OnRight
  <2>5. QED
    BY <2>4 DEF Inner
<1>13. Exact(k, y)
  <2>1. SUFFICES ASSUME NEW p \in Nat PROVE At(k, p).ref = y[p] + Inner(k, p)
    BY DEF Exact
  <2>2. CASE p \in lost
    <3>1. At(k, p).ref = 0
      BY <1>4, <1>10, <2>2
    <3>2. One(p \in made \ lost) = 0
      BY <2>2 DEF One
    <3>3. QED
      BY <1>6, <1>7, <1>12, <2>2, <3>1, <3>2
  <2>3. CASE p \notin lost
    <3>1. One(p \in made \ lost) = One(p \in made)
      BY <2>3 DEF One
    <3>2. y[p] = x[p]
      BY <1>7, <1>8, <3>1
    <3>3. At(n, p).ref = x[p] + Inner(n, p)
      BY <1>3 DEF Exact
    <3>4. QED
      BY <1>4, <1>12, <2>3, <3>2, <3>3
  <2>4. QED
    BY <2>2, <2>3
<1>14. Sound(k, h)
  <2>1. SUFFICES ASSUME NEW q \in Nat, At(k, q) # NoRope PROVE Fits(k, h, q, At(k, q))
    BY DEF Sound, Fits
  <2>2. q \notin lost /\ At(k, q) = At(n, q)
    BY <1>4, <2>1
  <2>3. Fits(n, h, q, At(n, q))
    BY <1>3 DEF Sound
  <2>4. At(n, q).owner \notin lost /\ At(n, q).left \notin lost /\ At(n, q).right \notin lost
    BY <1>6 DEF Unused
  <2>5. At(n, q) \in Ropes
    BY <1>3, AtIn
  <2>6. PICK c : c = At(n, q)
    OBVIOUS
  <2>7. /\ c.owner # Nil => c.owner \in Nat /\ At(k, c.owner) = At(n, c.owner)
        /\ c.left # Nil => c.left \in Nat /\ At(k, c.left) = At(n, c.left)
        /\ c.right # Nil => c.right \in Nat /\ At(k, c.right) = At(n, c.right)
    BY <1>4, <2>4, <2>5, <2>6, RopeParts DEF Pointer
  <2>8. Fits(n, h, q, c) /\ c # NoRope
    BY <2>1, <2>2, <2>3, <2>6
  <2>9. c.left # Nil => NodeFits(k, h, q, c)
    BY <2>7, <2>8 DEF Fits, NodeFits
  <2>10. c.left = Nil /\ c.owner # Nil => WindowFits(k, h, q, c)
    BY <2>7, <2>8 DEF Fits, WindowFits
  <2>11. Fits(k, h, q, c)
    BY <2>8, <2>9, <2>10 DEF Fits
  <2>12. QED
    BY <2>2, <2>6, <2>11
<1>15. Fine(k, y, h)
  BY <1>3, <1>4, <1>7, <1>13, <1>14 DEF Fine
<1>16. Lost(n, k)
  BY <1>4 DEF Lost, Alike
<1>17. Owns(k, made \ lost)
  BY <1>4 DEF Owns
<1>18. QED
  BY <1>1, <1>15, <1>16, <1>17

-----------------------------------------------------------------------------
(* pic_rope_decref of a pointer that came last. *)
LEMMA DecrefOK ==
  ASSUME NEW m, NEW x, NEW r, NEW n, OK(m, Inc(x, r)), x \in Counts, r \in Nat, n = pic_rope_decref(m, r)
  PROVE  OK(n, x) /\ Lost(m, n)
<1>1. PICK h : Fine(m, Inc(x, r), h)
  BY DEF OK
<1>2. Inc(x, r)[r] >= 1 /\ Dec(Inc(x, r), r) = x
  BY IncIn, IncDec
<1>3. PICK y : y = Inc(x, r)
  OBVIOUS
<1>4. Fine(m, y, h) /\ y[r] >= 1 /\ Dec(y, r) = x
  BY <1>1, <1>2, <1>3
<1>5. Fine(n, Dec(y, r), h) /\ Lost(m, n)
  BY <1>4, Decref
<1>6. QED
  BY <1>4, <1>5 DEF OK

(* pic_rope_decref of a pointer that is there. *)
LEMMA DecrefDec ==
  ASSUME NEW m, NEW x, NEW r, NEW n, OK(m, x), r \in Nat, x[r] >= 1, n = pic_rope_decref(m, r)
  PROVE  OK(n, Dec(x, r)) /\ Lost(m, n)
<1>1. PICK h : Fine(m, x, h)
  BY DEF OK
<1>2. Fine(n, Dec(x, r), h) /\ Lost(m, n)
  BY <1>1, Decref
<1>3. QED
  BY <1>2 DEF OK

(* Nothing happened. *)
LEMMA LostSelf ==
  ASSUME NEW m
  PROVE  Lost(m, m)
  BY DEF Lost, Alike

(* Ropes come, then ropes go: those that stay are alike. *)
LEMMA KeptIf ==
  ASSUME NEW m, NEW k, NEW n, Grown(m, k), Lost(k, n)
  PROVE  Kept(m, n)
  BY DEF Grown, Lost, Kept, Alike

(* pic_str_value gives a rope. *)
LEMMA ValueGives ==
  ASSUME NEW m, NEW x, NEW t, NEW v, OK(m, x), t \in Seq(Char), v = pic_str_value(m, t)
  PROVE  Gives(m, x, v)
<1>1. PICK h : Fine(m, x, h)
  BY DEF OK
<1>2. v.rope \in Nat /\ Grown(m, v.mem) /\ Fine(v.mem, Inc(x, v.rope), [h EXCEPT ![v.rope] = 0])
  BY <1>1, Value
<1>3. QED
  BY <1>2 DEF Gives, OK

(* make_rope_node gives a rope. *)
LEMMA NodeGives ==
  ASSUME NEW m, NEW x, NEW left, NEW right, NEW v, OK(m, x), left \in Nat, At(m, left) # NoRope, right \in Nat,
         At(m, right) # NoRope, v = make_rope_node(m, left, right)
  PROVE  Gives(m, x, v)
<1>1. PICK h : Fine(m, x, h)
  BY DEF OK
<1>2. QED
  BY <1>1, Joint

(* A rope pointed to from outside is in use. *)
LEMMA OKUsed ==
  ASSUME NEW m, NEW x, NEW r, OK(m, x), r \in Nat, x[r] >= 1
  PROVE  At(m, r) # NoRope /\ At(m, r) = m[r] /\ At(m, r).weight \in Nat
<1>1. PICK h : Fine(m, x, h)
  BY DEF OK
<1>2. m \in Memory /\ x \in Counts /\ Exact(m, x)
  BY <1>1 DEF Fine
<1>3. At(m, r) # NoRope /\ At(m, r) = m[r]
  BY <1>2, Counted
<1>4. At(m, r) \in Ropes
  BY <1>2, AtIn
<1>5. QED
  BY <1>3, <1>4, RopeParts

(* So is one that a constructor gives. *)
LEMMA GivenUsed ==
  ASSUME NEW m, NEW x, NEW v, Gives(m, x, v), x \in Counts
  PROVE  /\ v.rope \in Nat /\ At(v.mem, v.rope) # NoRope /\ Grown(m, v.mem) /\ OK(v.mem, Inc(x, v.rope))
         /\ Inc(x, v.rope) \in Counts
<1>1. v.rope \in Nat /\ Grown(m, v.mem) /\ OK(v.mem, Inc(x, v.rope))
  BY DEF Gives
<1>2. PICK n, r, y : n = v.mem /\ r = v.rope /\ y = Inc(x, v.rope)
  OBVIOUS
<1>3. y \in Counts /\ y[r] >= 1
  BY <1>1, <1>2, IncIn
<1>4. At(n, r) # NoRope
  BY <1>1, <1>2, <1>3, OKUsed
<1>5. QED
  BY <1>1, <1>2, <1>3, <1>4

-----------------------------------------------------------------------------
(* The inductive invariant, and each operation. *)

IInv ==
  /\ Assigned(rope) /\ flat \subseteq Nat /\ OK(mem, Exts(rope, flat))
  /\ Owns(mem, flat)

(* What an operation makes of memory: some ropes are new, others are gone. *)
Becomes(m, n) == \E k : Grown(m, k) /\ Lost(k, n)

(* The ropes that stay are alike. *)
LEMMA BecomesKept ==
  ASSUME NEW m, NEW n, Becomes(m, n)
  PROVE  Kept(m, n)
  BY KeptIf DEF Becomes

(* The lost buffers are left out, and no others. *)
LEMMA LeavesIs ==
  ASSUME NEW n, NEW made, n \in Memory, made \subseteq Nat, \A p \in made : At(n, p) # NoRope, Leaves(n, made)
  PROVE  mem' = Losing(n, LastOf(n, made)) /\ flat' = made \ LastOf(n, made)
<1>1. mem' = Losing(n, LastOf(n, made)) /\ flat' = (made \cap Used(n)) \ LastOf(n, made)
  BY DEF Leaves, Losing, LastOf
<1>2. made \subseteq Used(n)
  BY UsedFinite
<1>3. QED
  BY <1>1, <1>2

(* The invariant after an operation that gave each string what it counts. *)
LEMMA LeavesKeep ==
  ASSUME NEW n, NEW rq, IInv, Becomes(mem, n), Assigned(rq), rope' = rq, OK(n, Exts(rq, flat)), Leaves(n, flat)
  PROVE  IInv' /\ Kept(mem, mem')
<1>1. /\ Assigned(rope) /\ flat \subseteq Nat /\ OK(mem, Exts(rope, flat))
      /\ \A p \in flat : Own(At(mem, p))
  BY DEF IInv, Owns
<1>2. PICK k : Grown(mem, k) /\ Lost(k, n)
  BY DEF Becomes
<1>3. Kept(mem, n)
  BY BecomesKept
<1>4. PICK h : Fine(n, Exts(rq, flat), h)
  BY DEF OK
<1>5. n \in Memory
  BY <1>4 DEF Fine
<1>6. \A p \in flat : At(n, p) # NoRope
  <2>1. TAKE p \in flat
  <2>2. p \in Nat /\ Exts(rq, flat)[p] >= 1
    BY <1>1, ExtsIn
  <2>3. QED
    BY <2>2, OKUsed
<1>7. Owns(n, flat)
  <2>1. SUFFICES ASSUME NEW p \in flat PROVE Own(At(n, p))
    BY DEF Owns
  <2>2. At(n, p) # NoRope /\ Own(At(mem, p)) /\ p \in Nat
    BY <1>1, <1>6
  <2>3. At(mem, p) # NoRope
    BY <2>2 DEF Own
  <2>4. Alike(At(mem, p), At(n, p))
    BY <1>3, <2>2, <2>3 DEF Kept
  <2>5. QED
    BY <2>2, <2>4 DEF Own, Alike
<1>8. PICK lost : lost = LastOf(n, flat)
  OBVIOUS
<1>9. mem' = Losing(n, lost) /\ flat' = flat \ lost
  BY <1>1, <1>5, <1>6, <1>8, LeavesIs
<1>10. PICK e : e = Losing(n, lost)
  OBVIOUS
<1>11. Fine(e, Exts(rq, flat \ lost), h) /\ Lost(n, e) /\ Owns(e, flat \ lost)
  BY <1>1, <1>4, <1>7, <1>8, <1>10, LosingFine
<1>12. IInv'
  <2>1. Assigned(rope')
    OBVIOUS
  <2>2. flat' \subseteq Nat
    BY <1>1, <1>9
  <2>3. OK(mem', Exts(rope', flat'))
    BY <1>9, <1>10, <1>11 DEF OK
  <2>4. Owns(mem', flat')
    BY <1>9, <1>10, <1>11
  <2>5. QED
    BY <2>1, <2>2, <2>3, <2>4 DEF IInv
<1>13. Lost(k, e)
  BY <1>2, <1>11, LostTwice
<1>14. Kept(mem, e)
  BY <1>2, <1>13, KeptIf
<1>15. QED
  BY <1>9, <1>10, <1>12, <1>14

(* A new string. *)
LEMMA MakeKeeps ==
  ASSUME NEW s \in Str, NEW v, NEW n, NEW r, IInv, make_str(s, v), v.mem = n, v.rope = r, r \in Nat, Becomes(mem, n),
         OK(n, Inc(Exts(rope, flat), r))
  PROVE  IInv' /\ Kept(mem, mem')
<1>1. Assigned(rope)
  BY DEF IInv
<1>2. rope[s] = Nil /\ Leaves(n, flat) /\ rope' = [rope EXCEPT ![s] = r]
  BY DEF make_str
<1>3. PICK rq : rq = rope'
  OBVIOUS
<1>4. Given(rope, rq, s, r)
  BY <1>2, <1>3 DEF Given
<1>5. r \in Pointer
  BY DEF Pointer
<1>6. Assigned(rq)
  BY <1>1, <1>4, <1>5, GivenIs
<1>7. Exts(rq, flat) = Inc(Exts(rope, flat), r)
  BY <1>1, <1>2, <1>4, ExtsNew
<1>8. OK(n, Exts(rq, flat))
  BY <1>7
<1>9. QED
  BY <1>2, <1>3, <1>6, <1>8, LeavesKeep

(* A string gives back its rope, for another one or for none. *)
LEMMA UpdateKeeps ==
  ASSUME NEW s \in Str, NEW m, NEW r, IInv, str_update(s, m, r), rope[s] # Nil, r \in Nat, Becomes(mem, m),
         OK(m, Inc(Exts(rope, flat), r))
  PROVE  IInv' /\ Kept(mem, mem')
<1>1. Assigned(rope)
  BY DEF IInv
<1>2. PICK n : n = pic_rope_decref(m, rope[s])
  OBVIOUS
<1>3. Leaves(n, flat) /\ rope' = [rope EXCEPT ![s] = r]
  BY <1>2 DEF str_update
<1>4. PICK rq, q, x, y : rq = rope' /\ q = rope[s] /\ x = Exts(rope, flat) /\ y = Inc(x, r)
  OBVIOUS
<1>5. Given(rope, rq, s, r)
  BY <1>3, <1>4 DEF Given
<1>6. r \in Pointer
  BY DEF Pointer
<1>7. Assigned(rq)
  BY <1>1, <1>5, <1>6, GivenIs
<1>8. Exts(rq, flat) = Dec(y, q)
  BY <1>1, <1>4, <1>5, ExtsOther
<1>9. q \in Nat /\ x[q] >= 1 /\ x \in Counts
  BY <1>1, <1>4, ExtsAt, ExtsIn
<1>10. y[q] >= 1
  <2>1. y[q] = x[q] + One(q = r) /\ x[q] \in Nat /\ One(q = r) \in Nat
    BY <1>4, <1>9, IncIn DEF Counts, One
  <2>2. QED
    BY <1>9, <2>1
<1>11. OK(m, y)
  BY <1>4
<1>12. OK(n, Dec(y, q)) /\ Lost(m, n)
  BY <1>2, <1>4, <1>9, <1>10, <1>11, DecrefDec
<1>13. Becomes(mem, n)
  <2>1. PICK k : Grown(mem, k) /\ Lost(k, m)
    BY DEF Becomes
  <2>2. Lost(k, n)
    BY <1>12, <2>1, LostTwice
  <2>3. QED
    BY <2>1, <2>2 DEF Becomes
<1>14. OK(n, Exts(rq, flat))
  BY <1>8, <1>12
<1>15. QED
  BY <1>3, <1>4, <1>7, <1>13, <1>14, LeavesKeep

(* The finalizer of a string. *)
LEMMA DropKeeps ==
  ASSUME NEW s \in Str, IInv, Drop(s)
  PROVE  IInv' /\ Kept(mem, mem')
<1>1. Assigned(rope) /\ OK(mem, Exts(rope, flat))
  BY DEF IInv
<1>2. PICK n : n = pic_rope_decref(mem, rope[s])
  OBVIOUS
<1>3. Leaves(n, flat) /\ rope' = [rope EXCEPT ![s] = Nil] /\ rope[s] # Nil
  BY <1>2 DEF Drop, Live
<1>4. PICK rq, q, x : rq = rope' /\ q = rope[s] /\ x = Exts(rope, flat)
  OBVIOUS
<1>5. Given(rope, rq, s, Nil)
  BY <1>3, <1>4 DEF Given
<1>6. Nil \in Pointer
  BY DEF Pointer
<1>7. Assigned(rq)
  BY <1>1, <1>5, <1>6, GivenIs
<1>8. Exts(rq, flat) = Dec(x, q)
  BY <1>1, <1>3, <1>4, <1>5, ExtsGone
<1>9. q \in Nat /\ x[q] >= 1
  BY <1>1, <1>3, <1>4, ExtsAt
<1>10. OK(n, Dec(x, q)) /\ Lost(mem, n)
  BY <1>1, <1>2, <1>4, <1>9, DecrefDec
<1>11. Becomes(mem, n)
  BY <1>10, GrownSelf DEF Becomes
<1>12. OK(n, Exts(rq, flat))
  BY <1>8, <1>10
<1>13. QED
  BY <1>3, <1>4, <1>7, <1>11, <1>12, LeavesKeep

(* A constructor. *)
LEMMA GivesBecomes ==
  ASSUME NEW m, NEW x, NEW v, NEW n, Gives(m, x, v), v.mem = n
  PROVE  Becomes(m, n)
  BY LostSelf DEF Gives, Becomes

(* A string made from a C buffer. *)
LEMMA MakeStep ==
  ASSUME NEW s \in Str, NEW t \in Texts, IInv, Make(s, t)
  PROVE  IInv' /\ Kept(mem, mem')
<1>1. PICK v, x : v = pic_str_value(mem, t) /\ x = Exts(rope, flat)
  OBVIOUS
<1>2. make_str(s, v)
  BY <1>1 DEF Make
<1>3. t \in Seq(Char)
  BY TextsAssumption
<1>4. OK(mem, x)
  BY <1>1 DEF IInv
<1>5. Gives(mem, x, v)
  BY <1>1, <1>3, <1>4, ValueGives
<1>6. PICK n, r : n = v.mem /\ r = v.rope
  OBVIOUS
<1>7. r \in Nat /\ OK(n, Inc(x, r)) /\ Becomes(mem, n)
  BY <1>5, <1>6, GivesBecomes DEF Gives
<1>8. QED
  BY <1>1, <1>2, <1>6, <1>7, MakeKeeps

(* Where a string is, its rope is in use. *)
LEMMA RopeOf ==
  ASSUME NEW s, IInv, s \in Live
  PROVE  /\ s \in Str /\ rope[s] # Nil /\ rope[s] \in Nat /\ Exts(rope, flat)[rope[s]] >= 1
         /\ At(mem, rope[s]) # NoRope /\ At(mem, rope[s]) = mem[rope[s]] /\ mem[rope[s]].weight \in Nat
<1>1. s \in Str /\ rope[s] # Nil
  BY DEF Live
<1>2. PICK r, x : r = rope[s] /\ x = Exts(rope, flat)
  OBVIOUS
<1>3. r \in Nat /\ x[r] >= 1
  BY <1>1, <1>2, ExtsAt DEF IInv
<1>4. OK(mem, x)
  BY <1>2 DEF IInv
<1>5. At(mem, r) # NoRope /\ At(mem, r) = mem[r] /\ At(mem, r).weight \in Nat
  BY <1>3, <1>4, OKUsed
<1>6. QED
  BY <1>1, <1>2, <1>3, <1>5

(* string-copy. *)
LEMMA CopyStep ==
  ASSUME NEW s \in Str, NEW a \in Live, NEW p \in Ranges(a), IInv, pic_str_string_copy(s, a, p[1], p[2])
  PROVE  IInv' /\ Kept(mem, mem')
<1>1. PICK i, j, r, x : i = p[1] /\ j = p[2] /\ r = rope[a] /\ x = Exts(rope, flat)
  OBVIOUS
<1>2. i \in Nat /\ j \in Nat /\ i <= j /\ j <= mem[r].weight
  BY <1>1, BoundAssumption DEF Ranges
<1>3. r \in Nat /\ At(mem, r) # NoRope /\ At(mem, r) = mem[r]
  BY <1>1, RopeOf
<1>4. Between(mem, r, i, j)
  BY <1>2, <1>3 DEF Between
<1>5. PICK v : v = slice(mem, r, i, j)
  OBVIOUS
<1>6. make_str(s, v)
  BY <1>1, <1>5 DEF pic_str_string_copy
<1>7. OK(mem, x)
  BY <1>1 DEF IInv
<1>8. Gives(mem, x, v)
  BY <1>4, <1>5, <1>7, SliceGives
<1>9. PICK n, o : n = v.mem /\ o = v.rope
  OBVIOUS
<1>10. o \in Nat /\ OK(n, Inc(x, o)) /\ Becomes(mem, n)
  BY <1>8, <1>9, GivesBecomes DEF Gives
<1>11. QED
  BY <1>1, <1>6, <1>9, <1>10, MakeKeeps

(* string-append. *)
LEMMA AppendStep ==
  ASSUME NEW s \in Str, NEW a \in Live, NEW b \in Live, IInv, pic_str_string_append(s, a, b)
  PROVE  IInv' /\ Kept(mem, mem')
<1>1. PICK ra, rb, x : ra = rope[a] /\ rb = rope[b] /\ x = Exts(rope, flat)
  OBVIOUS
<1>2. ra \in Nat /\ At(mem, ra) # NoRope /\ rb \in Nat /\ At(mem, rb) # NoRope
  BY <1>1, RopeOf
<1>3. OK(mem, x) /\ x \in Counts
  BY <1>1, ExtsIn DEF IInv
<1>4. PICK empty : empty = pic_str_value(mem, << >>)
  OBVIOUS
<1>5. PICK n1, r1 : n1 = empty.mem /\ r1 = empty.rope
  OBVIOUS
<1>6. << >> \in Seq(Char)
  OBVIOUS
<1>7. Gives(mem, x, empty)
  BY <1>3, <1>4, <1>6, ValueGives
<1>8. PICK x1 : x1 = Inc(x, r1)
  OBVIOUS
<1>9. r1 \in Nat /\ At(n1, r1) # NoRope /\ Grown(mem, n1) /\ OK(n1, x1) /\ x1 \in Counts
  BY <1>3, <1>5, <1>7, <1>8, GivenUsed
<1>10. At(n1, ra) # NoRope /\ At(n1, rb) # NoRope
  BY <1>2, <1>9, Used1
<1>11. PICK first : first = make_rope_node(n1, r1, ra)
  OBVIOUS
<1>12. Gives(n1, x1, first)
  BY <1>2, <1>9, <1>10, <1>11, NodeGives
<1>13. PICK n2, r2 : n2 = first.mem /\ r2 = first.rope
  OBVIOUS
<1>14. PICK x2 : x2 = Inc(x1, r2)
  OBVIOUS
<1>15. r2 \in Nat /\ At(n2, r2) # NoRope /\ Grown(n1, n2) /\ OK(n2, x2) /\ x2 \in Counts
  BY <1>9, <1>12, <1>13, <1>14, GivenUsed
<1>16. At(n2, rb) # NoRope
  BY <1>2, <1>10, <1>15, Used1
<1>17. PICK both : both = make_rope_node(n2, r2, rb)
  OBVIOUS
<1>18. Gives(n2, x2, both)
  BY <1>2, <1>15, <1>16, <1>17, NodeGives
<1>19. PICK n3, r3 : n3 = both.mem /\ r3 = both.rope
  OBVIOUS
<1>20. r3 \in Nat /\ Grown(n2, n3) /\ OK(n3, Inc(x2, r3))
  BY <1>15, <1>18, <1>19, GivenUsed
<1>21. PICK y : y = Inc(x, r3)
  OBVIOUS
<1>22. y \in Counts
  BY <1>3, <1>20, <1>21, IncIn
<1>23. Inc(x1, r3) = Inc(y, r1)
  BY <1>3, <1>8, <1>9, <1>20, <1>21, IncInc
<1>24. Inc(x2, r3) = Inc(Inc(x1, r3), r2)
  BY <1>9, <1>14, <1>15, <1>20, IncInc
<1>25. PICK z : z = Inc(y, r1)
  OBVIOUS
<1>26. z \in Counts /\ OK(n3, Inc(z, r2))
  BY <1>9, <1>20, <1>22, <1>23, <1>24, <1>25, IncIn
<1>27. PICK n4 : n4 = pic_rope_decref(n3, r2)
  OBVIOUS
<1>28. OK(n4, z) /\ Lost(n3, n4)
  BY <1>15, <1>26, <1>27, DecrefOK
<1>29. PICK n5 : n5 = pic_rope_decref(n4, r1)
  OBVIOUS
<1>30. OK(n5, y) /\ Lost(n4, n5)
  BY <1>9, <1>22, <1>25, <1>28, <1>29, DecrefOK
<1>31. Becomes(mem, n5)
  <2>1. Grown(mem, n3)
    BY <1>9, <1>15, <1>20, GrownTwice
  <2>2. Lost(n3, n5)
    BY <1>28, <1>30, LostTwice
  <2>3. QED
    BY <2>1, <2>2 DEF Becomes
<1>32. PICK v : v = [both EXCEPT !.mem = n5]
  OBVIOUS
<1>33. make_str(s, v)
  BY <1>1, <1>4, <1>5, <1>11, <1>13, <1>17, <1>19, <1>27, <1>29, <1>32 DEF pic_str_string_append
<1>34. v.mem = n5 /\ v.rope = r3
  <2>1. both = [rope |-> both.rope, mem |-> both.mem]
    BY <1>17 DEF make_rope_node, Made
  <2>2. QED
    BY <1>19, <1>32, <2>1
<1>35. OK(n5, Inc(x, r3))
  BY <1>21, <1>30
<1>36. QED
  BY <1>1, <1>20, <1>31, <1>33, <1>34, <1>35, MakeKeeps

-----------------------------------------------------------------------------
(* The counts while str_update is prepared: a middle, what is before and   *)
(* after it, and two nodes; all but the last node are given back.          *)
LEMMA Reordered ==
  ASSUME NEW x, NEW a, NEW b, NEW c, NEW d, NEW e, x \in Counts, a \in Nat, b \in Nat, c \in Nat, d \in Nat, e \in Nat
  PROVE  /\ Inc(Inc(Inc(Inc(Inc(x, a), b), c), d), e) = Inc(Inc(Inc(Inc(Inc(x, e), d), c), a), b)
         /\ Inc(x, e) \in Counts /\ Inc(Inc(x, e), d) \in Counts /\ Inc(Inc(Inc(x, e), d), c) \in Counts
         /\ Inc(Inc(Inc(Inc(x, e), d), c), a) \in Counts
<1>1. PICK x1, x2, x3, x4, x5 : /\ x1 = Inc(x, a) /\ x2 = Inc(x1, b) /\ x3 = Inc(x2, c) /\ x4 = Inc(x3, d)
                                /\ x5 = Inc(x4, e)
  OBVIOUS
<1>2. PICK y1, y2, y3, y4, y5 : /\ y1 = Inc(x, e) /\ y2 = Inc(y1, d) /\ y3 = Inc(y2, c) /\ y4 = Inc(y3, a)
                                /\ y5 = Inc(y4, b)
  OBVIOUS
<1>3. x1 \in Counts /\ \A p \in Nat : x1[p] = x[p] + One(p = a)
  BY <1>1, IncIn
<1>4. x2 \in Counts /\ \A p \in Nat : x2[p] = x1[p] + One(p = b)
  BY <1>1, <1>3, IncIn
<1>5. x3 \in Counts /\ \A p \in Nat : x3[p] = x2[p] + One(p = c)
  BY <1>1, <1>4, IncIn
<1>6. x4 \in Counts /\ \A p \in Nat : x4[p] = x3[p] + One(p = d)
  BY <1>1, <1>5, IncIn
<1>7. x5 \in Counts /\ \A p \in Nat : x5[p] = x4[p] + One(p = e)
  BY <1>1, <1>6, IncIn
<1>8. y1 \in Counts /\ \A p \in Nat : y1[p] = x[p] + One(p = e)
  BY <1>2, IncIn
<1>9. y2 \in Counts /\ \A p \in Nat : y2[p] = y1[p] + One(p = d)
  BY <1>2, <1>8, IncIn
<1>10. y3 \in Counts /\ \A p \in Nat : y3[p] = y2[p] + One(p = c)
  BY <1>2, <1>9, IncIn
<1>11. y4 \in Counts /\ \A p \in Nat : y4[p] = y3[p] + One(p = a)
  BY <1>2, <1>10, IncIn
<1>12. y5 \in Counts /\ \A p \in Nat : y5[p] = y4[p] + One(p = b)
  BY <1>2, <1>11, IncIn
<1>13. \A p \in Nat : x5[p] = y5[p]
  <2>1. TAKE p \in Nat
  <2>2. x[p] \in Nat /\ One(p = a) \in Nat /\ One(p = b) \in Nat /\ One(p = c) \in Nat /\ One(p = d) \in Nat
        /\ One(p = e) \in Nat
    BY DEF Counts, One
  <2>3. x5[p] = x[p] + One(p = a) + One(p = b) + One(p = c) + One(p = d) + One(p = e)
    BY <1>3, <1>4, <1>5, <1>6, <1>7
  <2>4. y5[p] = x[p] + One(p = e) + One(p = d) + One(p = c) + One(p = a) + One(p = b)
    BY <1>8, <1>9, <1>10, <1>11, <1>12
  <2>5. QED
    BY <2>2, <2>3, <2>4
<1>14. x5 = y5
  BY <1>7, <1>12, <1>13, Same
<1>15. QED
  BY <1>1, <1>2, <1>8, <1>9, <1>10, <1>11, <1>14

(* A range of a rope stays one. *)
LEMMA GrownBetween ==
  ASSUME NEW m, NEW n, NEW r, NEW i, NEW j, Grown(m, n), Between(m, r, i, j)
  PROVE  Between(n, r, i, j)
  BY DEF Grown, Between, Alike

(* str_update with the parts around a new middle. *)
LEMMA ReplaceStep ==
  ASSUME NEW s \in Live, NEW i, NEW j, NEW middle, NEW x, IInv, x = Exts(rope, flat), Gives(mem, x, middle),
         Between(mem, rope[s], 0, i), Between(mem, rope[s], j, mem[rope[s]].weight), Replace(s, i, j, middle)
  PROVE  IInv' /\ Kept(mem, mem')
<1>1. PICK q, w : q = rope[s] /\ w = mem[rope[s]].weight
  OBVIOUS
<1>2. s \in Str /\ rope[s] # Nil /\ q \in Nat /\ x[q] >= 1 /\ At(mem, q) # NoRope
  BY <1>1, RopeOf
<1>3. OK(mem, x) /\ x \in Counts
  BY ExtsIn DEF IInv
<1>4. PICK n1, r1, x1 : n1 = middle.mem /\ r1 = middle.rope /\ x1 = Inc(x, r1)
  OBVIOUS
<1>5. r1 \in Nat /\ At(n1, r1) # NoRope /\ Grown(mem, n1) /\ OK(n1, x1) /\ x1 \in Counts
  BY <1>3, <1>4, GivenUsed
<1>6. Between(n1, q, 0, i)
  BY <1>1, <1>5, GrownBetween
<1>7. PICK before : before = slice(n1, q, 0, i)
  OBVIOUS
<1>8. Gives(n1, x1, before)
  BY <1>5, <1>6, <1>7, SliceGives
<1>9. PICK n2, r2, x2 : n2 = before.mem /\ r2 = before.rope /\ x2 = Inc(x1, r2)
  OBVIOUS
<1>10. r2 \in Nat /\ At(n2, r2) # NoRope /\ Grown(n1, n2) /\ OK(n2, x2) /\ x2 \in Counts
  BY <1>5, <1>8, <1>9, GivenUsed
<1>11. Between(n2, q, j, w)
  <2>1. Between(mem, q, j, w)
    BY <1>1
  <2>2. Between(n1, q, j, w)
    BY <1>5, <2>1, GrownBetween
  <2>3. QED
    BY <1>10, <2>2, GrownBetween
<1>12. PICK after : after = slice(n2, q, j, w)
  OBVIOUS
<1>13. Gives(n2, x2, after)
  BY <1>10, <1>11, <1>12, SliceGives
<1>14. PICK n3, r3, x3 : n3 = after.mem /\ r3 = after.rope /\ x3 = Inc(x2, r3)
  OBVIOUS
<1>15. r3 \in Nat /\ At(n3, r3) # NoRope /\ Grown(n2, n3) /\ OK(n3, x3) /\ x3 \in Counts
  BY <1>10, <1>13, <1>14, GivenUsed
<1>16. At(n3, r1) # NoRope /\ At(n3, r2) # NoRope
  <2>1. At(n2, r1) # NoRope
    BY <1>5, <1>10, Used1
  <2>2. QED
    BY <1>5, <1>10, <1>15, <2>1, Used1
<1>17. PICK tail : tail = make_rope_node(n3, r1, r3)
  OBVIOUS
<1>18. Gives(n3, x3, tail)
  BY <1>5, <1>15, <1>16, <1>17, NodeGives
<1>19. PICK n4, r4, x4 : n4 = tail.mem /\ r4 = tail.rope /\ x4 = Inc(x3, r4)
  OBVIOUS
<1>20. r4 \in Nat /\ At(n4, r4) # NoRope /\ Grown(n3, n4) /\ OK(n4, x4) /\ x4 \in Counts
  BY <1>15, <1>18, <1>19, GivenUsed
<1>21. At(n4, r2) # NoRope
  BY <1>10, <1>16, <1>20, Used1
<1>22. PICK all : all = make_rope_node(n4, r2, r4)
  OBVIOUS
<1>23. Gives(n4, x4, all)
  BY <1>10, <1>20, <1>21, <1>22, NodeGives
<1>24. PICK n5, r5 : n5 = all.mem /\ r5 = all.rope
  OBVIOUS
<1>25. r5 \in Nat /\ Grown(n4, n5) /\ OK(n5, Inc(x4, r5))
  BY <1>20, <1>23, <1>24, GivenUsed
<1>26. PICK y1, y2, y3, y4 : y1 = Inc(x, r5) /\ y2 = Inc(y1, r4) /\ y3 = Inc(y2, r3) /\ y4 = Inc(y3, r1)
  OBVIOUS
<1>27. y1 \in Counts /\ y2 \in Counts /\ y3 \in Counts /\ y4 \in Counts /\ Inc(x4, r5) = Inc(y4, r2)
  BY <1>3, <1>4, <1>5, <1>9, <1>10, <1>14, <1>15, <1>19, <1>20, <1>25, <1>26, Reordered
<1>28. OK(n5, Inc(y4, r2))
  BY <1>25, <1>27
<1>29. PICK k1 : k1 = pic_rope_decref(n5, r2)
  OBVIOUS
<1>30. OK(k1, y4) /\ Lost(n5, k1)
  BY <1>10, <1>27, <1>28, <1>29, DecrefOK
<1>31. PICK k2 : k2 = pic_rope_decref(k1, r1)
  OBVIOUS
<1>32. OK(k2, y3) /\ Lost(k1, k2)
  BY <1>5, <1>26, <1>27, <1>30, <1>31, DecrefOK
<1>33. PICK k3 : k3 = pic_rope_decref(k2, r3)
  OBVIOUS
<1>34. OK(k3, y2) /\ Lost(k2, k3)
  BY <1>15, <1>26, <1>27, <1>32, <1>33, DecrefOK
<1>35. PICK k4 : k4 = pic_rope_decref(k3, r4)
  OBVIOUS
<1>36. OK(k4, y1) /\ Lost(k3, k4)
  BY <1>20, <1>26, <1>27, <1>34, <1>35, DecrefOK
<1>37. str_update(s, k4, r5)
  BY <1>1, <1>4, <1>7, <1>9, <1>12, <1>14, <1>17, <1>19, <1>22, <1>24, <1>29, <1>31, <1>33, <1>35 DEF Replace
<1>38. Becomes(mem, k4)
  <2>1. Grown(mem, n3)
    BY <1>5, <1>10, <1>15, GrownTwice
  <2>2. Grown(mem, n5)
    BY <1>20, <1>25, <2>1, GrownTwice
  <2>3. Lost(n5, k3)
    BY <1>30, <1>32, <1>34, LostTwice
  <2>4. Lost(n5, k4)
    BY <1>36, <2>3, LostTwice
  <2>5. QED
    BY <2>2, <2>4 DEF Becomes
<1>39. OK(k4, Inc(Exts(rope, flat), r5))
  BY <1>26, <1>36
<1>40. QED
  BY <1>2, <1>25, <1>37, <1>38, <1>39, UpdateKeeps

(* The parts of a string before i and from j on. *)
LEMMA PartsOf ==
  ASSUME NEW s \in Live, NEW i, NEW j, IInv, i \in Nat, j \in Nat, i <= j, j <= mem[rope[s]].weight
  PROVE  Between(mem, rope[s], 0, i) /\ Between(mem, rope[s], j, mem[rope[s]].weight) /\ Between(mem, rope[s], i, j)
<1>1. PICK r, w : r = rope[s] /\ w = mem[rope[s]].weight
  OBVIOUS
<1>2. r \in Nat /\ At(mem, r) # NoRope /\ At(mem, r).weight = w /\ w \in Nat
  BY <1>1, RopeOf
<1>3. QED
  BY <1>1, <1>2 DEF Between

(* string-set!. *)
LEMMA SetStep ==
  ASSUME NEW s \in Live, NEW c \in Char, NEW k \in 0 .. mem[rope[s]].weight - 1, IInv, pic_str_string_set(s, k, c)
  PROVE  IInv' /\ Kept(mem, mem')
<1>1. PICK x, t, v, j : x = Exts(rope, flat) /\ t = << c >> /\ v = pic_str_value(mem, t) /\ j = k + 1
  OBVIOUS
<1>2. OK(mem, x) /\ t \in Seq(Char)
  BY <1>1 DEF IInv
<1>3. Gives(mem, x, v)
  BY <1>1, <1>2, ValueGives
<1>4. mem[rope[s]].weight \in Nat
  BY RopeOf
<1>5. k \in Nat /\ j \in Nat /\ k <= j /\ j <= mem[rope[s]].weight
  BY <1>1, <1>4
<1>6. Between(mem, rope[s], 0, k) /\ Between(mem, rope[s], j, mem[rope[s]].weight)
  BY <1>5, PartsOf
<1>7. Replace(s, k, j, v)
  BY <1>1 DEF pic_str_string_set
<1>8. QED
  BY <1>1, <1>3, <1>6, <1>7, ReplaceStep

(* string-fill!. *)
LEMMA FillStep ==
  ASSUME NEW s \in Live, NEW c \in Char, NEW p \in Ranges(s), IInv, pic_str_string_fill_ip(s, c, p[1], p[2])
  PROVE  IInv' /\ Kept(mem, mem')
<1>1. PICK x, i, j : x = Exts(rope, flat) /\ i = p[1] /\ j = p[2]
  OBVIOUS
<1>2. i \in Nat /\ j \in Nat /\ i <= j /\ j <= mem[rope[s]].weight
  BY <1>1, BoundAssumption DEF Ranges
<1>3. PICK t, v : t = [k \in 1 .. j - i |-> c] /\ v = pic_str_value(mem, t)
  OBVIOUS
<1>4. t \in Seq(Char)
  <2>1. j - i \in Nat
    BY <1>2
  <2>2. QED
    BY <1>3, <2>1
<1>5. OK(mem, x)
  BY <1>1 DEF IInv
<1>6. Gives(mem, x, v)
  BY <1>3, <1>4, <1>5, ValueGives
<1>7. Between(mem, rope[s], 0, i) /\ Between(mem, rope[s], j, mem[rope[s]].weight)
  BY <1>2, PartsOf
<1>8. Replace(s, i, j, v)
  BY <1>1, <1>3 DEF pic_str_string_fill_ip
<1>9. QED
  BY <1>1, <1>6, <1>7, <1>8, ReplaceStep

(* string-copy!. *)
LEMMA CopyIpStep ==
  ASSUME NEW s \in Live, NEW from \in Live, NEW p \in Ranges(from), NEW at \in 0 .. mem[rope[s]].weight - 1, IInv,
         p[2] - p[1] <= mem[rope[s]].weight - at, pic_str_string_copy_ip(s, at, from, p[1], p[2])
  PROVE  IInv' /\ Kept(mem, mem')
<1>1. PICK x, i, j, e : x = Exts(rope, flat) /\ i = p[1] /\ j = p[2] /\ e = at + j - i
  OBVIOUS
<1>2. i \in Nat /\ j \in Nat /\ i <= j /\ j <= mem[rope[from]].weight
  BY <1>1, BoundAssumption DEF Ranges
<1>3. PICK r, v : r = rope[from] /\ v = slice(mem, r, i, j)
  OBVIOUS
<1>4. Between(mem, r, i, j)
  BY <1>2, <1>3, PartsOf
<1>5. OK(mem, x)
  BY <1>1 DEF IInv
<1>6. Gives(mem, x, v)
  BY <1>3, <1>4, <1>5, SliceGives
<1>7. mem[rope[s]].weight \in Nat
  BY RopeOf
<1>8. at \in Nat /\ e \in Nat /\ at <= e /\ e <= mem[rope[s]].weight
  BY <1>1, <1>2, <1>7
<1>9. Between(mem, rope[s], 0, at) /\ Between(mem, rope[s], e, mem[rope[s]].weight)
  BY <1>8, PartsOf
<1>10. Replace(s, at, e, v)
  BY <1>1, <1>3 DEF pic_str_string_copy_ip
<1>11. QED
  BY <1>1, <1>6, <1>9, <1>10, ReplaceStep

-----------------------------------------------------------------------------
(* pic_str. *)

SameText(m, n) == \A r \in Nat : At(m, r) # NoRope /\ At(n, r) # NoRope => TextOf(n, r) = TextOf(m, r)

(* Where ropes that stay are alike, so are their characters. *)
LEMMA KeptText ==
  ASSUME NEW m, NEW n, NEW x, NEW y, OK(m, x), OK(n, y), Kept(m, n)
  PROVE  SameText(m, n)
<1>1. PICK g : Fine(m, x, g)
  BY DEF OK
<1>2. PICK h : Fine(n, y, h)
  BY DEF OK
<1>3. \A r \in Nat : At(m, r) # NoRope /\ At(n, r) # NoRope => TextOf(n, r) = TextOf(m, r)
  BY <1>1, <1>2, TextKept
<1>4. QED
  BY <1>3 DEF SameText

(* The characters that v tells, and those in o itself, are what is there   *)
(* when o has been filled.                                                 *)
LEMMA FilledText ==
  ASSUME NEW k, NEW x, NEW h, NEW v, NEW o, NEW at, Filling(k, x, h, v, o, at)
  PROVE  \A r \in Nat : r # o /\ At(k, r) # NoRope => TextOf(k, r) = v[r]
<1>1. /\ Fine(k, x, h) /\ o \in Nat /\ Own(At(k, o)) /\ NoNode(k, o)
      /\ \A q \in Nat : q # o /\ At(k, q) # NoRope => Says(k, v, q)
  BY DEF Filling
<1>2. PICK u : u = [q \in Nat |-> IF q = o THEN Window(k, o) ELSE v[q]]
  OBVIOUS
<1>3. u[o] = Window(k, o) /\ \A q \in Nat : q # o => u[q] = v[q]
  BY <1>1, <1>2
<1>4. At(k, o) # NoRope /\ At(k, o).left = Nil
  BY <1>1 DEF Own
<1>5. /\ Window(k, o) \in Seq(Char) /\ Len(Window(k, o)) = At(k, o).weight
      /\ \A p \in 1 .. At(k, o).weight : Window(k, o)[p] = At(k, At(k, o).buf).own[At(k, o).off + p]
  BY <1>1, <1>4, WindowIs
<1>6. Says(k, u, o)
  BY <1>3, <1>4, <1>5 DEF Says
<1>7. ASSUME NEW q \in Nat, q # o, At(k, q) # NoRope PROVE Says(k, u, q)
  <2>1. Says(k, v, q) /\ u[q] = v[q]
    BY <1>1, <1>3, <1>7
  <2>2. CASE At(k, q).left = Nil
    BY <2>1, <2>2 DEF Says
  <2>3. CASE At(k, q).left # Nil
    <3>1. NodeHas(k, h, q, At(k, q))
      BY <1>1, <1>7, <2>3, NodeParts
    <3>2. PICK a, b : a = At(k, q).left /\ b = At(k, q).right
      OBVIOUS
    <3>3. a \in Nat /\ b \in Nat /\ a # o /\ b # o
      BY <1>1, <1>7, <3>1, <3>2 DEF NodeHas, NoNode
    <3>4. u[a] = v[a] /\ u[b] = v[b]
      BY <1>3, <3>3
    <3>5. QED
      BY <2>1, <2>3, <3>2, <3>4 DEF Says
  <2>4. QED
    BY <2>2, <2>3
<1>8. Tells(k, u)
  BY <1>6, <1>7 DEF Tells
<1>9. Tells(k, T(k))
  BY <1>1, TextTells
<1>10. \A q \in Nat : At(k, q) # NoRope => T(k)[q] = u[q]
  BY <1>1, <1>8, <1>9, TellsOnce
<1>11. \A q \in Nat : T(k)[q] = TextOf(k, q)
  BY DEF T
<1>12. QED
  BY <1>3, <1>10, <1>11

(* The new buffer, before anything is copied to it. *)
Begun(m, n, y, g, o, r) ==
  /\ Filling(n, y, g, T(n), o, 0) /\ Child(n, o, r, 0) /\ Grown(m, n) /\ At(m, o) = NoRope
  /\ \A q \in Nat : q # o => At(n, q) = At(m, q)

(* The new buffer, before anything is copied to it. *)
LEMMA ReadyToFill ==
  ASSUME NEW m, NEW x, NEW h, NEW t, NEW o, NEW n, NEW r, NEW g, NEW v,
         Fine(m, x, h), t \in Seq(Char), r \in Nat,
         At(m, r) # NoRope, Len(t) = At(m, r).weight, v = pic_str_value(m, t), o = v.rope, n = v.mem,
         g = [h EXCEPT ![o] = 0]
  PROVE  Begun(m, n, Inc(x, o), g, o, r)
<1>1. PICK c : c = Leaf(o, 0, Len(t), Nil, t)
  OBVIOUS
<1>2. o \in Nat /\ At(m, o) = NoRope /\ Set(m, n, o, c) /\ Grown(m, n) /\ Fine(n, Inc(x, o), g)
  BY <1>1, Value
<1>3. m \in Memory /\ x \in Counts /\ h \in Counts
  BY DEF Fine
<1>4. At(n, o) = c /\ \A q \in Nat : q # o => At(n, q) = At(m, q)
  BY <1>2 DEF Set
<1>5. c # NoRope /\ c.owner = Nil /\ c.left = Nil /\ c.right = Nil /\ c.own = t
  <2>1. Len(t) \in Nat /\ Nil \in Pointer
    BY LenProperties DEF Pointer
  <2>2. QED
    BY <1>1, <1>2, <2>1, LeafIn
<1>6. Own(At(n, o))
  BY <1>4, <1>5 DEF Own
<1>7. Unused(m, o)
  BY <1>2, Free
<1>8. o # Nil
  BY <1>2, NilAssumption
<1>9. NoNode(n, o)
  BY <1>4, <1>5, <1>7, <1>8 DEF NoNode, Unused
<1>10. \A q \in Nat : At(n, q).owner # o
  BY <1>4, <1>5, <1>7, <1>8 DEF Unused
<1>11. Tells(n, T(n))
  BY <1>2, TextTells
<1>12. Inc(x, o)[o] >= 1
  BY <1>2, <1>3, IncIn
<1>13. Filling(n, Inc(x, o), g, T(n), o, 0)
  BY <1>2, <1>6, <1>9, <1>10, <1>11, <1>12 DEF Filling, Tells
<1>14. r # o /\ At(n, r) = At(m, r)
  BY <1>2, <1>4
<1>15. Child(n, o, r, 0)
  <2>1. At(m, r) \in Ropes
    BY <1>3, AtIn
  <2>2. Len(t) \in Nat
    BY LenProperties
  <2>3. 0 + At(n, r).weight <= Len(At(n, o).own)
    BY <1>4, <1>5, <1>14, <2>2
  <2>4. QED
    BY <1>14, <2>3 DEF Child, HasRoom
<1>16. QED
  BY <1>2, <1>4, <1>13, <1>15 DEF Begun

(* pic_str of a rope that has no buffer of its own. *)
LEMMA FlattenStep ==
  ASSUME NEW s \in Live, IInv, pic_str(s), ~HasBuffer(mem, rope[s])
  PROVE  IInv' /\ SameText(mem, mem')
<1>1. /\ Assigned(rope) /\ flat \subseteq Nat /\ OK(mem, Exts(rope, flat)) /\ Owns(mem, flat)
  BY DEF IInv
<1>2. PICK r, x, w : r = rope[s] /\ x = Exts(rope, flat) /\ w = mem[rope[s]].weight
  OBVIOUS
<1>3. r \in Nat /\ At(mem, r) # NoRope /\ At(mem, r).weight = w /\ w \in Nat
  BY <1>2, RopeOf
<1>4. PICK t : t = [k \in 1 .. w |-> CHOOSE c \in Char : TRUE]
  OBVIOUS
<1>5. t \in Seq(Char) /\ Len(t) = w
  <2>1. (CHOOSE c \in Char : TRUE) \in Char
    BY TextsAssumption
  <2>2. t \in [1 .. w -> Char]
    BY <1>4, <2>1
  <2>3. QED
    BY <1>3, <2>2
<1>6. PICK z, o, n : z = pic_str_value(mem, t) /\ o = z.rope /\ n = z.mem
  OBVIOUS
<1>7. PICK k : k = flatten(n, r, o, 0)
  OBVIOUS
<1>8. Leaves(k, flat \cup {o}) /\ rope' = rope
  BY <1>2, <1>4, <1>6, <1>7 DEF pic_str
<1>9. PICK h : Fine(mem, x, h)
  BY <1>1, <1>2 DEF OK
<1>10. PICK g : g = [h EXCEPT ![o] = 0]
  OBVIOUS
<1>11. /\ Filling(n, Inc(x, o), g, T(n), o, 0) /\ Child(n, o, r, 0) /\ Grown(mem, n) /\ At(mem, o) = NoRope
       /\ \A q \in Nat : q # o => At(n, q) = At(mem, q)
  <2>1. Len(t) = At(mem, r).weight
    BY <1>3, <1>5
  <2>2. Begun(mem, n, Inc(x, o), g, o, r)
    BY <1>3, <1>5, <1>6, <1>9, <1>10, <2>1, ReadyToFill
  <2>3. QED
    BY <2>2 DEF Begun
<1>12. PICK y, v : y = Inc(x, o) /\ v = T(n)
  OBVIOUS
<1>13. PICK u : u = At(n, r).weight
  OBVIOUS
<1>14. Filled(n, k, y, g, v, o, r, 0, u)
  BY <1>7, <1>11, <1>12, <1>13, Flatten
<1>15. PICK e : e = 0 + u
  OBVIOUS
<1>16. Filling(k, y, g, v, o, e) /\ Stays(n, k)
  BY <1>14, <1>15 DEF Filled
<1>17. Fine(k, y, g) /\ o \in Nat /\ Own(At(k, o))
  BY <1>16 DEF Filling
<1>18. o \notin flat
  BY <1>1, <1>11 DEF Owns, Own
<1>19. y = Exts(rope, flat \cup {o})
  BY <1>1, <1>2, <1>12, <1>17, <1>18, ExtsMade
<1>20. PICK made : made = flat \cup {o}
  OBVIOUS
<1>21. made \subseteq Nat /\ Fine(k, Exts(rope, made), g) /\ Leaves(k, made)
  BY <1>1, <1>8, <1>17, <1>19, <1>20
<1>22. k \in Memory /\ OK(k, Exts(rope, made))
  BY <1>21 DEF Fine, OK
<1>23. \A p \in made : At(k, p) # NoRope
  <2>1. TAKE p \in made
  <2>2. p \in Nat /\ Exts(rope, made)[p] >= 1
    BY <1>1, <1>21, ExtsIn
  <2>3. QED
    BY <1>22, <2>2, OKUsed
<1>24. Owns(k, made)
  <2>1. SUFFICES ASSUME NEW p \in made, p # o PROVE Own(At(k, p))
    BY <1>17 DEF Owns
  <2>2. p \in flat /\ p \in Nat
    BY <1>1, <1>20, <2>1
  <2>3. Own(At(mem, p)) /\ At(n, p) = At(mem, p)
    BY <1>1, <1>11, <2>1, <2>2 DEF Owns
  <2>4. At(k, p) # NoRope
    BY <1>23
  <2>5. QED
    BY <1>16, <2>2, <2>3, <2>4 DEF Stays
<1>25. PICK lost, f : lost = LastOf(k, made) /\ f = Losing(k, lost)
  OBVIOUS
<1>26. mem' = f /\ flat' = made \ lost
  BY <1>21, <1>22, <1>23, <1>25, LeavesIs
<1>27. Fine(f, Exts(rope, made \ lost), g) /\ Lost(k, f) /\ Owns(f, made \ lost)
  BY <1>1, <1>21, <1>24, <1>25, LosingFine
<1>28. IInv'
  <2>1. Assigned(rope') /\ flat' \subseteq Nat
    BY <1>1, <1>8, <1>21, <1>26
  <2>2. OK(mem', Exts(rope', flat')) /\ Owns(mem', flat')
    BY <1>8, <1>26, <1>27 DEF OK
  <2>3. QED
    BY <2>1, <2>2 DEF IInv
<1>29. SameText(mem, f)
  <2>1. SUFFICES ASSUME NEW q \in Nat, At(mem, q) # NoRope, At(f, q) # NoRope PROVE TextOf(f, q) = TextOf(mem, q)
    BY DEF SameText
  <2>2. q # o /\ At(n, q) = At(mem, q)
    BY <1>11, <2>1
  <2>3. At(k, q) # NoRope
    BY <1>27, <2>1 DEF Lost
  <2>4. TextOf(k, q) = v[q]
    BY <1>16, <2>2, <2>3, FilledText
  <2>5. v[q] = TextOf(n, q)
    BY <1>12 DEF T
  <2>6. Kept(mem, n)
    BY <1>11, LostSelf, KeptIf
  <2>7. Fine(n, y, g)
    BY <1>11, <1>12 DEF Filling
  <2>8. TextOf(n, q) = TextOf(mem, q)
    BY <1>9, <2>1, <2>2, <2>6, <2>7, TextKept
  <2>9. Kept(k, f)
    BY <1>27, GrownSelf, KeptIf
  <2>10. TextOf(f, q) = TextOf(k, q)
    BY <1>17, <1>27, <2>1, <2>3, <2>9, TextKept
  <2>11. QED
    BY <2>4, <2>5, <2>8, <2>10
<1>30. QED
  BY <1>26, <1>28, <1>29

-----------------------------------------------------------------------------
(* The theorems. *)

(* At first there is nothing. *)
LEMMA Init_IInv == Init => IInv
<1> SUFFICES ASSUME Init PROVE IInv
  OBVIOUS
<1>1. mem = [r \in 1 .. Room |-> NoRope] /\ rope = [s \in Str |-> Nil] /\ flat = {}
  BY DEF Init
<1>2. Room \in Nat
  BY BoundAssumption
<1>3. mem \in Memory
  BY <1>1, <1>2, NoRopeIn DEF Memory
<1>4. Assigned(rope)
  <2>1. Nil \in Pointer
    BY DEF Pointer
  <2>2. Named(rope) = {}
    BY <1>1 DEF Named
  <2>3. QED
    BY <1>1, <2>1, <2>2, FS_EmptySet DEF Assigned
<1>5. PICK x, h : x = Exts(rope, flat) /\ h = [p \in Nat |-> 0]
  OBVIOUS
<1>6. x \in Counts /\ h \in Counts /\ \A p \in Nat : x[p] = Cardinality(StrsAt(rope, p)) + One(p \in flat)
  BY <1>4, <1>5, ExtsIn DEF Counts
<1>7. \A p : At(mem, p) = NoRope
  BY <1>1 DEF At
<1>8. \A p \in Nat : x[p] = 0
  <2>1. TAKE p \in Nat
  <2>2. StrsAt(rope, p) = {}
    BY <1>1, NilAssumption DEF StrsAt
  <2>3. Cardinality(StrsAt(rope, p)) = 0
    BY <2>2, FS_EmptySet
  <2>4. One(p \in flat) = 0
    BY <1>1 DEF One
  <2>5. QED
    BY <1>6, <2>3, <2>4
<1>9. \A p \in Nat : Inner(mem, p) = 0
  <2>1. TAKE p \in Nat
  <2>2. Owned(mem, p) = {} /\ OnLeft(mem, p) = {} /\ OnRight(mem, p) = {}
    BY <1>1, NilAssumption DEF Owned, OnLeft, OnRight, NoRope
  <2>3. Cardinality({}) = 0
    BY FS_EmptySet
  <2>4. QED
    BY <2>2, <2>3 DEF Inner
<1>10. Exact(mem, x)
  BY <1>7, <1>8, <1>9 DEF Exact, NoRope
<1>11. Sound(mem, h)
  BY <1>7 DEF Sound, Fits
<1>12. OK(mem, x)
  BY <1>3, <1>6, <1>10, <1>11 DEF OK, Fine
<1>13. QED
  BY <1>1, <1>4, <1>5, <1>12 DEF IInv, Owns

(* The operations, one by one. *)
LEMMA OperationKeeps ==
  ASSUME IInv, Operation
  PROVE  IInv' /\ Kept(mem, mem')
<1>1. CASE \E s \in Str, t \in Texts : Make(s, t)
  BY <1>1, MakeStep
<1>2. CASE \E s \in Str, a, b \in Live : pic_str_string_append(s, a, b)
  BY <1>2, AppendStep
<1>3. CASE \E s \in Str, a \in Live : \E p \in Ranges(a) : pic_str_string_copy(s, a, p[1], p[2])
  BY <1>3, CopyStep
<1>4. CASE \E s \in Live, c \in Char : \E k \in 0 .. mem[rope[s]].weight - 1 : pic_str_string_set(s, k, c)
  BY <1>4, SetStep
<1>5. CASE \E s \in Live, c \in Char : \E p \in Ranges(s) : pic_str_string_fill_ip(s, c, p[1], p[2])
  BY <1>5, FillStep
<1>6. CASE \E s, from \in Live : \E p \in Ranges(from) : \E at \in 0 .. mem[rope[s]].weight - 1 :
             /\ p[2] - p[1] <= mem[rope[s]].weight - at
             /\ pic_str_string_copy_ip(s, at, from, p[1], p[2])
  BY <1>6, CopyIpStep
<1>7. QED
  BY <1>1, <1>2, <1>3, <1>4, <1>5, <1>6 DEF Operation

(* The steps: the invariant stays, and what ropes in use say. *)
LEMMA NextKeeps ==
  ASSUME IInv, [Next]_vars
  PROVE  IInv' /\ SameText(mem, mem')
<1>1. ASSUME IInv' /\ Kept(mem, mem') PROVE IInv' /\ SameText(mem, mem')
  <2>1. OK(mem, Exts(rope, flat)) /\ OK(mem', Exts(rope', flat'))
    BY <1>1 DEF IInv
  <2>2. QED
    BY <1>1, <2>1, KeptText
<1>2. ASSUME mem' = mem, rope' = rope, flat' = flat PROVE IInv' /\ SameText(mem, mem')
  BY <1>2 DEF IInv, SameText
<1>3. CASE Operation
  BY <1>1, <1>3, OperationKeeps
<1>4. ASSUME NEW s \in Live, pic_str(s) PROVE IInv' /\ SameText(mem, mem')
  <2>1. CASE HasBuffer(mem, rope[s])
    BY <1>2, <1>4, <2>1 DEF pic_str
  <2>2. CASE ~HasBuffer(mem, rope[s])
    BY <1>4, <2>2, FlattenStep
  <2>3. QED
    BY <2>1, <2>2
<1>5. ASSUME NEW s \in Live, Drop(s) PROVE IInv' /\ SameText(mem, mem')
  <2>1. s \in Str
    BY DEF Live
  <2>2. QED
    BY <1>1, <1>5, <2>1, DropKeeps
<1>6. CASE UNCHANGED vars
  BY <1>2, <1>6 DEF vars
<1>7. QED
  BY <1>3, <1>4, <1>5, <1>6 DEF Next

(* The inductive invariant: there is a height for each rope, lower for      *)
(* those it leads to, and every count is the number of pointers from ropes, *)
(* strings and the buffers of pic_str (string.c:25-44).                     *)
THEOREM Invariant == Spec => []IInv
<1>1. Init => IInv
  BY Init_IInv
<1>2. IInv /\ [Next]_vars => IInv'
  BY NextKeeps
<1>3. QED
  BY <1>1, <1>2, PTL DEF Spec

(* Counts are exact. *)
LEMMA IInv_CountsExact == IInv => CountsExact
<1> SUFFICES ASSUME IInv, NEW r \in DOMAIN mem
             PROVE  mem[r].ref = Pointers(r) + (IF r \in flat THEN 1 ELSE 0)
  BY DEF CountsExact
<1>1. Assigned(rope) /\ OK(mem, Exts(rope, flat))
  BY DEF IInv
<1>2. PICK h : Fine(mem, Exts(rope, flat), h)
  BY <1>1 DEF OK
<1>3. mem \in Memory /\ Exact(mem, Exts(rope, flat))
  BY <1>2 DEF Fine
<1>4. r \in Nat /\ At(mem, r) = mem[r]
  BY <1>3, Dom DEF At
<1>5. mem[r].ref = Exts(rope, flat)[r] + Inner(mem, r)
  BY <1>3, <1>4 DEF Exact
<1>6. Exts(rope, flat)[r] = Cardinality(StrsAt(rope, r)) + One(r \in flat)
  BY <1>4 DEF Exts
<1>7. /\ Cardinality(StrsAt(rope, r)) \in Nat /\ Cardinality(Owned(mem, r)) \in Nat
      /\ Cardinality(OnLeft(mem, r)) \in Nat /\ Cardinality(OnRight(mem, r)) \in Nat
  BY <1>1, <1>3, <1>4, StrsFinite, InnerNat
<1>8. Pointers(r) = Cardinality(StrsAt(rope, r)) + Cardinality(Owned(mem, r)) + Cardinality(OnLeft(mem, r))
                      + Cardinality(OnRight(mem, r))
  BY DEF Pointers, StrsAt, Owned, OnLeft, OnRight
<1>9. One(r \in flat) = IF r \in flat THEN 1 ELSE 0
  BY DEF One
<1>10. QED
  BY <1>5, <1>6, <1>7, <1>8, <1>9 DEF Inner

(* Windows are in buffers. *)
LEMMA IInv_Windows == IInv => WindowsInBuffers
<1> SUFFICES ASSUME IInv, NEW r \in Used(mem), isleaf(mem, r)
             PROVE  /\ mem[r].buf = IF mem[r].owner = Nil THEN r ELSE mem[r].owner
                    /\ mem[r].buf \in Used(mem)
                    /\ mem[r].off + mem[r].weight <= Len(mem[mem[r].buf].own)
  BY DEF WindowsInBuffers
<1>1. PICK h : Fine(mem, Exts(rope, flat), h)
  BY DEF IInv, OK
<1>2. mem \in Memory
  BY <1>1 DEF Fine
<1>3. r \in Nat /\ At(mem, r) = mem[r] /\ At(mem, r) # NoRope /\ At(mem, r).left = Nil
  BY <1>2, UsedFinite, Dom DEF Used, At, isleaf
<1>4. LeafHas(mem, h, r, At(mem, r))
  BY <1>1, <1>3, LeafParts
<1>5. PICK b : b = mem[r].buf
  OBVIOUS
<1>6. /\ b \in Nat /\ At(mem, b) # NoRope /\ At(mem, b) = mem[b] /\ (mem[r].owner # Nil => b = mem[r].owner)
      /\ (mem[r].owner = Nil => b = r) /\ mem[r].off + mem[r].weight <= Len(mem[b].own)
  BY <1>3, <1>4, <1>5 DEF LeafHas
<1>7. b \in Used(mem)
  BY <1>2, <1>6, UsedFinite
<1>8. QED
  BY <1>5, <1>6, <1>7

(* The characters of a leaf. *)
LEMMA LeafText ==
  ASSUME NEW m, NEW r, m \in Memory, r \in DOMAIN m, isleaf(m, r)
  PROVE  TextOf(m, r) = Window(m, r)
<1>1. PICK f : /\ \A q : TextOf(m, q) = f[Len(m)][q]
               /\ \A d \in 0 .. Len(m) : f[d] = Texted(m, f[d - 1], d)
  BY TextIs
<1>2. Len(m) \in 0 .. Len(m)
  BY Dom
<1>3. f[Len(m)] = Texted(m, f[Len(m) - 1], Len(m))
  BY <1>1, <1>2
<1>4. TextOf(m, r) = Texted(m, f[Len(m) - 1], Len(m))[r]
  BY <1>1, <1>3
<1>5. QED
  BY <1>4 DEF Texted

(* What pic_str finds ends with the string. *)
LEMMA IInv_Ends == IInv => BufferEndsWithString
<1> SUFFICES ASSUME IInv, NEW s \in Live, HasBuffer(mem, rope[s])
             PROVE  Text(s) = SubSeq(mem[mem[rope[s]].buf].own, mem[rope[s]].off + 1, Len(mem[mem[rope[s]].buf].own))
  BY DEF BufferEndsWithString
<1>1. PICK h : Fine(mem, Exts(rope, flat), h)
  BY DEF IInv, OK
<1>2. mem \in Memory
  BY <1>1 DEF Fine
<1>3. PICK r : r = rope[s]
  OBVIOUS
<1>4. r \in Nat /\ At(mem, r) # NoRope
  BY <1>3, RopeOf
<1>5. r \in DOMAIN mem
  BY <1>4 DEF At
<1>6. isleaf(mem, r) /\ mem[r].off + mem[r].weight = Len(mem[mem[r].buf].own)
  BY <1>3 DEF HasBuffer, ZeroTerminated
<1>7. TextOf(mem, r) = Window(mem, r)
  BY <1>2, <1>5, <1>6, LeafText
<1>8. Window(mem, r) = SubSeq(mem[mem[r].buf].own, mem[r].off + 1, Len(mem[mem[r].buf].own))
  BY <1>6 DEF Window
<1>9. QED
  BY <1>3, <1>7, <1>8 DEF Text

(* No rope is freed while a string, a node or a leaf points to it, and none *)
(* that nothing points to stays (string.c:31-44).                           *)
THEOREM CountsAreExact == Spec => []CountsExact
  BY Invariant, IInv_CountsExact, PTL

(* What C reads through a leaf, and what pic_str returns without a copy, is *)
(* in a buffer that is kept and is the string's (string.c:16, 310).         *)
THEOREM WindowsAreSound == Spec => []WindowsSound
<1>1. IInv => WindowsSound
  BY IInv_Windows, IInv_Ends DEF WindowsSound
<1>2. QED
  BY <1>1, Invariant, PTL

(* The rope of a string is in use after a step too. *)
LEMMA UsedLater ==
  ASSUME IInv', NEW s \in Str, rope'[s] # Nil
  PROVE  rope'[s] \in Nat /\ At(mem', rope'[s]) # NoRope
<1>1. PICK r, x : r = rope'[s] /\ x = Exts(rope', flat')
  OBVIOUS
<1>2. Assigned(rope') /\ OK(mem', x)
  BY <1>1 DEF IInv
<1>3. r \in Nat /\ x[r] >= 1
  BY <1>1, <1>2, ExtsAt
<1>4. At(mem', r) # NoRope
  BY <1>2, <1>3, OKUsed
<1>5. QED
  BY <1>1, <1>3, <1>4

(* The characters of a string do not change with those of another that      *)
(* shares its ropes, nor when pic_str compresses paths (string.c:173-201).  *)
THEOREM SharingIsUnseen == Spec => SharingUnseen
<1>1. ASSUME IInv, [Next]_vars, NEW s \in Live, rope'[s] = rope[s]
      PROVE  Text(s)' = Text(s)
  <2>1. IInv' /\ SameText(mem, mem')
    BY <1>1, NextKeeps
  <2>2. PICK r : r = rope[s]
    OBVIOUS
  <2>3. s \in Str /\ rope[s] # Nil /\ r \in Nat /\ At(mem, r) # NoRope
    BY <1>1, <2>2, RopeOf
  <2>4. At(mem', r) # NoRope
    BY <1>1, <2>1, <2>2, <2>3, UsedLater
  <2>5. TextOf(mem', r) = TextOf(mem, r)
    BY <2>1, <2>3, <2>4 DEF SameText
  <2>6. QED
    BY <1>1, <2>2, <2>5 DEF Text
<1>2. IInv /\ [Next]_vars => [\A s \in Live : rope'[s] = rope[s] => Text(s)' = Text(s)]_vars
  BY <1>1
<1>3. QED
  BY <1>2, Invariant, PTL DEF Spec, SharingUnseen
=============================================================================
