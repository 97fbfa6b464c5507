--------------------------------- MODULE Rope ---------------------------------
(***************************************************************************)
(* Strings (string.c): ropes of shared leaves and nodes, with reference    *)
(* counts.  A leaf is a window on the characters of a buffer, its own or   *)
(* that of its owner.  pic_str turns a rope into one buffer and makes      *)
(* every node of it a window on that.                                      *)
(*                                                                         *)
(* mem is the memory of ropes; each operation is a function on it, since   *)
(* nothing but the finalizer of strings (Drop) runs in between.  String    *)
(* objects made on the way to a result are collected when it is there.     *)
(***************************************************************************)
EXTENDS Integers, Sequences, FiniteSets

CONSTANTS
  Str,        \* string objects
  Char,       \* characters, NUL not among them
  Nil,        \* NULL
  Texts,      \* contents of the strings made from C buffers and literals
  Room,       \* ropes malloc has room for at first: how many does not matter
  MaxOps,     \* bound: operations since there were no strings
  MaxLen      \* bound: characters of a string

ASSUME TextsAssumption == Char # {} /\ Texts \subseteq Seq(Char)
ASSUME NilAssumption == Nil \notin Nat
ASSUME BoundAssumption == Room \in Nat /\ MaxOps \in Nat /\ MaxLen \in Nat

VARIABLES
  mem,     \* the struct rope at each address
  rope,    \* the rope of each string, or Nil
  flat,    \* ropes that pic_str has made
  ops      \* operations since there were no strings

vars == << mem, rope, flat, ops >>

(* An address is a number from 1 on.  A leaf has a window, of weight       *)
(* characters from off on, on the characters own of the rope at buf.       *)
Pointer == Nat \cup {Nil}
Ropes == [ref: Nat, weight: Nat, owner: Pointer, buf: Pointer, off: Nat, own: Seq(Char),
          left: Pointer, right: Pointer]
Memory == Seq(Ropes)

Leaf(buf, off, len, owner, own) ==
  [ref |-> 1, weight |-> len, owner |-> owner, buf |-> buf, off |-> off, own |-> own,
   left |-> Nil, right |-> Nil]
Node(weight, left, right) ==
  [ref |-> 1, weight |-> weight, owner |-> Nil, buf |-> Nil, off |-> 0, own |-> << >>,
   left |-> left, right |-> right]
NoRope ==
  [ref |-> 0, weight |-> 0, owner |-> Nil, buf |-> Nil, off |-> 0, own |-> << >>,
   left |-> Nil, right |-> Nil]

isleaf(m, r) == m[r].left = Nil
Used(m) == {r \in DOMAIN m : m[r] # NoRope}
Live == {s \in Str : rope[s] # Nil}

(* What malloc gives: an address not in use.                               *)
New(m) == CHOOSE r \in 1 .. Len(m) + 1 : r \notin Used(m)

(* The characters a leaf stands for.                                       *)
Window(m, r) == SubSeq(m[m[r].buf].own, m[r].off + 1, m[r].off + m[r].weight)

-----------------------------------------------------------------------------
(* Reference counts.  A function that calls itself is a function of d, the *)
(* calls it may still make one inside the other: there are no more than    *)
(* there are ropes, since no rope is part of itself.                       *)

pic_rope_incref(m, r) == [m EXCEPT ![r].ref = @ + 1]

(* Mutant: the owner of a leaf is forgotten.                               *)
pic_rope_decref_NoOwner(m, r) ==
  LET decref[d \in 0 .. Len(m)] ==
        [c \in Memory \X Nat |->
           LET free == [c[1] EXCEPT ![c[2]] = NoRope]
               rest == decref[d - 1]
           IN IF c[1][c[2]].ref > 1 THEN [c[1] EXCEPT ![c[2]].ref = @ - 1]
              ELSE IF d = 0 \/ isleaf(c[1], c[2]) THEN free
              ELSE rest[<< rest[<< free, c[1][c[2]].left >>], c[1][c[2]].right >>]]
  IN  decref[Len(m)][<< m, r >>]

(* A rope whose count is 0 is out of use before those it points to lose    *)
(* this pointer; its own memory is given back last, which none of them     *)
(* can tell.                                                               *)
pic_rope_decref(m, r) ==
  LET decref[d \in 0 .. Len(m)] ==
        [c \in Memory \X Nat |->
           LET n == c[1]  q == c[2]
               free == [n EXCEPT ![q] = NoRope]
               rest == decref[d - 1]
           IN IF n[q].ref > 1 THEN [n EXCEPT ![q].ref = @ - 1]
              ELSE IF d = 0 THEN n
              ELSE CASE ~isleaf(n, q) -> rest[<< rest[<< free, n[q].left >>], n[q].right >>]
                     [] isleaf(n, q) /\ n[q].owner # Nil -> rest[<< free, n[q].owner >>]
                     [] OTHER -> free]
  IN  decref[Len(m)][<< m, r >>]

-----------------------------------------------------------------------------
(* Constructors: the new rope, and the memory with it. *)

Made(m, r, value) ==
  [rope |-> r, mem |-> IF r \in DOMAIN m THEN [m EXCEPT ![r] = value] ELSE Append(m, value)]

(* make_rope_leaf and make_rope_lit: characters copied, or a C literal.    *)
pic_str_value(m, t) == LET r == New(m) IN Made(m, r, Leaf(r, 0, Len(t), Nil, t))

(* A window on the owner's characters, counted from the owner's first.     *)
make_rope_slice(m, r, i, j) ==
  LET owner == IF m[r].owner # Nil THEN m[r].owner ELSE r
      n == pic_rope_incref(m, owner)
  IN Made(n, New(n), Leaf(m[owner].buf, m[owner].off + i, j - i, owner, << >>))

make_rope_node(m, left, right) ==
  LET n == pic_rope_incref(pic_rope_incref(m, left), right)
  IN Made(n, New(n), Node(m[left].weight + m[right].weight, left, right))

(* Of two slices only their node keeps a pointer.                          *)
Joined(m, left, right) ==
  LET both == make_rope_node(m, left, right)
  IN [both EXCEPT !.mem = pic_rope_decref(pic_rope_decref(@, left), right)]

slice(m, r, i, j) ==
  LET sliced[d \in 0 .. Len(m)] ==
        [c \in Memory \X Nat \X Nat \X Nat |->
           LET n == c[1]  q == c[2]  from == c[3]  to == c[4]
               lweight == n[n[q].left].weight
               rest == sliced[d - 1]
               left == rest[<< n, n[q].left, from, lweight >>]
               right == rest[<< left.mem, n[q].right, 0, to - lweight >>]
           IN IF d = 0 \/ (from = 0 /\ n[q].weight = to)
                THEN [rope |-> q, mem |-> pic_rope_incref(n, q)]
              ELSE IF isleaf(n, q) THEN make_rope_slice(n, q, from, to)
              ELSE IF to <= lweight THEN rest[<< n, n[q].left, from, to >>]
              ELSE IF lweight <= from THEN rest[<< n, n[q].right, from - lweight, to - lweight >>]
              ELSE Joined(right.mem, left.rope, right.rope)]
  IN  sliced[Len(m)][<< m, r, i, j >>]

-----------------------------------------------------------------------------
(* pic_str: all characters of a rope in one buffer. *)

(* memcpy of a leaf's characters to owner's buffer, from off on.           *)
Copied(m, r, owner, off) ==
  [m EXCEPT ![owner].own =
     [k \in DOMAIN @ |->
        IF k \in off + 1 .. off + m[r].weight THEN Window(m, r)[k - off] ELSE @[k]]]

(* A node becomes a window on owner's buffer, from off on, and lets its    *)
(* children go, which do not lead back to it.                              *)
Compress(m, r, owner, off) ==
  LET leaf == [Leaf(owner, off, m[r].weight, owner, << >>) EXCEPT !.ref = m[r].ref]
      n == [pic_rope_incref(m, owner) EXCEPT ![r] = leaf]
  IN pic_rope_decref(pic_rope_decref(n, m[r].left), m[r].right)

(* Mutant: every node gets the start of the buffer.                        *)
flatten_NoOffset(m, r, owner, off) ==
  LET flattened[d \in 0 .. Len(m)] ==
        [c \in Memory \X Nat |->
           IF d = 0 \/ isleaf(c[1], c[2]) THEN Copied(c[1], c[2], owner, off)
           ELSE Compress(flattened[d - 1][
                           << flattened[d - 1][<< c[1], c[1][c[2]].left >>], c[1][c[2]].right >>],
                         c[2], owner, off)]
  IN  flattened[Len(m)][<< m, r >>]

flatten(m, r, owner, off) ==
  LET flattened[d \in 0 .. Len(m)] ==
        [c \in Memory \X Nat \X Nat |->
           LET n == c[1]  q == c[2]  at == c[3]
               rest == flattened[d - 1]
               left == rest[<< n, n[q].left, at >>]
               both == rest[<< left, left[q].right, at + left[left[q].left].weight >>]
           IN IF isleaf(n, q) THEN Copied(n, q, owner, at)
              ELSE IF d = 0 THEN n
              ELSE Compress(both, q, owner, at)]
  IN  flattened[Len(m)][<< m, r, off >>]

(* The characters a rope stands for.                                       *)
TextOf(m, r) ==
  LET text[d \in 0 .. Len(m)] ==
        [q \in DOMAIN m |->
           IF d = 0 \/ isleaf(m, q) THEN Window(m, q)
           ELSE text[d - 1][m[q].left] \o text[d - 1][m[q].right]]
  IN  text[Len(m)][r]

Text(s) == TextOf(mem, rope[s])

-----------------------------------------------------------------------------
(* The operations. *)

(* The memory after an operation, and the buffers of pic_str in it.  One   *)
(* that no rope points to any more is lost for good, and left out.         *)
Leaves(m, made) ==
  \E n \in {m} : \E lost \in {{r \in made : n[r].ref = 1}} :
    /\ mem' = [r \in DOMAIN n |-> IF r \in lost THEN NoRope ELSE n[r]]
    /\ flat' = (made \cap Used(n)) \ lost

(* s becomes a new string object with the rope of made. *)
make_str(s, result) ==
  /\ rope[s] = Nil
  /\ \E made \in {result} :
       Leaves(made.mem, flat) /\ rope' = [rope EXCEPT ![s] = made.rope]

Make(s, t) == make_str(s, pic_str_value(mem, t))

(* pic_str_cat of the empty literal, a and b. *)
pic_str_string_append(s, a, b) ==
  /\ a \in Live /\ b \in Live
  /\ mem[rope[a]].weight + mem[rope[b]].weight <= MaxLen
  /\ LET empty == pic_str_value(mem, << >>)
         first == make_rope_node(empty.mem, empty.rope, rope[a])
         both == make_rope_node(first.mem, first.rope, rope[b])
     IN make_str(s, [both EXCEPT !.mem =
                       pic_rope_decref(pic_rope_decref(@, first.rope), empty.rope)])

pic_str_string_copy(s, a, i, j) ==
  /\ a \in Live
  /\ make_str(s, slice(mem, rope[a], i, j))

(* str_update: s gets another rope. *)
str_update(s, m, r) ==
  /\ Leaves(pic_rope_decref(m, rope[s]), flat)
  /\ rope' = [rope EXCEPT ![s] = r]

(* The characters of s from i to j are those of middle now: the parts      *)
(* before and after are slices.                                            *)
Replace(s, i, j, middle) ==
  LET before == slice(middle.mem, rope[s], 0, i)
      after == slice(before.mem, rope[s], j, mem[rope[s]].weight)
      tail == make_rope_node(after.mem, middle.rope, after.rope)
      all == make_rope_node(tail.mem, before.rope, tail.rope)
      given == pic_rope_decref(pic_rope_decref(all.mem, before.rope), middle.rope)
  IN str_update(s, pic_rope_decref(pic_rope_decref(given, after.rope), tail.rope), all.rope)

pic_str_string_set(s, k, c) ==
  /\ s \in Live
  /\ Replace(s, k, k + 1, pic_str_value(mem, << c >>))

pic_str_string_fill_ip(s, c, i, j) ==
  /\ s \in Live
  /\ Replace(s, i, j, pic_str_value(mem, [k \in 1 .. j - i |-> c]))

pic_str_string_copy_ip(s, at, from, i, j) ==
  /\ s \in Live /\ from \in Live
  /\ Replace(s, at, at + j - i, slice(mem, rope[from], i, j))

(* Is the character after the rope's last the NUL of its buffer?           *)
ZeroTerminated(m, r) == m[r].off + m[r].weight = Len(m[m[r].buf].own)

(* Mutant: any leaf will do.                                               *)
HasBuffer_AnyLeaf(m, r) == isleaf(m, r)

HasBuffer(m, r) == isleaf(m, r) /\ ZeroTerminated(m, r)

(* The buffer made for a rope that has none keeps the count it began with. *)
pic_str(s) ==
  /\ s \in Live
  /\ IF HasBuffer(mem, rope[s])
       THEN UNCHANGED << mem, flat >>
       ELSE LET bytes == [k \in 1 .. mem[rope[s]].weight |-> CHOOSE c \in Char : TRUE]
                made == pic_str_value(mem, bytes)
            IN Leaves(flatten(made.mem, rope[s], made.rope, 0), flat \cup {made.rope})
  /\ UNCHANGED rope

(* The finalizer of a string object. *)
Drop(s) ==
  /\ s \in Live
  /\ Leaves(pic_rope_decref(mem, rope[s]), flat)
  /\ rope' = [rope EXCEPT ![s] = Nil]

Init ==
  /\ mem = [r \in 1 .. Room |-> NoRope]
  /\ rope = [s \in Str |-> Nil]
  /\ flat = {}
  /\ ops = 0

(* VALID_RANGE and VALID_ATRANGE. *)
Ranges(s) == {p \in (0 .. MaxLen) \X (0 .. MaxLen) :
                p[1] <= p[2] /\ p[2] <= mem[rope[s]].weight}

Operation ==
  \/ \E s \in Str, t \in Texts : Make(s, t)
  \/ \E s \in Str, a, b \in Live : pic_str_string_append(s, a, b)
  \/ \E s \in Str, a \in Live : \E p \in Ranges(a) :
       pic_str_string_copy(s, a, p[1], p[2])
  \/ \E s \in Live, c \in Char : \E k \in 0 .. mem[rope[s]].weight - 1 :
       pic_str_string_set(s, k, c)
  \/ \E s \in Live, c \in Char : \E p \in Ranges(s) :
       pic_str_string_fill_ip(s, c, p[1], p[2])
  \/ \E s, from \in Live : \E p \in Ranges(from) :
       \E at \in 0 .. mem[rope[s]].weight - 1 :
         /\ p[2] - p[1] <= mem[rope[s]].weight - at
         /\ pic_str_string_copy_ip(s, at, from, p[1], p[2])

Next ==
  \/ ops < MaxOps /\ Operation /\ ops' = ops + 1
  \/ \E s \in Live : pic_str(s) /\ UNCHANGED ops
  \/ \E s \in Live : Drop(s) /\ ops' = IF Live = {s} THEN 0 ELSE ops

Spec == Init /\ [][Next]_vars

-----------------------------------------------------------------------------
(* The count of a rope is the number of pointers to it: from strings, from *)
(* nodes, from leaves to their owner; and one that is never given back for *)
(* a buffer pic_str made.  So no rope is freed while it is used, and all   *)
(* others are freed (26-44).                                               *)
Pointers(r) ==
  Cardinality({s \in Str : rope[s] = r})
    + Cardinality({q \in DOMAIN mem : mem[q].owner = r})
    + Cardinality({q \in DOMAIN mem : mem[q].left = r})
    + Cardinality({q \in DOMAIN mem : mem[q].right = r})

CountsExact ==
  \A r \in DOMAIN mem : mem[r].ref = Pointers(r) + (IF r \in flat THEN 1 ELSE 0)

(* A leaf "always points to zero-term'd buf" (16): its window lies in the  *)
(* characters of a buffer that it keeps alive.                             *)
WindowsInBuffers ==
  \A r \in Used(mem) : isleaf(mem, r) =>
    /\ mem[r].buf = IF mem[r].owner = Nil THEN r ELSE mem[r].owner
    /\ mem[r].buf \in Used(mem)
    /\ mem[r].off + mem[r].weight <= Len(mem[mem[r].buf].own)

(* Sharing cannot be seen: the characters of a string stay what they are   *)
(* until it is given another rope, whatever becomes of the strings it      *)
(* shares ropes with, and however pic_str compresses paths (173-201).      *)
SharingUnseen ==
  [][ \A s \in Live : rope'[s] = rope[s] => Text(s)' = Text(s) ]_vars

(* Where pic_str returns the buffer that is there, C reads from it the     *)
(* characters of the string and then the NUL (310-312).                    *)
BufferEndsWithString ==
  \A s \in Live : HasBuffer(mem, rope[s]) =>
    LET r == mem[rope[s]] own == mem[r.buf].own IN
    Text(s) = SubSeq(own, r.off + 1, Len(own))

(* Both: whatever C reads through a window is in a buffer that is kept and *)
(* is the string's (string.c:16, 310).                                     *)
WindowsSound == WindowsInBuffers /\ BufferEndsWithString

(* README.md:3: benz provides a subset of R7RS, where string-copy gives    *)
(* the characters from start to end and string-set! changes one: the       *)
(* strings are those of Strings.                                           *)
Abstract == INSTANCE Strings WITH
  None <- Nil, text <- [s \in Str |-> IF rope[s] = Nil THEN Nil ELSE Text(s)]

ImplementsStrings == Abstract!Spec
=============================================================================
