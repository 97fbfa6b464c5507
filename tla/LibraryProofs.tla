----------------------------- MODULE LibraryProofs -----------------------------
(***************************************************************************)
(* What holds of the libraries of any program, however many it makes and   *)
(* however deep its calls of pic_eval are: which library is current, whose *)
(* variable a name is, and that imports bring in what is defined.          *)
(***************************************************************************)
EXTENDS Library, Induction, SequenceTheorems, FiniteSetTheorems

NoSlash(l) == l \in Name /\ ~Contains(l, "/")

Calls == [lib: Name, prev: Name, phase: {"run", "expand"}, defs: SUBSET Name, moved: BOOLEAN]

(* A table of libraries: names without a slash, and maps of names.         *)
LibsOK(ls) ==
  /\ ls = [l \in DOMAIN ls |-> ls[l]]
  /\ \A l \in DOMAIN ls :
       /\ NoSlash(l)
       /\ ls[l] = [env |-> ls[l].env, exports |-> ls[l].exports]
       /\ ls[l].env = [id \in DOMAIN ls[l].env |-> ls[l].env[id]] /\ DOMAIN ls[l].env \subseteq Name
       /\ \A id \in DOMAIN ls[l].env : ls[l].env[id] \in Name
       /\ \A a \in DOMAIN ls[l].exports : ls[l].exports[a] \in Name
       /\ IsFiniteSet(DOMAIN ls[l].exports) /\ DOMAIN ls[l].exports \subseteq Name

(* The names of other libraries' variables stand for variables in uids.    *)
Defined(ls, uids) ==
  \A l \in DOMAIN ls : \A id \in DOMAIN ls[l].env :
    ls[l].env[id] # Uid(l, id) => ls[l].env[id] \in uids

(* The variable of that name was made for a name in one of the libraries.  *)
Made(ls, uid) == \E l \in DOMAIN ls : \E id \in DOMAIN ls[l].env : uid = Uid(l, id)
MadeOK(ls) == \A l \in DOMAIN ls : \A id \in DOMAIN ls[l].env : Made(ls, ls[l].env[id])

More(ls, new) ==
  /\ MadeOK(ls) => MadeOK(new)
  /\ \A uid : Made(ls, uid) => Made(new, uid)

Kept(ls, new) ==
  /\ LibsOK(new) /\ DOMAIN ls \subseteq DOMAIN new /\ More(ls, new)
  /\ \A uids : globals \union macros \subseteq uids /\ Defined(ls, uids) => Defined(new, uids)

-----------------------------------------------------------------------------
(* Names. *)

LEMMA OneChar ==
  ASSUME NEW S, NEW c \in S
  PROVE  << c >> \in Seq(S) /\ Len(<< c >>) = 1
OBVIOUS

LEMMA UidIs ==
  ASSUME NEW l \in Name, NEW i \in Name
  PROVE  /\ Uid(l, i) \in Name
         /\ Len(l) \in Nat
         /\ \A k \in 1 .. Len(l) : Uid(l, i)[k] = l[k]
         /\ Uid(l, i)[Len(l) + 1] = "/"
<1>1. l \in Seq(Char) /\ i \in Seq(Char) /\ << "/" >> \in Seq(Char) /\ Len(<< "/" >>) = 1
  <2>1. "/" \in Char
    BY NamesAssumption
  <2>2. QED
    BY <2>1, OneChar DEF Name
<1>2. Len(l) \in Nat /\ Len(i) \in Nat
  BY <1>1, LenProperties
<1>3. PICK s : s = l \o << "/" >>
  OBVIOUS
<1>4. /\ s \in Seq(Char) /\ Len(s) = Len(l) + 1
      /\ \A k \in 1 .. Len(l) + 1 : s[k] = IF k <= Len(l) THEN l[k] ELSE << "/" >>[k - Len(l)]
  BY <1>1, <1>3, ConcatProperties
<1>5. s[Len(l) + 1] = "/" /\ \A k \in 1 .. Len(l) : s[k] = l[k]
  BY <1>2, <1>4
<1>6. PICK t : t = s \o i
  OBVIOUS
<1>7. /\ t \in Seq(Char)
      /\ \A k \in 1 .. Len(s) + Len(i) : t[k] = IF k <= Len(s) THEN s[k] ELSE i[k - Len(s)]
  BY <1>1, <1>4, <1>6, ConcatProperties
<1>8. t[Len(l) + 1] = "/" /\ \A k \in 1 .. Len(l) : t[k] = l[k]
  BY <1>2, <1>4, <1>5, <1>7
<1>9. Uid(l, i) = t
  BY <1>3, <1>6 DEF Uid
<1>10. QED
  BY <1>2, <1>7, <1>8, <1>9 DEF Name

(* The uid can be taken apart again: no library has a slash in its name.   *)
LEMMA UidApart ==
  ASSUME NEW l, NEW m, NoSlash(l), NoSlash(m), NEW i \in Name, NEW j \in Name,
         Uid(l, i) = Uid(m, j)
  PROVE  l = m
<1>1. l \in Name /\ m \in Name /\ ~Contains(l, "/") /\ ~Contains(m, "/")
  BY DEF NoSlash
<1>2. PICK u : u = Uid(l, i)
  OBVIOUS
<1>3. Len(l) \in Nat /\ u[Len(l) + 1] = "/" /\ \A k \in 1 .. Len(l) : u[k] = l[k]
  BY <1>1, <1>2, UidIs
<1>4. Len(m) \in Nat /\ u[Len(m) + 1] = "/" /\ \A k \in 1 .. Len(m) : u[k] = m[k]
  BY <1>1, <1>2, UidIs
<1>5. ~ (Len(l) < Len(m))
  <2>1. SUFFICES ASSUME Len(l) < Len(m) PROVE FALSE
    OBVIOUS
  <2>2. Len(l) + 1 \in 1 .. Len(m)
    BY <1>3, <1>4, <2>1
  <2>3. QED
    BY <1>1, <1>3, <1>4, <2>2 DEF Contains
<1>6. ~ (Len(m) < Len(l))
  <2>1. SUFFICES ASSUME Len(m) < Len(l) PROVE FALSE
    OBVIOUS
  <2>2. Len(m) + 1 \in 1 .. Len(l)
    BY <1>3, <1>4, <2>1
  <2>3. QED
    BY <1>1, <1>3, <1>4, <2>2 DEF Contains
<1>7. Len(l) = Len(m)
  BY <1>3, <1>4, <1>5, <1>6
<1>8. \A k \in 1 .. Len(l) : l[k] = m[k]
  BY <1>3, <1>4, <1>7
<1>9. QED
  BY <1>1, <1>7, <1>8, SeqEqual DEF Name

LEMMA SlashJoin ==
  ASSUME NEW s, NEW t, NoSlash(s), NoSlash(t)
  PROVE  NoSlash(s \o << "." >> \o t)
<1>1. s \in Seq(Char) /\ t \in Seq(Char) /\ << "." >> \in Seq(Char) /\ Len(<< "." >>) = 1
  <2>1. "." \in Char
    BY NamesAssumption
  <2>2. QED
    BY <2>1, OneChar DEF NoSlash, Name
<1>2. /\ Len(s) \in Nat /\ Len(t) \in Nat
      /\ \A k \in 1 .. Len(s) : s[k] # "/"
      /\ \A k \in 1 .. Len(t) : t[k] # "/"
  BY <1>1, LenProperties DEF NoSlash, Contains
<1>3. PICK v : v = s \o << "." >>
  OBVIOUS
<1>4. /\ v \in Seq(Char) /\ Len(v) = Len(s) + 1
      /\ \A k \in 1 .. Len(s) + 1 : v[k] = IF k <= Len(s) THEN s[k] ELSE << "." >>[k - Len(s)]
  BY <1>1, <1>3, ConcatProperties
<1>5. \A k \in 1 .. Len(v) : v[k] # "/"
  <2>1. TAKE k \in 1 .. Len(v)
  <2>2. CASE k <= Len(s)
    BY <1>2, <1>4, <2>2
  <2>3. CASE k = Len(s) + 1
    <3>1. k - Len(s) = 1 /\ ~ (k <= Len(s))
      BY <1>2, <2>3
    <3>2. v[k] = << "." >>[1]
      BY <1>2, <1>4, <2>3, <3>1
    <3>3. QED
      BY <3>2
  <2>4. QED
    BY <1>2, <1>4, <2>2, <2>3
<1>6. PICK w : w = v \o t
  OBVIOUS
<1>7. /\ w \in Seq(Char) /\ Len(w) = Len(v) + Len(t)
      /\ \A k \in 1 .. Len(v) + Len(t) : w[k] = IF k <= Len(v) THEN v[k] ELSE t[k - Len(v)]
  BY <1>1, <1>4, <1>6, ConcatProperties
<1>8. \A k \in 1 .. Len(w) : w[k] # "/"
  <2>1. TAKE k \in 1 .. Len(w)
  <2>2. CASE k <= Len(v)
    BY <1>2, <1>4, <1>5, <1>7, <2>2
  <2>3. CASE ~ (k <= Len(v))
    <3>1. k - Len(v) \in 1 .. Len(t)
      BY <1>2, <1>4, <1>7, <2>3
    <3>2. w[k] = t[k - Len(v)]
      BY <1>7, <2>3
    <3>3. QED
      BY <1>2, <3>1, <3>2
  <2>4. QED
    BY <2>2, <2>3
<1>9. QED
  BY <1>3, <1>6, <1>7, <1>8 DEF NoSlash, Name, Contains

(* What mangle lets through has no slash in it.                            *)
LEMMA MangleIs ==
  ASSUME NEW title \in Seq(Name), Mangles(title)
  PROVE  NoSlash(mangle(title))
<1> DEFINE n == Len(title)
           Ok(m, f) == /\ f = [k \in 1 .. m |-> f[k]]
                       /\ \A k \in 1 .. m :
                            f[k] = IF k = 1 THEN title[1] ELSE f[k - 1] \o << "." >> \o title[k]
<1>1. n \in Nat /\ n >= 1 /\ \A k \in 1 .. n : NoSlash(title[k])
  <2>1. title # << >> /\ \A i \in DOMAIN title : ~Contains(title[i], "/")
    BY DEF Mangles
  <2>2. QED
    BY <2>1 DEF NoSlash
<1> HIDE DEF n
<1>2. \E f : Ok(n, f)
  <2> DEFINE A == {m \in Nat : \E f : Ok(m + 1, f)}
  <2>1. 0 \in A
    <3>1. Ok(1, [k \in 1 .. 1 |-> title[1]])
      OBVIOUS
    <3>2. \E f : Ok(1, f)
      BY <3>1
    <3>3. 0 + 1 = 1 /\ 0 \in Nat
      OBVIOUS
    <3> HIDE DEF Ok
    <3>4. QED
      BY <3>2, <3>3
  <2>2. \A m \in A : m + 1 \in A
    <3>1. TAKE m \in A
    <3>2. PICK f : Ok(m + 1, f)
      OBVIOUS
    <3> DEFINE h == [k \in 1 .. (m + 1) + 1 |->
                       IF k = m + 2 THEN f[m + 1] \o << "." >> \o title[m + 2] ELSE f[k]]
    <3>3. \A k \in 1 .. m + 1 : h[k] = f[k]
      OBVIOUS
    <3>4. h[m + 2] = f[m + 1] \o << "." >> \o title[m + 2]
      <4>1. m + 2 \in 1 .. (m + 1) + 1
        OBVIOUS
      <4>2. QED
        BY <4>1
    <3>5. h = [k \in 1 .. (m + 1) + 1 |-> h[k]]
      OBVIOUS
    <3> HIDE DEF h
    <3>6. ASSUME NEW k \in 1 .. (m + 1) + 1
          PROVE  h[k] = IF k = 1 THEN title[1] ELSE h[k - 1] \o << "." >> \o title[k]
      <4>1. CASE k = m + 2
        <5>1. k # 1 /\ k - 1 = m + 1 /\ m + 1 \in 1 .. m + 1
          BY <3>1, <4>1
        <5>2. h[k - 1] = f[m + 1]
          BY <3>3, <5>1
        <5>3. QED
          BY <3>4, <4>1, <5>1, <5>2
      <4>2. CASE k # m + 2
        <5>1. k \in 1 .. m + 1
          BY <3>1, <4>2
        <5>2. f[k] = IF k = 1 THEN title[1] ELSE f[k - 1] \o << "." >> \o title[k]
          BY <3>2, <5>1
        <5>3. k # 1 => k - 1 \in 1 .. m + 1
          BY <5>1
        <5>4. k # 1 => h[k - 1] = f[k - 1]
          BY <3>3, <5>3
        <5>5. h[k] = f[k]
          BY <3>3, <5>1
        <5>6. QED
          BY <5>2, <5>4, <5>5
      <4>3. QED
        BY <4>1, <4>2
    <3>7. Ok((m + 1) + 1, h)
      BY <3>5, <3>6
    <3> HIDE DEF Ok
    <3>8. m + 1 \in Nat /\ \E g : Ok((m + 1) + 1, g)
      BY <3>7
    <3>9. QED
      BY <3>8
  <2>3. A = Nat
    <3>1. A \in SUBSET Nat
      OBVIOUS
    <3> HIDE DEF A
    <3>2. QED
      BY <2>1, <2>2, <3>1, NatInd
  <2>4. n - 1 \in A /\ (n - 1) + 1 = n
    <3> HIDE DEF A
    <3>1. QED
      BY <1>1, <2>3
  <2>5. QED
    BY <2>4
<1> DEFINE joined[k \in 1 .. n] ==
             IF k = 1 THEN title[1] ELSE joined[k - 1] \o << "." >> \o title[k]
<1>3. joined = [k \in 1 .. n |-> IF k = 1 THEN title[1] ELSE joined[k - 1] \o << "." >> \o title[k]]
  <2>1. PICK f : Ok(n, f)
    BY <1>2
  <2>2. f = [k \in 1 .. n |-> IF k = 1 THEN title[1] ELSE f[k - 1] \o << "." >> \o title[k]]
    BY <2>1
  <2>3. QED
    BY <2>2
<1>4. mangle(title) = joined[n]
  BY DEF mangle, n
<1> HIDE DEF joined
<1>5. NoSlash(joined[n])
  <2> DEFINE B == {m \in Nat : m + 1 <= n => NoSlash(joined[m + 1])}
  <2>1. 0 \in B
    <3>1. 1 \in 1 .. n
      BY <1>1
    <3>2. joined[1] = title[1]
      BY <1>3, <3>1
    <3>3. QED
      BY <1>1, <3>1, <3>2
  <2>2. \A m \in B : m + 1 \in B
    <3>1. TAKE m \in B
    <3>2. SUFFICES ASSUME (m + 1) + 1 <= n PROVE NoSlash(joined[(m + 1) + 1])
      OBVIOUS
    <3>3. m + 1 \in 1 .. n /\ m + 2 \in 1 .. n /\ m + 2 # 1 /\ (m + 2) - 1 = m + 1 /\ m + 1 <= n /\ (m + 1) + 1 = m + 2
      BY <1>1, <3>1, <3>2
    <3>4. NoSlash(joined[m + 1]) /\ NoSlash(title[m + 2])
      BY <1>1, <3>1, <3>3
    <3>5. joined[m + 2] = joined[m + 1] \o << "." >> \o title[m + 2]
      BY <1>3, <3>3
    <3>6. QED
      BY <3>3, <3>4, <3>5, SlashJoin
  <2>3. B = Nat
    <3>1. B \in SUBSET Nat
      OBVIOUS
    <3> HIDE DEF B
    <3>2. QED
      BY <2>1, <2>2, <3>1, NatInd
  <2>4. n - 1 \in B /\ (n - 1) + 1 = n
    <3> HIDE DEF B
    <3>1. QED
      BY <1>1, <2>3
  <2>5. n <= n
    BY <1>1
  <2>6. QED
    BY <2>4, <2>5
<1>6. QED
  BY <1>4, <1>5

-----------------------------------------------------------------------------
(* What import gathers is a list. *)

SlotOrNot == (Name \X Name) \union {NoSlot, Fault}
Wellformed(mods) ==
  mods \in Seq(Mods) /\ \A i \in DOMAIN mods : mods[i].kind = "prefix" => mods[i].syms # << >>

LEMMA ListOf ==
  ASSUME NEW S, NEW n \in Nat, NEW f \in [1 .. n -> S]
  PROVE  f \in Seq(S)
BY SeqDef

LEMMA Listed ==
  ASSUME NEW S, NEW s \in Seq(S)
  PROVE  Len(s) \in Nat /\ DOMAIN s = 1 .. Len(s) /\ \A i \in 1 .. Len(s) : s[i] \in S
BY LenProperties, ElementOfSeq

(* assq finds the first that is missing or has that alias, if one is or has. *)
LEMMA AssqBy ==
  ASSUME NEW alist \in Seq(SlotOrNot), NEW s
  PROVE  \/ /\ Assq(alist, s) = NoSlot
            /\ \A j \in 1 .. Len(alist) : ~ (alist[j] = NoSlot \/ alist[j][1] = s)
         \/ \E j \in 1 .. Len(alist) :
              /\ alist[j] = NoSlot \/ alist[j][1] = s
              /\ Assq(alist, s) = IF alist[j] = NoSlot THEN Fault ELSE alist[j]
<1> DEFINE I == {i \in 1 .. Len(alist) : alist[i] = NoSlot \/ alist[i][1] = s}
           i == IF I # {} THEN Min(I) ELSE 0
<1>1. Assq(alist, s) = IF i = 0 THEN NoSlot ELSE IF alist[i] = NoSlot THEN Fault ELSE alist[i]
  BY DEF Assq, SelectInSeq
<1>2. I # {} => i \in I
  <2>1. SUFFICES ASSUME I # {} PROVE Min(I) \in I
    OBVIOUS
  <2>2. Len(alist) \in Nat /\ I \in SUBSET Nat
    BY Listed
  <2> HIDE DEF I
  <2>3. PICK x \in I : \A y \in I : x <= y
    BY <2>1, <2>2, NatMin
  <2>4. QED
    BY <2>3 DEF Min
<1>3. CASE I = {}
  <2>1. i = 0
    BY <1>3
  <2>2. QED
    BY <1>1, <1>3, <2>1
<1>4. CASE I # {}
  <2>1. i \in I /\ i \in 1 .. Len(alist) /\ i # 0
    <3>1. i \in I
      BY <1>2, <1>4
    <3>2. Len(alist) \in Nat
      BY Listed
    <3> HIDE DEF i
    <3>3. QED
      BY <3>1, <3>2
  <2>2. Assq(alist, s) = IF alist[i] = NoSlot THEN Fault ELSE alist[i]
    BY <1>1, <2>1
  <2> HIDE DEF i
  <2>3. QED
    BY <2>1, <2>2
<1>5. QED
  BY <1>3, <1>4

LEMMA AssqIs ==
  ASSUME NEW alist \in Seq(SlotOrNot), NEW s
  PROVE  Assq(alist, s) \in SlotOrNot
<1>1. \A j \in 1 .. Len(alist) : alist[j] \in SlotOrNot
  BY Listed
<1>2. NoSlot \in SlotOrNot /\ Fault \in SlotOrNot
  BY DEF SlotOrNot
<1>3. QED
  BY <1>1, <1>2, AssqBy

(* How far except has come after each slot.                                *)
LEMMA ExceptedBy ==
  ASSUME NEW alist \in Seq(SlotOrNot), NEW syms
  PROVE  \E kept :
           /\ Excepted(alist, syms) = kept[Len(alist)] /\ kept[0] = << >>
           /\ \A k \in 0 .. Len(alist) : kept[k] \in Seq(SlotOrNot)
           /\ \A k \in 1 .. Len(alist) :
                kept[k] = IF Contains(syms, alist[k][1]) THEN kept[k - 1] ELSE Append(kept[k - 1], alist[k])
<1> DEFINE n == Len(alist)
           U == Seq(SlotOrNot)
           g == [p \in (1 .. n) \X U |->
                   IF Contains(syms, alist[p[1]][1]) THEN p[2] ELSE Append(p[2], alist[p[1]])]
<1>1. n \in Nat /\ \A i \in 1 .. n : alist[i] \in SlotOrNot
  BY Listed
<1>2. << >> \in U
  BY EmptySeq
<1>3. g \in [(1 .. n) \X U -> U]
  <2>1. ASSUME NEW k \in 1 .. n, NEW x \in U PROVE Append(x, alist[k]) \in U
    BY <1>1, AppendProperties
  <2> HIDE DEF U, n
  <2>2. QED
    BY <2>1
<1>4. ASSUME NEW k \in 1 .. n, NEW x \in U
      PROVE  g[<< k, x >>] = IF Contains(syms, alist[k][1]) THEN x ELSE Append(x, alist[k])
  OBVIOUS
<1> HIDE DEF g, U, n
<1>5. PICK f : /\ f = [k \in 0 .. n |-> f[k]] /\ f[0] = << >>
               /\ \A k \in 1 .. n : f[k - 1] \in U /\ f[k] = g[<< k, f[k - 1] >>]
  <2>1. PICK a : a = << >>
    OBVIOUS
  <2>2. n \in Nat /\ a \in U
    BY <1>1, <1>2, <2>1
  <2>3. \E f : Trace(f, U, n, a, g)
    BY <1>3, <2>2, FoldExists
  <2>4. QED
    BY <2>1, <2>3 DEF Trace
<1>6. ASSUME NEW k \in 0 .. n
      PROVE  f[k] = IF k = 0 THEN << >>
                    ELSE IF Contains(syms, alist[k][1]) THEN f[k - 1] ELSE Append(f[k - 1], alist[k])
  <2>1. CASE k = 0
    BY <1>5, <2>1
  <2>2. CASE k # 0
    <3>1. k \in 1 .. n
      BY <1>1, <2>2
    <3>2. QED
      BY <1>4, <1>5, <2>2, <3>1
  <2>3. QED
    BY <2>1, <2>2
<1> DEFINE kept[k \in 0 .. n] ==
             IF k = 0 THEN << >>
             ELSE IF Contains(syms, alist[k][1]) THEN kept[k - 1] ELSE Append(kept[k - 1], alist[k])
<1>7. kept = [k \in 0 .. n |->
                IF k = 0 THEN << >>
                ELSE IF Contains(syms, alist[k][1]) THEN kept[k - 1] ELSE Append(kept[k - 1], alist[k])]
  <2>1. f = [k \in 0 .. n |->
                IF k = 0 THEN << >>
                ELSE IF Contains(syms, alist[k][1]) THEN f[k - 1] ELSE Append(f[k - 1], alist[k])]
    BY <1>5, <1>6
  <2>2. QED
    BY <2>1
<1>8. Excepted(alist, syms) = kept[n]
  BY DEF Excepted, n
<1> HIDE DEF kept
<1>9. kept[0] \in U
  BY <1>1, <1>2, <1>7
<1>10. ASSUME NEW k \in 1 .. n, kept[k - 1] \in U PROVE kept[k] \in U
  <2>1. k # 0 /\ k \in 0 .. n
    BY <1>1
  <2>2. kept[k] = IF Contains(syms, alist[k][1]) THEN kept[k - 1] ELSE Append(kept[k - 1], alist[k])
    BY <1>7, <2>1
  <2>3. Append(kept[k - 1], alist[k]) \in U
    BY <1>1, <1>10, AppendProperties DEF U
  <2>4. QED
    BY <1>10, <2>2, <2>3
<1>11. \A k \in 0 .. n : kept[k] \in U
  BY <1>1, <1>9, <1>10, FoldIn
<1>12. kept[0] = << >>
  BY <1>1, <1>7
<1>13. ASSUME NEW k \in 1 .. n
       PROVE  kept[k] = IF Contains(syms, alist[k][1]) THEN kept[k - 1] ELSE Append(kept[k - 1], alist[k])
  <2>1. k # 0 /\ k \in 0 .. n
    BY <1>1
  <2>2. QED
    BY <1>7, <2>1
<1>14. QED
  BY <1>8, <1>11, <1>12, <1>13 DEF U, n

LEMMA ExceptedIs ==
  ASSUME NEW alist \in Seq(SlotOrNot), NEW syms
  PROVE  Excepted(alist, syms) \in Seq(SlotOrNot)
<1>1. Len(alist) \in 0 .. Len(alist)
  BY Listed
<1>2. QED
  BY <1>1, ExceptedBy

LEMMA ModifiedIs ==
  ASSUME NEW alist \in Seq(SlotOrNot), ~Contains(alist, Fault),
         NEW mod \in Mods, mod.kind = "prefix" => mod.syms # << >>
  PROVE  Modified(alist, mod) \in Seq(SlotOrNot)
<1> DEFINE found == [i \in DOMAIN mod.syms |-> Assq(alist, mod.syms[i])]
           prefixed == [i \in DOMAIN alist |-> Slot(mod.syms[1] \o alist[i][1], alist[i][2])]
<1>1. mod.syms \in Seq(Name) /\ mod.kind \in {"only", "rename", "prefix", "except"}
  BY DEF Mods
<1>2. found \in Seq(SlotOrNot)
  <2>1. PICK n \in Nat : DOMAIN mod.syms = 1 .. n
    BY <1>1, Listed
  <2>2. found \in [1 .. n -> SlotOrNot]
    BY <2>1, AssqIs
  <2> HIDE DEF found
  <2>3. QED
    BY <2>2, ListOf
<1>3. << Fault >> \in Seq(SlotOrNot)
  <2>1. Fault \in SlotOrNot
    BY DEF SlotOrNot
  <2>2. QED
    BY <2>1, OneChar
<1>4. ASSUME mod.kind = "prefix", ~Contains(alist, NoSlot) PROVE prefixed \in Seq(SlotOrNot)
  <2>1. PICK n \in Nat : DOMAIN alist = 1 .. n /\ n = Len(alist) /\ \A i \in 1 .. n : alist[i] \in SlotOrNot
    BY Listed
  <2>2. mod.syms[1] \in Seq(Char)
    <3>1. Len(mod.syms) \in Nat /\ \A i \in 1 .. Len(mod.syms) : mod.syms[i] \in Name
      BY <1>1, Listed
    <3>2. Len(mod.syms) # 0
      BY <1>1, <1>4, EmptySeq
    <3>3. 1 \in 1 .. Len(mod.syms)
      BY <3>1, <3>2
    <3>4. QED
      BY <3>1, <3>3 DEF Name
  <2>3. ASSUME NEW i \in 1 .. n PROVE Slot(mod.syms[1] \o alist[i][1], alist[i][2]) \in SlotOrNot
    <3>1. alist[i] # NoSlot /\ alist[i] # Fault /\ alist[i] \in SlotOrNot
      BY <1>4, <2>1 DEF Contains
    <3>2. alist[i] \in Name \X Name
      BY <3>1 DEF SlotOrNot
    <3>3. alist[i][1] \in Seq(Char) /\ alist[i][2] \in Name
      BY <3>2 DEF Name
    <3>4. mod.syms[1] \o alist[i][1] \in Name
      BY <2>2, <3>3, ConcatProperties DEF Name
    <3>5. QED
      BY <3>3, <3>4 DEF Slot, SlotOrNot
  <2>4. prefixed \in [1 .. n -> SlotOrNot]
    BY <2>1, <2>3
  <2> HIDE DEF prefixed
  <2>5. QED
    BY <2>4, ListOf
<1>5. Modified(alist, mod) =
        IF mod.kind = "only" /\ Contains(found, Fault) THEN << Fault >>
        ELSE IF mod.kind # "only" /\ Contains(alist, NoSlot) THEN << Fault >>
        ELSE CASE mod.kind = "only" -> found
               [] mod.kind = "rename" -> alist
               [] mod.kind = "prefix" -> prefixed
               [] mod.kind = "except" -> Excepted(alist, mod.syms)
  BY DEF Modified
<1> HIDE DEF found, prefixed
<1>6. PICK e, m : e = Excepted(alist, mod.syms) /\ m = Modified(alist, mod)
  OBVIOUS
<1>7. e \in Seq(SlotOrNot)
  BY <1>6, ExceptedIs
<1>8. CASE m = << Fault >>
  BY <1>3, <1>6, <1>8
<1>9. CASE m # << Fault >>
  <2>1. CASE mod.kind = "only"
    BY <1>2, <1>5, <1>6, <1>9, <2>1
  <2>2. CASE mod.kind = "rename"
    BY <1>5, <1>6, <1>9, <2>2
  <2>3. CASE mod.kind = "prefix"
    <3>1. ~Contains(alist, NoSlot)
      BY <1>5, <1>6, <1>9, <2>3
    <3>2. QED
      BY <1>4, <1>5, <1>6, <1>9, <2>3, <3>1
  <2>4. CASE mod.kind = "except"
    BY <1>5, <1>6, <1>7, <1>9, <2>4
  <2>5. QED
    BY <1>1, <2>1, <2>2, <2>3, <2>4
<1>10. QED
  BY <1>8, <1>9

(* What collect has after each of the modifiers.                           *)
LEMMA CollectBy ==
  ASSUME NEW exports \in Seq(Name), NEW mods, Wellformed(mods)
  PROVE  \E alist :
           /\ collect(exports, mods) = alist[Len(mods)]
           /\ alist[0] = [i \in DOMAIN exports |-> Slot(exports[i], exports[i])]
           /\ \A k \in 0 .. Len(mods) : alist[k] \in Seq(SlotOrNot)
           /\ \A k \in 1 .. Len(mods) :
                alist[k] = IF Contains(alist[k - 1], Fault) THEN alist[k - 1] ELSE Modified(alist[k - 1], mods[k])
<1> DEFINE n == Len(mods)
           U == Seq(SlotOrNot)
           a == [i \in DOMAIN exports |-> Slot(exports[i], exports[i])]
           g == [p \in (1 .. n) \X U |-> IF Contains(p[2], Fault) THEN p[2] ELSE Modified(p[2], mods[p[1]])]
<1>1. n \in Nat /\ \A i \in 1 .. n : mods[i] \in Mods /\ (mods[i].kind = "prefix" => mods[i].syms # << >>)
  BY Listed DEF Wellformed
<1>2. a \in U
  <2>1. PICK m \in Nat : DOMAIN exports = 1 .. m /\ \A i \in 1 .. m : exports[i] \in Name
    BY Listed
  <2>2. \A i \in 1 .. m : Slot(exports[i], exports[i]) \in SlotOrNot
    BY <2>1 DEF Slot, SlotOrNot
  <2>3. a \in [1 .. m -> SlotOrNot]
    BY <2>1, <2>2
  <2> HIDE DEF a
  <2>4. QED
    BY <2>3, ListOf
<1>3. ASSUME NEW k \in 1 .. n, NEW x \in U, ~Contains(x, Fault) PROVE Modified(x, mods[k]) \in U
  <2>1. mods[k] \in Mods /\ (mods[k].kind = "prefix" => mods[k].syms # << >>)
    BY <1>1
  <2>2. QED
    BY <1>3, <2>1, ModifiedIs
<1> HIDE DEF U, n
<1>4. g \in [(1 .. n) \X U -> U]
  BY <1>3
<1>5. ASSUME NEW k \in 1 .. n, NEW x \in U
      PROVE  g[<< k, x >>] = IF Contains(x, Fault) THEN x ELSE Modified(x, mods[k])
  OBVIOUS
<1> HIDE DEF g, a
<1>6. PICK f : /\ f = [k \in 0 .. n |-> f[k]] /\ f[0] = a
               /\ \A k \in 1 .. n : f[k - 1] \in U /\ f[k] = g[<< k, f[k - 1] >>]
  <2>1. n \in Nat
    BY <1>1
  <2>2. \E f : Trace(f, U, n, a, g)
    BY <1>2, <1>4, <2>1, FoldExists
  <2>3. QED
    BY <2>2 DEF Trace
<1>7. ASSUME NEW k \in 0 .. n
      PROVE  f[k] = IF k = 0 THEN a
                    ELSE IF Contains(f[k - 1], Fault) THEN f[k - 1] ELSE Modified(f[k - 1], mods[k])
  <2>1. CASE k = 0
    BY <1>6, <2>1
  <2>2. CASE k # 0
    <3>1. k \in 1 .. n
      BY <1>1, <2>2
    <3>2. QED
      BY <1>5, <1>6, <2>2, <3>1
  <2>3. QED
    BY <2>1, <2>2
<1> DEFINE alist[k \in 0 .. n] ==
             IF k = 0 THEN a
             ELSE IF Contains(alist[k - 1], Fault) THEN alist[k - 1] ELSE Modified(alist[k - 1], mods[k])
<1>8. alist = [k \in 0 .. n |->
                 IF k = 0 THEN a
                 ELSE IF Contains(alist[k - 1], Fault) THEN alist[k - 1] ELSE Modified(alist[k - 1], mods[k])]
  <2>1. f = [k \in 0 .. n |->
               IF k = 0 THEN a
               ELSE IF Contains(f[k - 1], Fault) THEN f[k - 1] ELSE Modified(f[k - 1], mods[k])]
    BY <1>6, <1>7
  <2>2. QED
    BY <2>1
<1>9. collect(exports, mods) = alist[n]
  BY DEF collect, n, a
<1> HIDE DEF alist
<1>10. alist[0] \in U
  BY <1>1, <1>2, <1>8
<1>11. ASSUME NEW k \in 1 .. n, alist[k - 1] \in U PROVE alist[k] \in U
  <2>1. k # 0 /\ k \in 0 .. n
    BY <1>1
  <2>2. alist[k] = IF Contains(alist[k - 1], Fault) THEN alist[k - 1] ELSE Modified(alist[k - 1], mods[k])
    BY <1>8, <2>1
  <2>3. QED
    BY <1>3, <1>11, <2>2
<1>12. \A k \in 0 .. n : alist[k] \in U
  BY <1>1, <1>10, <1>11, FoldIn
<1>13. alist[0] = a
  BY <1>1, <1>8
<1>14. ASSUME NEW k \in 1 .. n
       PROVE  alist[k] = IF Contains(alist[k - 1], Fault) THEN alist[k - 1] ELSE Modified(alist[k - 1], mods[k])
  <2>1. k # 0 /\ k \in 0 .. n
    BY <1>1
  <2>2. QED
    BY <1>8, <2>1
<1>15. QED
  BY <1>9, <1>12, <1>13, <1>14 DEF U, n, a

LEMMA CollectIs ==
  ASSUME NEW exports \in Seq(Name), NEW mods, Wellformed(mods)
  PROVE  collect(exports, mods) \in Seq(SlotOrNot)
<1>1. Len(mods) \in 0 .. Len(mods)
  BY Listed DEF Wellformed
<1>2. PICK alist :
        /\ collect(exports, mods) = alist[Len(mods)]
        /\ alist[0] = [i \in DOMAIN exports |-> Slot(exports[i], exports[i])]
        /\ \A k \in 0 .. Len(mods) : alist[k] \in Seq(SlotOrNot)
        /\ \A k \in 1 .. Len(mods) :
             alist[k] = IF Contains(alist[k - 1], Fault) THEN alist[k - 1] ELSE Modified(alist[k - 1], mods[k])
  BY CollectBy
<1>3. QED
  BY <1>1, <1>2

-----------------------------------------------------------------------------
(* Tables of libraries. *)

(* One more name in the environment of a library.                          *)
LEMMA PutIs ==
  ASSUME NEW ls, LibsOK(ls), NEW l \in DOMAIN ls, NEW id \in Name, NEW uid \in Name,
         NEW new, new = pic_put_identifier(ls, l, id, uid)
  PROVE  /\ new = [m \in DOMAIN ls |-> new[m]] /\ DOMAIN new = DOMAIN ls
         /\ new[l].env = Put(ls[l].env, id, uid) /\ new[l].exports = ls[l].exports
         /\ new[l] = [env |-> new[l].env, exports |-> new[l].exports]
         /\ \A m \in DOMAIN ls : m # l => new[m] = ls[m]
<1>1. PICK e, x : e = Put(ls[l].env, id, uid) /\ x = ls[l].exports
  OBVIOUS
<1>2. ls = [m \in DOMAIN ls |-> ls[m]] /\ ls[l] = [env |-> ls[l].env, exports |-> x]
  BY <1>1 DEF LibsOK
<1>3. PICK r : r = [env |-> e, exports |-> x]
  OBVIOUS
<1>4. r.env = e /\ r.exports = x /\ r = [env |-> r.env, exports |-> r.exports]
  BY <1>3
<1>5. [ls[l] EXCEPT !.env = e] = r
  BY <1>2, <1>3
<1>6. new = [ls EXCEPT ![l] = r]
  BY <1>1, <1>5 DEF pic_put_identifier
<1>7. DOMAIN new = DOMAIN ls /\ new[l] = r /\ \A m \in DOMAIN ls : m # l => new[m] = ls[m]
  BY <1>2, <1>6
<1>8. new = [m \in DOMAIN ls |-> new[m]]
  BY <1>2, <1>6, <1>7
<1>9. QED
  BY <1>1, <1>4, <1>7, <1>8

LEMMA PutKept ==
  ASSUME NEW ls, LibsOK(ls), NEW l \in DOMAIN ls, NEW id \in Name, NEW uid \in Name,
         NEW new, new = pic_put_identifier(ls, l, id, uid)
  PROVE  /\ LibsOK(new) /\ DOMAIN new = DOMAIN ls
         /\ id \in DOMAIN new[l].env /\ new[l].env[id] = uid
         /\ \A uids : Defined(ls, uids) /\ (uid = Uid(l, id) \/ uid \in uids) => Defined(new, uids)
<1>1. PICK e : e = Put(ls[l].env, id, uid)
  OBVIOUS
<1>2. /\ new = [m \in DOMAIN ls |-> new[m]] /\ DOMAIN new = DOMAIN ls
      /\ new[l].env = e /\ new[l].exports = ls[l].exports
      /\ new[l] = [env |-> new[l].env, exports |-> new[l].exports]
      /\ \A m \in DOMAIN ls : m # l => new[m] = ls[m]
  BY <1>1, PutIs
<1>3. DOMAIN e = DOMAIN ls[l].env \union {id} /\ e[id] = uid /\ \A d \in DOMAIN ls[l].env : d # id => e[d] = ls[l].env[d]
  <2>1. PICK f : f = ls[l].env
    OBVIOUS
  <2>2. e = Put(f, id, uid)
    BY <1>1, <2>1
  <2>3. DOMAIN e = DOMAIN f \union {id} /\ e[id] = uid /\ \A d \in DOMAIN f : d # id => e[d] = f[d]
    BY <2>2 DEF Put
  <2>4. QED
    BY <2>1, <2>3
<1>4. LibsOK(new)
  <2>1. ASSUME NEW m \in DOMAIN new
        PROVE  /\ NoSlash(m)
               /\ new[m] = [env |-> new[m].env, exports |-> new[m].exports]
               /\ new[m].env = [d \in DOMAIN new[m].env |-> new[m].env[d]] /\ DOMAIN new[m].env \subseteq Name
               /\ \A d \in DOMAIN new[m].env : new[m].env[d] \in Name
               /\ \A a \in DOMAIN new[m].exports : new[m].exports[a] \in Name
               /\ IsFiniteSet(DOMAIN new[m].exports) /\ DOMAIN new[m].exports \subseteq Name
    <3>1. /\ NoSlash(m)
          /\ ls[m] = [env |-> ls[m].env, exports |-> ls[m].exports]
          /\ ls[m].env = [d \in DOMAIN ls[m].env |-> ls[m].env[d]] /\ DOMAIN ls[m].env \subseteq Name
          /\ \A d \in DOMAIN ls[m].env : ls[m].env[d] \in Name
          /\ \A a \in DOMAIN ls[m].exports : ls[m].exports[a] \in Name
          /\ IsFiniteSet(DOMAIN ls[m].exports) /\ DOMAIN ls[m].exports \subseteq Name
      BY <1>2, <2>1 DEF LibsOK
    <3>2. CASE m = l
      <4>1. \A d \in DOMAIN e : e[d] \in Name /\ d \in Name
        BY <1>3, <3>1, <3>2
      <4>2. e = [d \in DOMAIN e |-> e[d]]
        <5>1. PICK f : f = ls[l].env
          OBVIOUS
        <5>2. e = Put(f, id, uid)
          BY <1>1, <5>1
        <5>3. QED
          BY <5>2 DEF Put
      <4>3. QED
        BY <1>2, <3>1, <3>2, <4>1, <4>2
    <3>3. CASE m # l
      BY <1>2, <2>1, <3>1, <3>3
    <3>4. QED
      BY <3>2, <3>3
  <2>2. new = [m \in DOMAIN new |-> new[m]]
    BY <1>2
  <2>3. QED
    BY <2>1, <2>2 DEF LibsOK
<1>5. id \in DOMAIN new[l].env /\ new[l].env[id] = uid
  BY <1>2, <1>3
<1>6. ASSUME NEW m \in DOMAIN new, NEW d \in DOMAIN new[m].env
      PROVE  \/ m = l /\ d = id
             \/ m \in DOMAIN ls /\ d \in DOMAIN ls[m].env /\ new[m].env[d] = ls[m].env[d]
  BY <1>2, <1>3
<1>7. ASSUME NEW uids, Defined(ls, uids), uid = Uid(l, id) \/ uid \in uids PROVE Defined(new, uids)
  <2>1. SUFFICES ASSUME NEW m \in DOMAIN new, NEW d \in DOMAIN new[m].env, new[m].env[d] # Uid(m, d)
                 PROVE  new[m].env[d] \in uids
    BY DEF Defined
  <2>2. CASE m = l /\ d = id
    BY <1>5, <1>7, <2>1, <2>2
  <2>3. CASE m \in DOMAIN ls /\ d \in DOMAIN ls[m].env /\ new[m].env[d] = ls[m].env[d]
    BY <1>7, <2>1, <2>3 DEF Defined
  <2>4. QED
    BY <1>6, <2>1, <2>2, <2>3
<1>8. QED
  BY <1>2, <1>4, <1>5, <1>7

(* It takes no variable out, and adds none that no library made.           *)
LEMMA PutMore ==
  ASSUME NEW ls, LibsOK(ls), NEW l \in DOMAIN ls, NEW id \in Name, NEW uid \in Name,
         NEW new, new = pic_put_identifier(ls, l, id, uid),
         MadeOK(ls) => uid = Uid(l, id) \/ Made(ls, uid)
  PROVE  More(ls, new)
<1>1. PICK e, f : f = ls[l].env /\ e = Put(f, id, uid)
  OBVIOUS
<1>2. DOMAIN e = DOMAIN f \union {id} /\ e[id] = uid /\ \A d \in DOMAIN f : d # id => e[d] = f[d]
  BY <1>1 DEF Put
<1>3. DOMAIN new = DOMAIN ls /\ new[l].env = e /\ \A m \in DOMAIN ls : m # l => new[m] = ls[m]
  <2>1. /\ new = [m \in DOMAIN ls |-> new[m]] /\ DOMAIN new = DOMAIN ls
        /\ new[l].env = Put(ls[l].env, id, uid) /\ new[l].exports = ls[l].exports
        /\ new[l] = [env |-> new[l].env, exports |-> new[l].exports]
        /\ \A m \in DOMAIN ls : m # l => new[m] = ls[m]
    BY PutIs
  <2>2. QED
    BY <1>1, <2>1
<1>4. ASSUME NEW u, Made(ls, u) PROVE Made(new, u)
  <2>1. PICK m \in DOMAIN ls : \E d \in DOMAIN ls[m].env : u = Uid(m, d)
    BY <1>4 DEF Made
  <2>2. m \in DOMAIN new /\ DOMAIN ls[m].env \subseteq DOMAIN new[m].env
    BY <1>1, <1>2, <1>3
  <2>3. QED
    BY <2>1, <2>2 DEF Made
<1>5. ASSUME MadeOK(ls) PROVE MadeOK(new)
  <2>1. SUFFICES ASSUME NEW m \in DOMAIN new, NEW d \in DOMAIN new[m].env PROVE Made(new, new[m].env[d])
    BY DEF MadeOK
  <2>2. CASE m = l /\ d = id
    <3>1. new[m].env[d] = uid
      BY <1>2, <1>3, <2>2
    <3>2. CASE uid = Uid(l, id)
      BY <1>3, <2>1, <2>2, <3>1, <3>2 DEF Made
    <3>3. CASE Made(ls, uid)
      BY <1>4, <3>1, <3>3
    <3>4. QED
      BY <1>5, <3>2, <3>3
  <2>3. CASE ~ (m = l /\ d = id)
    <3>1. m \in DOMAIN ls /\ d \in DOMAIN ls[m].env /\ new[m].env[d] = ls[m].env[d]
      BY <1>1, <1>2, <1>3, <2>1, <2>3
    <3>2. Made(ls, ls[m].env[d])
      BY <1>5, <3>1 DEF MadeOK
    <3>3. QED
      BY <1>4, <3>1, <3>2
  <2>4. QED
    BY <2>2, <2>3
<1>6. QED
  BY <1>4, <1>5 DEF More

(* pic_find_identifier gives a name a variable of the library's own.       *)
LEMMA FindKept ==
  ASSUME NEW ls, LibsOK(ls), NEW l \in DOMAIN ls, NEW id \in Name,
         NEW new, new = pic_find_identifier(ls, l, id)
  PROVE  /\ Kept(ls, new) /\ DOMAIN new = DOMAIN ls
         /\ id \in DOMAIN new[l].env /\ new[l].env[id] \in Name
<1>1. CASE id \in DOMAIN ls[l].env
  <2>1. new = ls
    BY <1>1 DEF pic_find_identifier
  <2>2. ls[l].env[id] \in Name
    BY <1>1 DEF LibsOK
  <2>3. QED
    BY <1>1, <2>1, <2>2 DEF Kept, More
<1>2. CASE id \notin DOMAIN ls[l].env
  <2>1. PICK uid : uid = Uid(l, id)
    OBVIOUS
  <2>2. uid \in Name
    BY <2>1, UidIs DEF LibsOK, NoSlash
  <2>3. new = pic_put_identifier(ls, l, id, uid)
    BY <1>2, <2>1 DEF pic_find_identifier, pic_put_identifier
  <2>4. /\ LibsOK(new) /\ DOMAIN new = DOMAIN ls
        /\ id \in DOMAIN new[l].env /\ new[l].env[id] = uid
        /\ \A uids : Defined(ls, uids) /\ (uid = Uid(l, id) \/ uid \in uids) => Defined(new, uids)
    BY <2>2, <2>3, PutKept
  <2>5. MadeOK(ls) => uid = Uid(l, id) \/ Made(ls, uid)
    BY <2>1
  <2>6. More(ls, new)
    BY <2>2, <2>3, <2>5, PutMore
  <2>7. QED
    BY <2>1, <2>2, <2>4, <2>6 DEF Kept
<1>3. QED
  BY <1>1, <1>2

LEMMA KeptTwice ==
  ASSUME NEW a, NEW b, NEW c, Kept(a, b), Kept(b, c)
  PROVE  Kept(a, c)
BY DEF Kept, More

(* An import of one name refuses a variable that is not defined.           *)
LEMMA ImportKept ==
  ASSUME NEW ls, LibsOK(ls), NEW l \in DOMAIN ls, lib \in DOMAIN ls, NEW name \in Name, NEW alias \in Name,
         NEW r, r = library_import(ls, l, name, alias)
  PROVE  Kept(ls, r.libs) /\ DOMAIN r.libs = DOMAIN ls
<1>1. CASE name \notin DOMAIN ls[l].exports
  <2>1. r = [libs |-> ls, ok |-> FALSE]
    BY <1>1 DEF library_import
  <2>2. r.libs = ls
    BY <2>1
  <2>3. QED
    BY <2>2 DEF Kept, More
<1>2. CASE name \in DOMAIN ls[l].exports
  <2>1. PICK real, found : real = ls[l].exports[name] /\ found = pic_find_identifier(ls, l, real)
    OBVIOUS
  <2>2. real \in Name
    BY <1>2, <2>1 DEF LibsOK
  <2>3. /\ Kept(ls, found) /\ DOMAIN found = DOMAIN ls
        /\ real \in DOMAIN found[l].env /\ found[l].env[real] \in Name
    BY <2>1, <2>2, FindKept
  <2>4. PICK uid : uid = found[l].env[real]
    OBVIOUS
  <2>5. CASE Bound(uid)
    <3>1. PICK new : new = pic_put_identifier(found, lib, alias, uid)
      OBVIOUS
    <3>2. r = [libs |-> new, ok |-> TRUE]
      BY <1>2, <2>1, <2>4, <2>5, <3>1 DEF library_import
    <3>3. r.libs = new
      BY <3>2
    <3>4. uid \in Name /\ LibsOK(found) /\ lib \in DOMAIN found
      BY <2>3, <2>4 DEF Kept
    <3>5. MadeOK(found) => uid = Uid(lib, alias) \/ Made(found, uid)
      BY <1>2, <2>3, <2>4 DEF MadeOK
    <3>6. /\ LibsOK(new) /\ DOMAIN new = DOMAIN found
          /\ \A uids : Defined(found, uids) /\ (uid = Uid(lib, alias) \/ uid \in uids) => Defined(new, uids)
      BY <3>1, <3>4, PutKept
    <3>7. More(found, new)
      BY <3>1, <3>4, <3>5, PutMore
    <3>8. Kept(found, new)
      BY <2>5, <3>6, <3>7 DEF Kept, Bound
    <3>9. Kept(ls, new)
      BY <2>3, <3>8, KeptTwice
    <3>10. QED
      BY <2>3, <3>3, <3>6, <3>9
  <2>6. CASE ~Bound(uid)
    <3>1. r = [libs |-> found, ok |-> FALSE]
      BY <1>2, <2>1, <2>4, <2>6 DEF library_import
    <3>2. r.libs = found
      BY <3>1
    <3>3. QED
      BY <2>3, <3>2
  <2>7. QED
    BY <2>5, <2>6
<1>3. QED
  BY <1>1, <1>2

(* How far an import of many has come after each slot.                     *)
LEMMA ImportedBy ==
  ASSUME NEW l \in DOMAIN libs, NEW slots, Len(slots) \in Nat
  PROVE  \E done :
           /\ Imported(l, slots) = done[Len(slots)]
           /\ done[0] = [libs |-> libs, ok |-> TRUE]
           /\ \A k \in 1 .. Len(slots) : done[k] = Slotted(done[k - 1], l, slots[k])
<1> DEFINE n == Len(slots)
           a == [libs |-> libs, ok |-> TRUE]
           Ok(m, f) == /\ f = [k \in 0 .. m |-> f[k]]
                       /\ \A k \in 0 .. m : f[k] = IF k = 0 THEN a ELSE Slotted(f[k - 1], l, slots[k])
<1>1. n \in Nat
  OBVIOUS
<1> HIDE DEF n, a
<1>2. \E f : Ok(n, f)
  <2> DEFINE A == {m \in Nat : \E f : Ok(m, f)}
  <2>1. 0 \in A
    <3>1. Ok(0, [k \in 0 .. 0 |-> a])
      OBVIOUS
    <3>2. QED
      BY <3>1
  <2>2. \A m \in A : m + 1 \in A
    <3>1. TAKE m \in A
    <3>2. PICK f : Ok(m, f)
      OBVIOUS
    <3> DEFINE h == [k \in 0 .. m + 1 |-> IF k = m + 1 THEN Slotted(f[m], l, slots[m + 1]) ELSE f[k]]
    <3>3. \A k \in 0 .. m : h[k] = f[k]
      OBVIOUS
    <3>4. h[m + 1] = Slotted(f[m], l, slots[m + 1])
      <4>1. m + 1 \in 0 .. m + 1
        OBVIOUS
      <4>2. QED
        BY <4>1
    <3>5. h = [k \in 0 .. m + 1 |-> h[k]]
      OBVIOUS
    <3> HIDE DEF h
    <3>6. ASSUME NEW k \in 0 .. m + 1
          PROVE  h[k] = IF k = 0 THEN a ELSE Slotted(h[k - 1], l, slots[k])
      <4>1. CASE k = m + 1
        <5>1. k # 0 /\ k - 1 = m /\ m \in 0 .. m
          BY <3>1, <4>1
        <5>2. h[k - 1] = f[m]
          BY <3>3, <5>1
        <5>3. QED
          BY <3>4, <4>1, <5>1, <5>2
      <4>2. CASE k # m + 1
        <5>1. k \in 0 .. m
          BY <3>1, <4>2
        <5>2. f[k] = IF k = 0 THEN a ELSE Slotted(f[k - 1], l, slots[k])
          BY <3>2, <5>1
        <5>3. k # 0 => k - 1 \in 0 .. m
          BY <5>1
        <5>4. k # 0 => h[k - 1] = f[k - 1]
          BY <3>3, <5>3
        <5>5. h[k] = f[k]
          BY <3>3, <5>1
        <5>6. QED
          BY <5>2, <5>4, <5>5
      <4>3. QED
        BY <4>1, <4>2
    <3>7. Ok(m + 1, h)
      BY <3>5, <3>6
    <3> HIDE DEF Ok
    <3>8. m + 1 \in Nat /\ \E g : Ok(m + 1, g)
      BY <3>7
    <3>9. QED
      BY <3>8
  <2>3. A = Nat
    <3>1. A \in SUBSET Nat
      OBVIOUS
    <3> HIDE DEF A
    <3>2. QED
      BY <2>1, <2>2, <3>1, NatInd
  <2>4. n \in A
    <3> HIDE DEF A
    <3>1. QED
      BY <1>1, <2>3
  <2>5. QED
    BY <2>4
<1> DEFINE done[k \in 0 .. n] == IF k = 0 THEN a ELSE Slotted(done[k - 1], l, slots[k])
<1>3. done = [k \in 0 .. n |-> IF k = 0 THEN a ELSE Slotted(done[k - 1], l, slots[k])]
  <2>1. PICK f : Ok(n, f)
    BY <1>2
  <2>2. f = [k \in 0 .. n |-> IF k = 0 THEN a ELSE Slotted(f[k - 1], l, slots[k])]
    BY <2>1
  <2>3. QED
    BY <2>2
<1>4. Imported(l, slots) = done[n]
  BY DEF Imported, n, a
<1> HIDE DEF done
<1>5. done[0] = a
  BY <1>1, <1>3
<1>6. ASSUME NEW k \in 1 .. n PROVE done[k] = Slotted(done[k - 1], l, slots[k])
  <2>1. k # 0 /\ k \in 0 .. n
    BY <1>1
  <2>2. QED
    BY <1>3, <2>1
<1>7. QED
  BY <1>4, <1>5, <1>6 DEF n, a

(* So does an import of many, one after the other, also when it fails.     *)
LEMMA ImportedKept ==
  ASSUME LibsOK(libs), NEW l \in DOMAIN libs, lib \in DOMAIN libs, NEW slots, Len(slots) \in Nat
  PROVE  Kept(libs, Imported(l, slots).libs) /\ DOMAIN Imported(l, slots).libs = DOMAIN libs
<1>1. PICK done :
        /\ Imported(l, slots) = done[Len(slots)]
        /\ done[0] = [libs |-> libs, ok |-> TRUE]
        /\ \A k \in 1 .. Len(slots) : done[k] = Slotted(done[k - 1], l, slots[k])
  BY ImportedBy
<1> DEFINE n == Len(slots)
           B == {k \in 0 .. n : Kept(libs, done[k].libs) /\ DOMAIN done[k].libs = DOMAIN libs}
<1>2. 0 \in B
  BY <1>1 DEF Kept, More
<1>3. ASSUME NEW k \in 1 .. n, k - 1 \in B PROVE k \in B
  <2>1. PICK d, e, s : d = done[k - 1] /\ e = done[k] /\ s = slots[k]
    OBVIOUS
  <2>2. Kept(libs, d.libs) /\ DOMAIN d.libs = DOMAIN libs
    BY <1>3, <2>1
  <2>3. e = Slotted(d, l, s)
    BY <1>1, <2>1
  <2>4. Kept(d.libs, e.libs) /\ DOMAIN e.libs = DOMAIN d.libs
    <3>1. CASE ~d.ok \/ s \notin Name \X Name
      <4>1. e = [libs |-> d.libs, ok |-> FALSE]
        BY <2>3, <3>1 DEF Slotted
      <4>2. e.libs = d.libs
        BY <4>1
      <4>3. QED
        BY <2>2, <4>2 DEF Kept, More
    <3>2. CASE ~ (~d.ok \/ s \notin Name \X Name)
      <4>1. e = library_import(d.libs, l, s[2], s[1])
        BY <2>3, <3>2 DEF Slotted
      <4>2. s[1] \in Name /\ s[2] \in Name
        BY <3>2
      <4>3. LibsOK(d.libs) /\ l \in DOMAIN d.libs /\ lib \in DOMAIN d.libs
        BY <2>2 DEF Kept
      <4>4. QED
        BY <4>1, <4>2, <4>3, ImportKept
    <3>3. QED
      BY <3>1, <3>2
  <2>5. Kept(libs, e.libs)
    BY <2>2, <2>4, KeptTwice
  <2>6. QED
    BY <2>1, <2>2, <2>4, <2>5
<1>4. n \in B
  <2>1. n \in Nat /\ n \in 0 .. n
    OBVIOUS
  <2> HIDE DEF B, n
  <2>2. \A k \in 0 .. n : k \in B
    BY <1>2, <1>3, <2>1, UpTo
  <2>3. QED
    BY <2>1, <2>2
<1>5. QED
  BY <1>1, <1>4

-----------------------------------------------------------------------------
(* What is invariant of a program. *)

Uids == globals \union macros \union shadowed

(* The library a call of pic_eval goes back to is that of the call around  *)
(* it, unless that one has moved.                                          *)
Returning(es) ==
  \A k \in 1 .. Len(es) - 1 : es[k + 1].prev = es[k].lib \/ es[k].moved

EvalsOK(es, ls) ==
  /\ es \in Seq(Calls) /\ Len(es) >= 1
  /\ \A k \in 1 .. Len(es) : es[k].lib \in DOMAIN ls /\ es[k].prev \in DOMAIN ls
  /\ Returning(es)

TableInv == LibsOK(libs) /\ Defined(libs, Uids)
CallsInv == EvalsOK(evals, libs) /\ lib \in DOMAIN libs /\ HomeLibrary

IInv == TableInv /\ CallsInv

LEMMA InitInv == Init => IInv
<1>1. SUFFICES ASSUME Init PROVE IInv
  OBVIOUS
<1>2. PICK r : r = NewLibrary
  OBVIOUS
<1>3. /\ r = [env |-> << >>, exports |-> << >>] /\ r.env = << >> /\ r.exports = << >>
      /\ DOMAIN r.env = {} /\ DOMAIN r.exports = {}
  BY <1>2 DEF NewLibrary
<1>4. libs = [l \in {User} |-> r] /\ DOMAIN libs = {User} /\ libs[User] = r /\ lib = User
  BY <1>1, <1>2 DEF Init
<1>5. libs = [l \in DOMAIN libs |-> libs[l]]
  BY <1>4
<1>6. LibsOK(libs)
  <2>1. IsFiniteSet(DOMAIN r.exports)
    BY <1>3, FS_EmptySet
  <2>2. NoSlash(User)
    BY NamesAssumption DEF NoSlash
  <2>3. QED
    BY <1>3, <1>4, <1>5, <2>1, <2>2 DEF LibsOK
<1>7. Defined(libs, Uids)
  BY <1>3, <1>4 DEF Defined
<1>8. PICK c : c = Call(User, User, "run")
  OBVIOUS
<1>9. c \in Calls /\ c.lib = User /\ c.prev = User
  BY <1>8, NamesAssumption DEF Call, Calls
<1>10. evals = << c >> /\ Len(evals) = 1 /\ evals[1] = c /\ evals \in Seq(Calls)
  BY <1>1, <1>8, <1>9 DEF Init
<1>11. EvalsOK(evals, libs) /\ HomeLibrary
  BY <1>4, <1>9, <1>10 DEF EvalsOK, Returning, HomeLibrary, Now
<1>12. QED
  BY <1>4, <1>6, <1>7, <1>11 DEF IInv, TableInv, CallsInv

(* A table that grows does not disturb the calls.                          *)
LEMMA MoreLibs ==
  ASSUME NEW es, NEW ls, NEW new, EvalsOK(es, ls), DOMAIN ls \subseteq DOMAIN new
  PROVE  EvalsOK(es, new)
BY DEF EvalsOK

LEMMA StaysKept ==
  ASSUME IInv, Stays, LibsOK(libs'), DOMAIN libs \subseteq DOMAIN libs', Defined(libs', Uids')
  PROVE  IInv'
<1>1. evals' = evals /\ lib' = lib
  BY DEF Stays
<1>2. EvalsOK(evals, libs) /\ lib \in DOMAIN libs /\ HomeLibrary
  BY DEF IInv, CallsInv
<1>3. PICK es, new : es = evals /\ new = libs'
  OBVIOUS
<1>4. EvalsOK(es, new)
  BY <1>2, <1>3, MoreLibs
<1>5. EvalsOK(evals', libs')
  BY <1>1, <1>3, <1>4
<1>6. HomeLibrary'
  BY <1>1, <1>2 DEF HomeLibrary, Now
<1>7. TableInv' /\ lib' \in DOMAIN libs'
  BY <1>1, <1>2 DEF TableInv
<1>8. QED
  BY <1>5, <1>6, <1>7 DEF IInv, CallsInv

Topped(es, c) == [es EXCEPT ![Len(es)] = c]

(* The call in progress changes, but not the library it is for.            *)
LEMMA TopIs ==
  ASSUME NEW es, NEW ls, EvalsOK(es, ls), NEW c \in Calls, NEW new,
         new = Topped(es, c), c.lib = es[Len(es)].lib, c.prev = es[Len(es)].prev
  PROVE  /\ EvalsOK(new, ls)
         /\ Len(new) = Len(es) /\ new[Len(new)] = c
<1>1. /\ es \in Seq(Calls) /\ Len(es) >= 1 /\ Returning(es)
      /\ \A k \in 1 .. Len(es) : es[k].lib \in DOMAIN ls /\ es[k].prev \in DOMAIN ls
  BY DEF EvalsOK
<1>2. Len(es) \in Nat /\ Len(es) \in 1 .. Len(es)
  BY <1>1, LenProperties
<1>3. /\ new \in Seq(Calls) /\ Len(new) = Len(es)
      /\ \A j \in 1 .. Len(es) : new[j] = IF j = Len(es) THEN c ELSE es[j]
  BY <1>1, <1>2, ExceptSeq DEF Topped
<1>4. new[Len(new)] = c
  BY <1>2, <1>3
<1>5. \A k \in 1 .. Len(new) : new[k].lib = es[k].lib /\ new[k].prev = es[k].prev
  BY <1>3
<1>6. \A k \in 1 .. Len(new) - 1 : new[k] = es[k]
  BY <1>2, <1>3
<1>7. Returning(new)
  <2>1. SUFFICES ASSUME NEW k \in 1 .. Len(new) - 1
                 PROVE  new[k + 1].prev = new[k].lib \/ new[k].moved
    BY DEF Returning
  <2>2. k + 1 \in 1 .. Len(new) /\ k \in 1 .. Len(es) - 1
    BY <1>2, <1>3, <2>1
  <2>3. es[k + 1].prev = es[k].lib \/ es[k].moved
    BY <1>1, <2>2 DEF Returning
  <2>4. new[k] = es[k] /\ new[k + 1].prev = es[k + 1].prev
    BY <1>5, <1>6, <2>1, <2>2
  <2>5. QED
    BY <2>3, <2>4
<1>8. EvalsOK(new, ls)
  BY <1>1, <1>3, <1>5, <1>7 DEF EvalsOK
<1>9. QED
  BY <1>3, <1>4, <1>8

(* One call more, and one less.                                            *)
LEMMA PushIs ==
  ASSUME NEW es, NEW ls, EvalsOK(es, ls), NEW c \in Calls, NEW new, new = Append(es, c),
         c.lib \in DOMAIN ls, c.prev \in DOMAIN ls,
         c.prev = es[Len(es)].lib \/ es[Len(es)].moved
  PROVE  EvalsOK(new, ls) /\ new[Len(new)] = c
<1>1. /\ es \in Seq(Calls) /\ Len(es) >= 1 /\ Returning(es)
      /\ \A k \in 1 .. Len(es) : es[k].lib \in DOMAIN ls /\ es[k].prev \in DOMAIN ls
  BY DEF EvalsOK
<1>2. Len(es) \in Nat
  BY <1>1, LenProperties
<1>3. /\ new \in Seq(Calls) /\ Len(new) = Len(es) + 1
      /\ \A k \in 1 .. Len(es) : new[k] = es[k]
      /\ new[Len(es) + 1] = c
  BY <1>1, AppendProperties
<1>4. \A k \in 1 .. Len(new) : new[k].lib \in DOMAIN ls /\ new[k].prev \in DOMAIN ls
  <2>1. TAKE k \in 1 .. Len(new)
  <2>2. CASE k \in 1 .. Len(es)
    BY <1>1, <1>3, <2>2
  <2>3. CASE k = Len(es) + 1
    BY <1>3, <2>3
  <2>4. QED
    BY <1>2, <1>3, <2>2, <2>3
<1>5. Returning(new)
  <2>1. SUFFICES ASSUME NEW k \in 1 .. Len(new) - 1
                 PROVE  new[k + 1].prev = new[k].lib \/ new[k].moved
    BY DEF Returning
  <2>2. k \in 1 .. Len(es) /\ new[k] = es[k]
    BY <1>2, <1>3, <2>1
  <2>3. CASE k = Len(es)
    BY <1>3, <2>2, <2>3
  <2>4. CASE k # Len(es)
    <3>1. k \in 1 .. Len(es) - 1 /\ k + 1 \in 1 .. Len(es)
      BY <1>2, <2>2, <2>4
    <3>2. es[k + 1].prev = es[k].lib \/ es[k].moved
      BY <1>1, <3>1 DEF Returning
    <3>3. new[k + 1] = es[k + 1]
      BY <1>3, <3>1
    <3>4. QED
      BY <2>2, <3>2, <3>3
  <2>5. QED
    BY <2>3, <2>4
<1>6. Len(new) >= 1 /\ new[Len(new)] = c
  BY <1>2, <1>3
<1>7. QED
  BY <1>3, <1>4, <1>5, <1>6 DEF EvalsOK

LEMMA PopIs ==
  ASSUME NEW es, NEW ls, EvalsOK(es, ls), NEW to \in 1 .. Len(es), NEW new, new = SubSeq(es, 1, to)
  PROVE  /\ EvalsOK(new, ls) /\ Len(new) = to /\ \A k \in 1 .. to : new[k] = es[k]
<1>1. /\ es \in Seq(Calls) /\ Len(es) >= 1 /\ Returning(es)
      /\ \A k \in 1 .. Len(es) : es[k].lib \in DOMAIN ls /\ es[k].prev \in DOMAIN ls
  BY DEF EvalsOK
<1>2. Len(es) \in Nat /\ to \in Nat /\ 1 <= to /\ to <= Len(es)
  BY <1>1, LenProperties
<1>3. \A i \in 1 .. to : i \in 1 .. Len(es) /\ es[i] \in Calls
  BY <1>1, <1>2, ElementOfSeq
<1>4. /\ new \in Seq(Calls) /\ Len(new) = IF 1 <= to THEN to - 1 + 1 ELSE 0
      /\ \A i \in 1 .. to - 1 + 1 : new[i] = es[1 + i - 1]
  BY <1>2, <1>3, SubSeqProperties
<1>5. Len(new) = to /\ \A i \in 1 .. to : new[i] = es[i]
  BY <1>2, <1>4
<1>6. Returning(new)
  <2>1. SUFFICES ASSUME NEW k \in 1 .. Len(new) - 1
                 PROVE  new[k + 1].prev = new[k].lib \/ new[k].moved
    BY DEF Returning
  <2>2. k \in 1 .. Len(es) - 1 /\ k \in 1 .. to /\ k + 1 \in 1 .. to
    BY <1>2, <1>5, <2>1
  <2>3. es[k + 1].prev = es[k].lib \/ es[k].moved
    BY <1>1, <2>2 DEF Returning
  <2>4. QED
    BY <1>5, <2>2, <2>3
<1>7. \A k \in 1 .. Len(new) : new[k].lib \in DOMAIN ls /\ new[k].prev \in DOMAIN ls
  BY <1>1, <1>3, <1>5
<1>8. QED
  BY <1>2, <1>4, <1>5, <1>6, <1>7 DEF EvalsOK

-----------------------------------------------------------------------------
(* Every step keeps the invariant. *)

LEMMA Facts ==
  ASSUME IInv
  PROVE  /\ LibsOK(libs) /\ Defined(libs, Uids) /\ lib \in DOMAIN libs
         /\ EvalsOK(evals, libs) /\ HomeLibrary
         /\ Len(evals) \in Nat /\ Len(evals) >= 1 /\ Len(evals) \in 1 .. Len(evals)
         /\ Now = evals[Len(evals)] /\ Now \in Calls
         /\ Now.lib \in DOMAIN libs /\ Now.prev \in DOMAIN libs /\ Now.lib \in Name /\ Now.prev \in Name
         /\ DOMAIN libs \subseteq Name
<1>1. EvalsOK(evals, libs) /\ LibsOK(libs) /\ Defined(libs, Uids) /\ lib \in DOMAIN libs /\ HomeLibrary
  BY DEF IInv, TableInv, CallsInv
<1>2. evals \in Seq(Calls) /\ Len(evals) >= 1 /\ \A k \in 1 .. Len(evals) : evals[k].lib \in DOMAIN libs /\ evals[k].prev \in DOMAIN libs
  BY <1>1 DEF EvalsOK
<1>3. Len(evals) \in Nat /\ Len(evals) \in 1 .. Len(evals)
  BY <1>2, LenProperties
<1>4. evals[Len(evals)] \in Calls
  BY <1>2, <1>3, ElementOfSeq
<1>5. DOMAIN libs \subseteq Name
  BY <1>1 DEF LibsOK, NoSlash
<1>6. QED
  BY <1>1, <1>2, <1>3, <1>4, <1>5 DEF Now

LEMMA MakeKept ==
  ASSUME IInv, pic_make_library
  PROVE  IInv'
<1>1. PICK title \in Titles :
        /\ Quiet /\ Stays /\ Mangles(title) /\ mangle(title) \notin DOMAIN libs
        /\ libs' = Put(libs, mangle(title), NewLibrary)
  BY DEF pic_make_library
<1>2. PICK l, r, f, new : l = mangle(title) /\ r = NewLibrary /\ f = libs /\ new = libs'
  OBVIOUS
<1>3. NoSlash(l)
  <2>1. title \in Seq(Name)
    BY NamesAssumption
  <2>2. QED
    BY <1>1, <1>2, <2>1, MangleIs
<1>4. /\ r = [env |-> << >>, exports |-> << >>] /\ r = [env |-> r.env, exports |-> r.exports]
      /\ DOMAIN r.env = {} /\ DOMAIN r.exports = {}
  BY <1>2 DEF NewLibrary
<1>5. LibsOK(f) /\ Defined(f, Uids) /\ l \notin DOMAIN f /\ new = Put(f, l, r)
  BY <1>1, <1>2, Facts
<1>6. /\ DOMAIN new = DOMAIN f \union {l} /\ new[l] = r
      /\ \A m \in DOMAIN f : new[m] = f[m]
      /\ new = [m \in DOMAIN new |-> new[m]]
  BY <1>5 DEF Put
<1>7. LibsOK(new)
  <2>1. ASSUME NEW m \in DOMAIN new
        PROVE  /\ NoSlash(m)
               /\ new[m] = [env |-> new[m].env, exports |-> new[m].exports]
               /\ new[m].env = [id \in DOMAIN new[m].env |-> new[m].env[id]] /\ DOMAIN new[m].env \subseteq Name
               /\ \A id \in DOMAIN new[m].env : new[m].env[id] \in Name
               /\ \A a \in DOMAIN new[m].exports : new[m].exports[a] \in Name
               /\ IsFiniteSet(DOMAIN new[m].exports) /\ DOMAIN new[m].exports \subseteq Name
    <3>1. CASE m = l
      <4>1. r.env = [id \in DOMAIN r.env |-> r.env[id]]
        BY <1>4
      <4>2. QED
        BY <1>3, <1>4, <1>6, <3>1, <4>1, FS_EmptySet
    <3>2. CASE m \in DOMAIN f
      BY <1>5, <1>6, <3>2 DEF LibsOK
    <3>3. QED
      BY <1>6, <2>1, <3>1, <3>2
  <2>2. QED
    BY <1>6, <2>1 DEF LibsOK
<1>8. Defined(new, Uids)
  <2>1. SUFFICES ASSUME NEW m \in DOMAIN new, NEW id \in DOMAIN new[m].env, new[m].env[id] # Uid(m, id)
                 PROVE  new[m].env[id] \in Uids
    BY DEF Defined
  <2>2. CASE m = l
    BY <1>4, <1>6, <2>1, <2>2
  <2>3. CASE m \in DOMAIN f
    BY <1>5, <1>6, <2>1, <2>3 DEF Defined
  <2>4. QED
    BY <1>6, <2>1, <2>2, <2>3
<1>9. Uids' = Uids
  BY <1>1 DEF Uids, Quiet
<1>10. LibsOK(libs') /\ DOMAIN libs \subseteq DOMAIN libs' /\ Defined(libs', Uids')
  BY <1>2, <1>6, <1>7, <1>8, <1>9
<1>11. QED
  BY <1>1, <1>10, StaysKept

LEMMA ExportKept ==
  ASSUME IInv, library_export
  PROVE  IInv'
<1>1. PICK name \in Symbols, alias \in Symbols :
        Quiet /\ Stays /\ libs' = [libs EXCEPT ![lib].exports = Put(@, alias, name)]
  BY DEF library_export
<1>2. PICK f, new, x, e, l : f = libs /\ new = libs' /\ l = lib /\ x = Put(libs[lib].exports, alias, name) /\ e = libs[lib].env
  OBVIOUS
<1>3. LibsOK(f) /\ Defined(f, Uids) /\ l \in DOMAIN f
  BY <1>2, Facts
<1>4. f = [m \in DOMAIN f |-> f[m]] /\ f[l] = [env |-> e, exports |-> f[l].exports]
  BY <1>2, <1>3 DEF LibsOK
<1>5. PICK r : r = [env |-> e, exports |-> x]
  OBVIOUS
<1>6. r.env = e /\ r.exports = x /\ r = [env |-> r.env, exports |-> r.exports]
  BY <1>5
<1>7. [f[l] EXCEPT !.exports = x] = r
  BY <1>4, <1>5
<1>8. new = [f EXCEPT ![l] = r]
  BY <1>1, <1>2, <1>7
<1>9. DOMAIN new = DOMAIN f /\ new[l] = r /\ \A m \in DOMAIN f : m # l => new[m] = f[m]
  BY <1>3, <1>4, <1>8
<1>10. new = [m \in DOMAIN new |-> new[m]]
  BY <1>4, <1>8, <1>9
<1>11. /\ \A a \in DOMAIN x : x[a] \in Name
       /\ IsFiniteSet(DOMAIN x) /\ DOMAIN x \subseteq Name
  <2>1. PICK y : y = f[l].exports
    OBVIOUS
  <2>2. /\ x = Put(y, alias, name) /\ \A a \in DOMAIN y : y[a] \in Name
        /\ IsFiniteSet(DOMAIN y) /\ DOMAIN y \subseteq Name
    BY <1>2, <1>3, <2>1 DEF LibsOK
  <2>3. name \in Name /\ alias \in Name
    BY NamesAssumption
  <2>4. DOMAIN x = DOMAIN y \union {alias} /\ \A a \in DOMAIN x : x[a] = name \/ (x[a] = y[a] /\ a \in DOMAIN y)
    <3>1. DOMAIN x = DOMAIN y \union {alias}
      BY <2>2 DEF Put
    <3>2. ASSUME NEW a \in DOMAIN x PROVE x[a] = name \/ (x[a] = y[a] /\ a \in DOMAIN y)
      <4>1. x[a] = IF a = alias THEN name ELSE y[a]
        BY <2>2 DEF Put
      <4>2. QED
        BY <3>1, <4>1
    <3>3. QED
      BY <3>1, <3>2
  <2>5. IsFiniteSet(DOMAIN x)
    BY <2>2, <2>4, FS_AddElement
  <2>6. QED
    BY <2>2, <2>3, <2>4, <2>5
<1>12. LibsOK(new)
  <2>1. ASSUME NEW m \in DOMAIN new
        PROVE  /\ NoSlash(m)
               /\ new[m] = [env |-> new[m].env, exports |-> new[m].exports]
               /\ new[m].env = [id \in DOMAIN new[m].env |-> new[m].env[id]] /\ DOMAIN new[m].env \subseteq Name
               /\ \A id \in DOMAIN new[m].env : new[m].env[id] \in Name
               /\ \A a \in DOMAIN new[m].exports : new[m].exports[a] \in Name
               /\ IsFiniteSet(DOMAIN new[m].exports) /\ DOMAIN new[m].exports \subseteq Name
    <3>1. /\ NoSlash(m)
          /\ f[m] = [env |-> f[m].env, exports |-> f[m].exports]
          /\ f[m].env = [id \in DOMAIN f[m].env |-> f[m].env[id]] /\ DOMAIN f[m].env \subseteq Name
          /\ \A id \in DOMAIN f[m].env : f[m].env[id] \in Name
          /\ \A a \in DOMAIN f[m].exports : f[m].exports[a] \in Name
          /\ IsFiniteSet(DOMAIN f[m].exports) /\ DOMAIN f[m].exports \subseteq Name
      BY <1>3, <1>9, <2>1 DEF LibsOK
    <3>2. CASE m = l
      <4>1. new[m].env = f[m].env /\ new[m].exports = x /\ new[m] = r
        BY <1>2, <1>6, <1>9, <3>2
      <4>2. QED
        BY <1>6, <1>11, <3>1, <4>1
    <3>3. CASE m # l
      BY <1>9, <3>1, <3>3
    <3>4. QED
      BY <3>2, <3>3
  <2>2. QED
    BY <1>10, <2>1 DEF LibsOK
<1>13. \A m \in DOMAIN new : new[m].env = f[m].env
  BY <1>2, <1>6, <1>9
<1>14. Defined(new, Uids)
  BY <1>3, <1>9, <1>13 DEF Defined
<1>15. Uids' = Uids
  BY <1>1 DEF Uids, Quiet
<1>16. LibsOK(libs') /\ DOMAIN libs \subseteq DOMAIN libs' /\ Defined(libs', Uids')
  BY <1>2, <1>9, <1>12, <1>14, <1>15
<1>17. QED
  BY <1>1, <1>16, StaysKept

(* What the table gains from a lookup or an import is sound.               *)
LEMMA GainKept ==
  ASSUME IInv, Kept(libs, libs'), globals \union macros \subseteq Uids', Uids \subseteq Uids'
  PROVE  LibsOK(libs') /\ DOMAIN libs \subseteq DOMAIN libs' /\ Defined(libs', Uids')
<1>1. Defined(libs, Uids)
  BY Facts
<1>2. Defined(libs, Uids')
  BY <1>1 DEF Defined
<1>3. PICK u, new : u = Uids' /\ new = libs'
  OBVIOUS
<1>4. Kept(libs, new) /\ globals \union macros \subseteq u /\ Defined(libs, u)
  BY <1>2, <1>3
<1>5. LibsOK(new) /\ DOMAIN libs \subseteq DOMAIN new /\ Defined(new, u)
  BY <1>4 DEF Kept
<1>6. QED
  BY <1>3, <1>5

LEMMA OrderIs ==
  ASSUME NEW S \in SUBSET Name, IsFiniteSet(S), NEW exports \in SetToSeqs(S)
  PROVE  exports \in Seq(Name)
<1>1. PICK n : n = Cardinality(S)
  OBVIOUS
<1>2. n \in Nat
  BY <1>1, FS_CardinalityType
<1>3. exports \in [1 .. n -> S]
  BY <1>1 DEF SetToSeqs
<1>4. exports \in [1 .. n -> Name]
  BY <1>3
<1>5. QED
  BY <1>2, <1>4, ListOf

LEMMA ImportAny ==
  ASSUME IInv, NEW l \in DOMAIN libs, NEW mods, Wellformed(mods), Import(l, mods)
  PROVE  IInv'
<1>1. PICK exports \in SetToSeqs(Exports(l)) : libs' = Imported(l, collect(exports, mods)).libs
  BY DEF Import
<1>2. Quiet /\ Stays
  BY DEF Import
<1>3. LibsOK(libs) /\ lib \in DOMAIN libs
  BY Facts
<1>4. PICK slots, new : slots = collect(exports, mods) /\ new = libs'
  OBVIOUS
<1>5. Len(slots) \in Nat
  <2>1. PICK S : S = Exports(l)
    OBVIOUS
  <2>2. S \in SUBSET Name /\ IsFiniteSet(S)
    BY <1>3, <2>1 DEF LibsOK, Exports
  <2>3. exports \in Seq(Name)
    BY <1>1, <2>1, <2>2, OrderIs
  <2>4. slots \in Seq(SlotOrNot)
    BY <1>4, <2>3, CollectIs
  <2>5. QED
    BY <2>4, Listed
<1>6. Kept(libs, Imported(l, slots).libs)
  BY <1>3, <1>5, ImportedKept
<1>7. Kept(libs, new)
  BY <1>1, <1>4, <1>6
<1>8. Kept(libs, libs')
  BY <1>4, <1>7
<1>9. Uids' = Uids /\ globals \union macros \subseteq Uids
  BY <1>2 DEF Uids, Quiet
<1>10. LibsOK(libs') /\ DOMAIN libs \subseteq DOMAIN libs' /\ Defined(libs', Uids')
  BY <1>8, <1>9, GainKept
<1>11. QED
  BY <1>2, <1>10, StaysKept

LEMMA ImportCases ==
  ASSUME IInv, import \/ pic_import
  PROVE  IInv'
<1>1. CASE pic_import
  <2>1. PICK l \in DOMAIN libs : Import(l, << >>)
    BY <1>1 DEF pic_import
  <2>2. PICK mods : mods = << >>
    OBVIOUS
  <2>3. Wellformed(mods)
    BY <2>2, EmptySeq DEF Wellformed
  <2>4. Import(l, mods)
    BY <2>1, <2>2
  <2>5. QED
    BY <2>3, <2>4, ImportAny
<1>2. CASE import
  <2>1. PICK set \in ImportSets : import_set(set)
    BY <1>2 DEF import
  <2>2. PICK l, mods : l = mangle(set.title) /\ mods = set.mods
    OBVIOUS
  <2>3. l \in DOMAIN libs /\ Import(l, mods)
    BY <2>1, <2>2 DEF import_set
  <2>4. Wellformed(mods)
    BY <2>2, ImportsAssumption DEF Wellformed
  <2>5. QED
    BY <2>3, <2>4, ImportAny
<1>3. QED
  BY <1>1, <1>2

(* A lookup and what it adds to the variables.                             *)
LEMMA LookupIs ==
  ASSUME IInv, NEW l \in DOMAIN libs, NEW name \in Symbols, libs' = pic_find_identifier(libs, l, name),
         globals \union macros \subseteq Uids', Uids \subseteq Uids'
  PROVE  /\ LibsOK(libs') /\ DOMAIN libs \subseteq DOMAIN libs' /\ Defined(libs', Uids')
         /\ Variable(l, name) \in Name
<1>1. LibsOK(libs) /\ name \in Name
  BY Facts, NamesAssumption
<1>2. PICK new : new = pic_find_identifier(libs, l, name)
  OBVIOUS
<1>3. Kept(libs, new) /\ new[l].env[name] \in Name
  BY <1>1, <1>2, FindKept
<1>4. Variable(l, name) \in Name
  BY <1>2, <1>3 DEF Variable
<1>5. Kept(libs, libs')
  BY <1>2, <1>3
<1>6. QED
  BY <1>4, <1>5, GainKept

LEMMA LookupCases ==
  ASSUME IInv, expand_var \/ expand_defmacro \/ pic_define
  PROVE  IInv'
<1>1. Now.lib \in DOMAIN libs
  BY Facts
<1>2. CASE expand_var
  <2>1. PICK name \in Symbols : Quiet /\ Stays /\ libs' = pic_find_identifier(libs, Now.lib, name)
    BY <1>2 DEF expand_var
  <2>2. Uids' = Uids /\ globals \union macros \subseteq Uids
    BY <2>1 DEF Uids, Quiet
  <2>3. LibsOK(libs') /\ DOMAIN libs \subseteq DOMAIN libs' /\ Defined(libs', Uids')
    BY <1>1, <2>1, <2>2, LookupIs
  <2>4. QED
    BY <2>1, <2>3, StaysKept
<1>3. CASE expand_defmacro
  <2>1. PICK name \in Symbols :
          /\ Stays /\ libs' = pic_find_identifier(libs, Now.lib, name)
          /\ macros' = macros \union {Variable(Now.lib, name)}
          /\ globals' = globals /\ shadowed' = shadowed
    BY <1>3 DEF expand_defmacro
  <2>2. Uids \subseteq Uids' /\ globals \union macros \subseteq Uids'
    BY <2>1 DEF Uids
  <2>3. LibsOK(libs') /\ DOMAIN libs \subseteq DOMAIN libs' /\ Defined(libs', Uids')
    BY <1>1, <2>1, <2>2, LookupIs
  <2>4. QED
    BY <2>1, <2>3, StaysKept
<1>4. CASE pic_define
  <2>1. PICK l \in DOMAIN libs, name \in Symbols :
          /\ Stays /\ libs' = pic_find_identifier(libs, l, name)
          /\ globals' = globals \union {Variable(l, name)}
          /\ macros' = macros /\ shadowed' = shadowed
    BY <1>4 DEF pic_define
  <2>2. Uids \subseteq Uids' /\ globals \union macros \subseteq Uids'
    BY <2>1 DEF Uids
  <2>3. LibsOK(libs') /\ DOMAIN libs \subseteq DOMAIN libs' /\ Defined(libs', Uids')
    BY <2>1, <2>2, LookupIs
  <2>4. QED
    BY <2>1, <2>3, StaysKept
<1>5. QED
  BY <1>2, <1>3, <1>4

(* The call in progress is written to.                                     *)
LEMMA TopKept ==
  ASSUME IInv, NEW c \in Calls, evals' = [evals EXCEPT ![Len(evals)] = c],
         c.lib = Now.lib, c.prev = Now.prev,
         lib' \in DOMAIN libs', DOMAIN libs \subseteq DOMAIN libs', lib' = c.lib \/ c.moved
  PROVE  CallsInv'
<1>1. EvalsOK(evals, libs) /\ Now = evals[Len(evals)]
  BY Facts
<1>2. PICK es, new, ls : es = evals /\ new = evals' /\ ls = libs'
  OBVIOUS
<1>3. EvalsOK(es, ls)
  BY <1>1, <1>2, MoreLibs
<1>4. new = Topped(es, c) /\ c.lib = es[Len(es)].lib /\ c.prev = es[Len(es)].prev
  BY <1>1, <1>2 DEF Topped
<1>5. EvalsOK(new, ls) /\ Len(new) = Len(es) /\ new[Len(new)] = c
  BY <1>3, <1>4, TopIs
<1>6. EvalsOK(evals', libs') /\ Now' = c
  BY <1>2, <1>5 DEF Now
<1>7. HomeLibrary'
  BY <1>6 DEF HomeLibrary
<1>8. QED
  BY <1>6, <1>7 DEF CallsInv

LEMMA DefineKept ==
  ASSUME IInv, expand_define
  PROVE  IInv'
<1>0. PICK name \in Symbols : \E uid \in {Variable(Now.lib, name)} :
        /\ libs' = pic_find_identifier(libs, Now.lib, name)
        /\ macros' = macros \ {uid} /\ shadowed' = shadowed \union (macros \intersect {uid})
        /\ evals' = [evals EXCEPT ![Len(evals)].defs = @ \union {uid}]
        /\ lib' = lib /\ globals' = globals
  BY DEF expand_define
<1>1. PICK uid \in {Variable(Now.lib, name)} :
        /\ uid = Variable(Now.lib, name)
        /\ libs' = pic_find_identifier(libs, Now.lib, name)
        /\ macros' = macros \ {uid} /\ shadowed' = shadowed \union (macros \intersect {uid})
        /\ evals' = [evals EXCEPT ![Len(evals)].defs = @ \union {uid}]
        /\ lib' = lib /\ globals' = globals
  BY <1>0
<1>2. Now.lib \in DOMAIN libs /\ Now \in Calls /\ Now = evals[Len(evals)] /\ HomeLibrary /\ lib \in DOMAIN libs
  BY Facts
<1>3. Uids \subseteq Uids' /\ globals \union macros \subseteq Uids'
  BY <1>1 DEF Uids
<1>4. /\ LibsOK(libs') /\ DOMAIN libs \subseteq DOMAIN libs' /\ Defined(libs', Uids')
      /\ Variable(Now.lib, name) \in Name
  BY <1>1, <1>2, <1>3, LookupIs
<1>5. PICK n, c : n = Now /\ c = [n EXCEPT !.defs = n.defs \union {uid}]
  OBVIOUS
<1>6. c \in Calls /\ c.lib = n.lib /\ c.prev = n.prev /\ c.moved = n.moved
  <2>1. n \in Calls /\ uid \in Name
    BY <1>1, <1>2, <1>4, <1>5
  <2>2. QED
    BY <1>5, <2>1 DEF Calls
<1>7. evals' = [evals EXCEPT ![Len(evals)] = c]
  BY <1>1, <1>2, <1>5
<1>8. lib' = c.lib \/ c.moved
  BY <1>1, <1>2, <1>5, <1>6 DEF HomeLibrary
<1>9. CallsInv'
  BY <1>1, <1>2, <1>4, <1>5, <1>6, <1>7, <1>8, TopKept
<1>10. QED
  BY <1>4, <1>9 DEF IInv, TableInv

LEMMA CompileKept ==
  ASSUME IInv, pic_compile
  PROVE  IInv'
<1>1. /\ globals' = globals \union Now.defs /\ shadowed' = shadowed \ Now.defs
      /\ evals' = [evals EXCEPT ![Len(evals)] = [Call(Now.lib, Now.prev, "run") EXCEPT !.moved = Now.moved]]
      /\ libs' = libs /\ lib' = lib /\ macros' = macros
  BY DEF pic_compile
<1>2. Now \in Calls /\ HomeLibrary /\ lib \in DOMAIN libs /\ LibsOK(libs) /\ Defined(libs, Uids)
  BY Facts
<1>3. PICK n, c : n = Now /\ c = [Call(n.lib, n.prev, "run") EXCEPT !.moved = n.moved]
  OBVIOUS
<1>4. c \in Calls /\ c.lib = n.lib /\ c.prev = n.prev /\ c.moved = n.moved
  <2>1. n \in Calls
    BY <1>2, <1>3
  <2>2. c = [lib |-> n.lib, prev |-> n.prev, phase |-> "run", defs |-> {}, moved |-> n.moved]
    BY <1>3 DEF Call
  <2>3. QED
    BY <2>1, <2>2 DEF Calls
<1>5. lib' = c.lib \/ c.moved
  BY <1>1, <1>2, <1>3, <1>4 DEF HomeLibrary
<1>6. CallsInv'
  BY <1>1, <1>2, <1>3, <1>4, <1>5, TopKept
<1>7. Uids \subseteq Uids'
  BY <1>1 DEF Uids
<1>8. LibsOK(libs') /\ Defined(libs', Uids')
  BY <1>1, <1>2, <1>7 DEF Defined
<1>9. QED
  BY <1>6, <1>8 DEF IInv, TableInv

LEMMA InLibraryKept ==
  ASSUME IInv, pic_in_library
  PROVE  IInv'
<1>1. /\ lib' \in DOMAIN libs /\ Quiet /\ libs' = libs
      /\ evals' = [evals EXCEPT ![Len(evals)].moved = TRUE]
  BY DEF pic_in_library
<1>2. Now \in Calls /\ LibsOK(libs) /\ Defined(libs, Uids) /\ Now = evals[Len(evals)]
  BY Facts
<1>3. PICK n, c : n = Now /\ c = [n EXCEPT !.moved = TRUE]
  OBVIOUS
<1>4. c \in Calls /\ c.lib = n.lib /\ c.prev = n.prev /\ c.moved
  <2>1. n \in Calls
    BY <1>2, <1>3
  <2>2. QED
    BY <1>3, <2>1 DEF Calls
<1>5. evals' = [evals EXCEPT ![Len(evals)] = c]
  BY <1>1, <1>2, <1>3
<1>6. CallsInv'
  BY <1>1, <1>3, <1>4, <1>5, TopKept
<1>7. Uids' = Uids
  BY <1>1 DEF Uids, Quiet
<1>8. QED
  BY <1>1, <1>2, <1>6, <1>7 DEF IInv, TableInv

LEMMA EvalKept ==
  ASSUME IInv, pic_eval
  PROVE  IInv'
<1>1. PICK l \in DOMAIN libs :
        Quiet /\ lib' = l /\ evals' = Append(evals, Call(l, lib, "expand")) /\ libs' = libs
  BY DEF pic_eval
<1>2. /\ EvalsOK(evals, libs) /\ HomeLibrary /\ lib \in DOMAIN libs /\ Now = evals[Len(evals)]
      /\ LibsOK(libs) /\ Defined(libs, Uids) /\ DOMAIN libs \subseteq Name
  BY Facts
<1>3. PICK c, es, new, ls : c = Call(l, lib, "expand") /\ es = evals /\ new = evals' /\ ls = libs
  OBVIOUS
<1>4. c \in Calls /\ c.lib = l /\ c.prev = lib
  <2>1. l \in Name /\ lib \in Name
    BY <1>2
  <2>2. QED
    BY <1>3, <2>1 DEF Call, Calls
<1>5. c.prev = es[Len(es)].lib \/ es[Len(es)].moved
  BY <1>2, <1>3, <1>4 DEF HomeLibrary
<1>6. EvalsOK(new, ls) /\ new[Len(new)] = c
  <2>1. EvalsOK(es, ls) /\ new = Append(es, c)
    BY <1>1, <1>2, <1>3
  <2>2. c.lib \in DOMAIN ls /\ c.prev \in DOMAIN ls
    BY <1>2, <1>3, <1>4
  <2>3. QED
    BY <1>4, <1>5, <2>1, <2>2, PushIs
<1>7. EvalsOK(evals', libs') /\ Now' = c
  BY <1>1, <1>3, <1>6 DEF Now
<1>8. HomeLibrary' /\ lib' \in DOMAIN libs'
  BY <1>1, <1>4, <1>7 DEF HomeLibrary
<1>9. Uids' = Uids
  BY <1>1 DEF Uids, Quiet
<1>10. QED
  BY <1>1, <1>2, <1>7, <1>8, <1>9 DEF IInv, TableInv, CallsInv

(* Return and Catch: the library before is that of the call outside.       *)
LEMMA RestoredKept ==
  ASSUME IInv, Len(evals) > 1, Restored, Quiet, libs' = libs
  PROVE  IInv'
<1>1. /\ EvalsOK(evals, libs) /\ Len(evals) \in Nat /\ Now = evals[Len(evals)]
      /\ Now.prev \in DOMAIN libs /\ LibsOK(libs) /\ Defined(libs, Uids)
  BY Facts
<1>2. PICK es, new, ls, to : es = evals /\ new = evals' /\ ls = libs /\ to = Len(evals) - 1
  OBVIOUS
<1>3. to \in 1 .. Len(es) /\ to \in 1 .. Len(es) - 1 /\ to + 1 = Len(es)
  BY <1>1, <1>2
<1>4. new = SubSeq(es, 1, to)
  BY <1>2 DEF Restored, Front
<1>5. EvalsOK(new, ls) /\ Len(new) = to /\ \A k \in 1 .. to : new[k] = es[k]
  <2>1. EvalsOK(es, ls)
    BY <1>1, <1>2
  <2>2. QED
    BY <1>3, <1>4, <2>1, PopIs
<1>6. es[to + 1].prev = es[to].lib \/ es[to].moved
  BY <1>1, <1>2, <1>3 DEF EvalsOK, Returning
<1>7. new[Len(new)] = es[to]
  BY <1>3, <1>5
<1>8. EvalsOK(evals', libs') /\ Now' = es[to] /\ lib' = es[to + 1].prev
  BY <1>1, <1>2, <1>3, <1>5, <1>7 DEF Now, Restored
<1>9. HomeLibrary' /\ lib' \in DOMAIN libs'
  BY <1>1, <1>2, <1>3, <1>6, <1>8 DEF HomeLibrary
<1>10. Uids' = Uids
  BY DEF Uids, Quiet
<1>11. QED
  BY <1>1, <1>8, <1>9, <1>10 DEF IInv, TableInv, CallsInv

LEMMA EscapeKept ==
  ASSUME IInv, Escape
  PROVE  IInv'
<1>1. PICK to \in 1 .. Len(evals) - 1 :
        /\ Quiet /\ libs' = libs /\ lib' = lib
        /\ evals' = [SubSeq(evals, 1, to) EXCEPT ![to].moved = TRUE]
  BY DEF Escape
<1>2. /\ EvalsOK(evals, libs) /\ Len(evals) \in Nat /\ lib \in DOMAIN libs
      /\ LibsOK(libs) /\ Defined(libs, Uids)
  BY Facts
<1>3. PICK es, new, ls, cut : es = evals /\ new = evals' /\ ls = libs /\ cut = SubSeq(evals, 1, to)
  OBVIOUS
<1>4. to \in 1 .. Len(es) /\ to \in 1 .. to
  BY <1>2, <1>3
<1>5. EvalsOK(cut, ls) /\ Len(cut) = to /\ \A k \in 1 .. to : cut[k] = es[k]
  BY <1>2, <1>3, <1>4, PopIs
<1>6. PICK n, c : n = cut[to] /\ c = [n EXCEPT !.moved = TRUE]
  OBVIOUS
<1>7. c \in Calls /\ c.lib = n.lib /\ c.prev = n.prev /\ c.moved
  <2>1. n \in Calls
    BY <1>4, <1>5, <1>6, ElementOfSeq DEF EvalsOK
  <2>2. QED
    BY <1>6, <2>1 DEF Calls
<1>8. new = Topped(cut, c)
  BY <1>1, <1>3, <1>5, <1>6 DEF Topped
<1>9. EvalsOK(new, ls) /\ Len(new) = Len(cut) /\ new[Len(new)] = c
  <2>1. EvalsOK(cut, ls) /\ c.lib = cut[Len(cut)].lib /\ c.prev = cut[Len(cut)].prev
    BY <1>5, <1>6, <1>7
  <2>2. QED
    BY <1>7, <1>8, <2>1, TopIs
<1>10. EvalsOK(evals', libs') /\ Now' = c
  BY <1>1, <1>3, <1>9 DEF Now
<1>11. HomeLibrary' /\ lib' \in DOMAIN libs'
  BY <1>1, <1>2, <1>7, <1>10 DEF HomeLibrary
<1>12. Uids' = Uids
  BY <1>1 DEF Uids, Quiet
<1>13. QED
  BY <1>1, <1>2, <1>10, <1>11, <1>12 DEF IInv, TableInv, CallsInv

LEMMA SameKept ==
  ASSUME IInv, Quiet, Stays, libs' = libs
  PROVE  IInv'
<1>1. LibsOK(libs) /\ Defined(libs, Uids)
  BY Facts
<1>2. Uids' = Uids
  BY DEF Uids, Quiet
<1>3. LibsOK(libs') /\ DOMAIN libs \subseteq DOMAIN libs' /\ Defined(libs', Uids')
  BY <1>1, <1>2
<1>4. QED
  BY <1>3, StaysKept

LEMMA StepInv == IInv /\ [Next]_vars => IInv'
<1>1. SUFFICES ASSUME IInv, [Next]_vars PROVE IInv'
  OBVIOUS
<1>2. CASE pic_make_library
  BY <1>1, <1>2, MakeKept
<1>3. CASE pic_in_library
  BY <1>1, <1>3, InLibraryKept
<1>4. CASE library_export
  BY <1>1, <1>4, ExportKept
<1>5. CASE import \/ pic_import
  BY <1>1, <1>5, ImportCases
<1>6. CASE expand_var \/ expand_defmacro \/ pic_define
  BY <1>1, <1>6, LookupCases
<1>7. CASE expand_define
  BY <1>1, <1>7, DefineKept
<1>8. CASE pic_compile
  BY <1>1, <1>8, CompileKept
<1>9. CASE pic_eval
  BY <1>1, <1>9, EvalKept
<1>10. CASE Return
  BY <1>1, <1>10, RestoredKept DEF Return
<1>11. CASE Catch
  BY <1>1, <1>11, RestoredKept DEF Catch
<1>12. CASE Error
  BY <1>1, <1>12, SameKept DEF Error
<1>13. CASE Handled
  BY <1>1, <1>13, SameKept DEF Handled
<1>14. CASE Escape
  BY <1>1, <1>14, EscapeKept
<1>15. CASE UNCHANGED vars
  BY <1>1, <1>15, SameKept DEF vars, Quiet, Stays
<1>16. QED
  BY <1>1, <1>2, <1>3, <1>4, <1>5, <1>6, <1>7, <1>8, <1>9, <1>10, <1>11, <1>12, <1>13, <1>14, <1>15 DEF Next

(* Of any program: the table, what imported names stand for and where the  *)
(* calls of pic_eval go back to.                                           *)
THEOREM Invariant == Spec => []IInv
<1>1. Init => IInv
  BY InitInv
<1>2. IInv /\ [Next]_vars => IInv'
  BY StepInv
<1>3. QED
  BY <1>1, <1>2, PTL DEF Spec

(* However deep calls of pic_eval are in each other, and however they end, *)
(* the program that one of them runs has its own library as the current    *)
(* one (eval.c:1102-1115), unless it has moved.                            *)
THEOREM Home == Spec => []HomeLibrary
<1>1. IInv => HomeLibrary
  BY DEF IInv, CallsInv
<1>2. QED
  BY <1>1, Invariant, PTL

(* No two libraries make the same variable, whatever names programs write: *)
(* what comes before the first slash of a uid is the library (lib.c:91),   *)
(* because mangle lets no slash into a library's name (boot.c:546).        *)
THEOREM Own == Spec => []OwnVariables
<1>1. IInv => OwnVariables
  <2>1. SUFFICES ASSUME IInv, NEW l \in DOMAIN libs, NEW m \in DOMAIN libs, l # m,
                        NEW i \in DOMAIN libs[l].env, NEW j \in DOMAIN libs[m].env
                 PROVE  Uid(l, i) # Uid(m, j)
    BY DEF OwnVariables
  <2>2. LibsOK(libs)
    BY <2>1, Facts
  <2>3. NoSlash(l) /\ NoSlash(m) /\ i \in Name /\ j \in Name
    BY <2>1, <2>2 DEF LibsOK
  <2>4. QED
    BY <2>1, <2>3, UidApart
<1>2. QED
  BY <1>1, Invariant, PTL

(* A name that stands for another library's variable stands for one that   *)
(* is defined, or was until a define took its macro (lib.c:218, 294).      *)
THEOREM Imports == Spec => []ImportsDefined
<1>1. IInv => ImportsDefined
  BY DEF IInv, TableInv, Defined, ImportsDefined, Uids
<1>2. QED
  BY <1>1, Invariant, PTL

-----------------------------------------------------------------------------
(* Every variable was made for a name of a library. *)

(* Every variable there is, or will be when its definition is compiled, was *)
(* made for a name in one of the libraries.                                *)
MadeInv ==
  /\ MadeOK(libs)
  /\ \A uid \in globals \union macros : Made(libs, uid)
  /\ \A k \in 1 .. Len(evals) : \A uid \in evals[k].defs : Made(libs, uid)

(* A step keeps it that makes every variable it defines.                   *)
LEMMA MadeStays ==
  ASSUME MadeInv, More(libs, libs'),
         \A uid \in (globals \union macros)' : uid \in globals \union macros \/ Made(libs', uid),
         \A k \in 1 .. Len(evals') : \A uid \in evals'[k].defs :
           Made(libs', uid) \/ \E j \in 1 .. Len(evals) : uid \in evals[j].defs
  PROVE  MadeInv'
<1>1. MadeOK(libs')
  BY DEF MadeInv, More
<1>2. ASSUME NEW uid \in (globals \union macros)' PROVE Made(libs', uid)
  BY <1>2 DEF MadeInv, More
<1>3. ASSUME NEW k \in 1 .. Len(evals'), NEW uid \in evals'[k].defs PROVE Made(libs', uid)
  BY <1>3 DEF MadeInv, More
<1>4. QED
  BY <1>1, <1>2, <1>3 DEF MadeInv

(* A table whose libraries keep their names, or get more.                  *)
LEMMA MoreIs ==
  ASSUME NEW ls, NEW new, DOMAIN ls \subseteq DOMAIN new,
         \A l \in DOMAIN ls : new[l].env = ls[l].env,
         \A l \in DOMAIN new \ DOMAIN ls : DOMAIN new[l].env = {}
  PROVE  More(ls, new)
<1>1. ASSUME NEW u, Made(ls, u) PROVE Made(new, u)
  BY <1>1 DEF Made
<1>2. ASSUME MadeOK(ls), NEW l \in DOMAIN new, NEW id \in DOMAIN new[l].env PROVE Made(new, new[l].env[id])
  <2>1. l \in DOMAIN ls /\ new[l].env = ls[l].env
    BY <1>2
  <2>2. Made(ls, ls[l].env[id])
    BY <1>2, <2>1 DEF MadeOK
  <2>3. QED
    BY <1>1, <2>1, <2>2
<1>3. MadeOK(ls) => MadeOK(new)
  BY <1>2 DEF MadeOK
<1>4. QED
  BY <1>1, <1>3 DEF More

(* So does one that defines nothing and puts nothing off.                  *)
LEMMA MadeSame ==
  ASSUME IInv, MadeInv, More(libs, libs'), Quiet,
         \A k \in 1 .. Len(evals') : evals'[k].defs = {} \/ \E j \in 1 .. Len(evals) : evals'[k].defs = evals[j].defs
  PROVE  MadeInv'
<1>1. (globals \union macros)' = globals \union macros
  BY DEF Quiet
<1>2. ASSUME NEW k \in 1 .. Len(evals'), NEW uid \in evals'[k].defs
      PROVE  \E j \in 1 .. Len(evals) : uid \in evals[j].defs
  BY <1>2
<1>3. QED
  BY <1>1, <1>2, MadeStays

(* The steps, one after the other.                                         *)
LEMMA MadeMake ==
  ASSUME IInv, MadeInv, pic_make_library
  PROVE  MadeInv'
<1>1. PICK title \in Titles :
        /\ Quiet /\ Stays /\ mangle(title) \notin DOMAIN libs
        /\ libs' = Put(libs, mangle(title), NewLibrary)
  BY DEF pic_make_library
<1>2. PICK l, r, f, new : l = mangle(title) /\ r = NewLibrary /\ f = libs /\ new = libs'
  OBVIOUS
<1>3. l \notin DOMAIN f /\ new = Put(f, l, r)
  BY <1>1, <1>2
<1>4. DOMAIN new = DOMAIN f \union {l} /\ new[l] = r /\ \A m \in DOMAIN f : new[m] = f[m]
  BY <1>3 DEF Put
<1>5. DOMAIN r.env = {}
  BY <1>2 DEF NewLibrary
<1>6. More(f, new)
  <2>1. /\ DOMAIN f \subseteq DOMAIN new
        /\ \A m \in DOMAIN f : new[m].env = f[m].env
        /\ \A m \in DOMAIN new \ DOMAIN f : DOMAIN new[m].env = {}
    BY <1>4, <1>5
  <2>2. QED
    BY <2>1, MoreIs
<1>7. More(libs, libs')
  BY <1>2, <1>6
<1>8. QED
  BY <1>1, <1>7, MadeSame DEF Stays

LEMMA MadeExport ==
  ASSUME IInv, MadeInv, library_export
  PROVE  MadeInv'
<1>1. PICK name \in Symbols, alias \in Symbols :
        Quiet /\ Stays /\ libs' = [libs EXCEPT ![lib].exports = Put(@, alias, name)]
  BY DEF library_export
<1>2. PICK f, new, x, l : f = libs /\ new = libs' /\ l = lib /\ x = Put(libs[lib].exports, alias, name)
  OBVIOUS
<1>3. LibsOK(f) /\ l \in DOMAIN f
  BY <1>2, Facts
<1>4. f = [m \in DOMAIN f |-> f[m]] /\ f[l] = [env |-> f[l].env, exports |-> f[l].exports]
  BY <1>3 DEF LibsOK
<1>5. new = [f EXCEPT ![l] = [f[l] EXCEPT !.exports = x]]
  BY <1>1, <1>2
<1>6. [f[l] EXCEPT !.exports = x].env = f[l].env
  BY <1>4
<1>7. DOMAIN new = DOMAIN f /\ \A m \in DOMAIN f : new[m].env = f[m].env
  BY <1>3, <1>4, <1>5, <1>6
<1>8. More(f, new)
  BY <1>7, MoreIs
<1>9. More(libs, libs')
  BY <1>2, <1>8
<1>10. QED
  BY <1>1, <1>9, MadeSame DEF Stays

LEMMA ImportMore ==
  ASSUME IInv, NEW l \in DOMAIN libs, NEW mods, Wellformed(mods), Import(l, mods)
  PROVE  More(libs, libs') /\ Quiet /\ Stays
<1>1. PICK exports \in SetToSeqs(Exports(l)) : libs' = Imported(l, collect(exports, mods)).libs
  BY DEF Import
<1>2. Quiet /\ Stays
  BY DEF Import
<1>3. LibsOK(libs) /\ lib \in DOMAIN libs
  BY Facts
<1>4. exports \in Seq(Name)
  <2>1. PICK S : S = Exports(l)
    OBVIOUS
  <2>2. S \in SUBSET Name /\ IsFiniteSet(S)
    BY <1>3, <2>1 DEF LibsOK, Exports
  <2>3. QED
    BY <1>1, <2>1, <2>2, OrderIs
<1>5. PICK slots, new : slots = collect(exports, mods) /\ new = libs'
  OBVIOUS
<1>6. Len(slots) \in Nat
  <2>1. slots \in Seq(SlotOrNot)
    BY <1>4, <1>5, CollectIs
  <2>2. QED
    BY <2>1, Listed
<1>7. Kept(libs, Imported(l, slots).libs)
  BY <1>3, <1>6, ImportedKept
<1>8. Kept(libs, new)
  BY <1>1, <1>5, <1>7
<1>9. QED
  BY <1>2, <1>5, <1>8 DEF Kept

LEMMA MadeImport ==
  ASSUME IInv, MadeInv, import \/ pic_import
  PROVE  MadeInv'
<1>1. \E l \in DOMAIN libs : \E mods : Wellformed(mods) /\ Import(l, mods)
  <2>1. CASE pic_import
    <3>1. PICK l \in DOMAIN libs : Import(l, << >>)
      BY <2>1 DEF pic_import
    <3>2. PICK mods : mods = << >>
      OBVIOUS
    <3>3. Wellformed(mods)
      BY <3>2, EmptySeq DEF Wellformed
    <3>4. QED
      BY <3>1, <3>2, <3>3
  <2>2. CASE import
    <3>1. PICK set \in ImportSets : import_set(set)
      BY <2>2 DEF import
    <3>2. PICK l, mods : l = mangle(set.title) /\ mods = set.mods
      OBVIOUS
    <3>3. l \in DOMAIN libs /\ Import(l, mods)
      BY <3>1, <3>2 DEF import_set
    <3>4. Wellformed(mods)
      BY <3>2, ImportsAssumption DEF Wellformed
    <3>5. QED
      BY <3>3, <3>4
  <2>3. QED
    BY <2>1, <2>2
<1>2. More(libs, libs') /\ Quiet /\ Stays
  BY <1>1, ImportMore
<1>3. QED
  BY <1>2, MadeSame DEF Stays

(* The variable that a lookup finds is one that was made.                  *)
LEMMA LookupMade ==
  ASSUME IInv, MadeInv, NEW l \in DOMAIN libs, NEW name \in Symbols, libs' = pic_find_identifier(libs, l, name)
  PROVE  More(libs, libs') /\ Made(libs', Variable(l, name))
<1>1. LibsOK(libs) /\ name \in Name
  BY Facts, NamesAssumption
<1>2. PICK new, uid : new = pic_find_identifier(libs, l, name) /\ uid = Variable(l, name)
  OBVIOUS
<1>3. Kept(libs, new) /\ DOMAIN new = DOMAIN libs /\ name \in DOMAIN new[l].env
  BY <1>1, <1>2, FindKept
<1>4. uid = new[l].env[name]
  BY <1>2 DEF Variable
<1>5. More(libs, new) /\ MadeOK(new)
  BY <1>3 DEF Kept, More, MadeInv
<1>6. Made(new, uid)
  BY <1>3, <1>4, <1>5 DEF MadeOK
<1>7. QED
  BY <1>2, <1>5, <1>6

LEMMA MadeLookups ==
  ASSUME IInv, MadeInv, expand_var \/ expand_defmacro \/ pic_define
  PROVE  MadeInv'
<1>1. Now.lib \in DOMAIN libs
  BY Facts
<1>2. CASE expand_var
  <2>1. PICK name \in Symbols : Quiet /\ Stays /\ libs' = pic_find_identifier(libs, Now.lib, name)
    BY <1>2 DEF expand_var
  <2>2. More(libs, libs')
    BY <1>1, <2>1, LookupMade
  <2>3. QED
    BY <2>1, <2>2, MadeSame DEF Stays
<1>3. CASE expand_defmacro
  <2>1. PICK name \in Symbols :
          /\ Stays /\ libs' = pic_find_identifier(libs, Now.lib, name)
          /\ macros' = macros \union {Variable(Now.lib, name)}
          /\ globals' = globals /\ shadowed' = shadowed
    BY <1>3 DEF expand_defmacro
  <2>2. More(libs, libs') /\ Made(libs', Variable(Now.lib, name))
    BY <1>1, <2>1, LookupMade
  <2>3. \A uid \in (globals \union macros)' : uid \in globals \union macros \/ Made(libs', uid)
    BY <2>1, <2>2
  <2>4. \A k \in 1 .. Len(evals') : \A uid \in evals'[k].defs : \E j \in 1 .. Len(evals) : uid \in evals[j].defs
    BY <2>1 DEF Stays
  <2>5. QED
    BY <2>2, <2>3, <2>4, MadeStays
<1>4. CASE pic_define
  <2>1. PICK l \in DOMAIN libs, name \in Symbols :
          /\ Stays /\ libs' = pic_find_identifier(libs, l, name)
          /\ globals' = globals \union {Variable(l, name)}
          /\ macros' = macros /\ shadowed' = shadowed
    BY <1>4 DEF pic_define
  <2>2. More(libs, libs') /\ Made(libs', Variable(l, name))
    BY <2>1, LookupMade
  <2>3. \A uid \in (globals \union macros)' : uid \in globals \union macros \/ Made(libs', uid)
    BY <2>1, <2>2
  <2>4. \A k \in 1 .. Len(evals') : \A uid \in evals'[k].defs : \E j \in 1 .. Len(evals) : uid \in evals[j].defs
    BY <2>1 DEF Stays
  <2>5. QED
    BY <2>2, <2>3, <2>4, MadeStays
<1>5. QED
  BY <1>2, <1>3, <1>4

(* The calls when the last of them is another than before.                 *)
LEMMA ToppedAt ==
  ASSUME NEW es \in Seq(Calls), Len(es) >= 1, NEW c \in Calls, NEW new, new = Topped(es, c)
  PROVE  Len(new) = Len(es) /\ \A j \in 1 .. Len(es) : new[j] = IF j = Len(es) THEN c ELSE es[j]
<1>1. Len(es) \in Nat /\ Len(es) \in 1 .. Len(es)
  BY LenProperties
<1>2. QED
  BY <1>1, ExceptSeq DEF Topped

LEMMA MadeDefine ==
  ASSUME IInv, MadeInv, expand_define
  PROVE  MadeInv'
<1>0. PICK name \in Symbols : \E uid \in {Variable(Now.lib, name)} :
        /\ libs' = pic_find_identifier(libs, Now.lib, name)
        /\ macros' = macros \ {uid} /\ globals' = globals
        /\ evals' = [evals EXCEPT ![Len(evals)].defs = @ \union {uid}]
  BY DEF expand_define
<1>1. PICK uid \in {Variable(Now.lib, name)} :
        /\ uid = Variable(Now.lib, name)
        /\ libs' = pic_find_identifier(libs, Now.lib, name)
        /\ macros' = macros \ {uid} /\ globals' = globals
        /\ evals' = [evals EXCEPT ![Len(evals)].defs = @ \union {uid}]
  BY <1>0
<1>2. /\ Now.lib \in DOMAIN libs /\ Now \in Calls /\ Now = evals[Len(evals)]
      /\ Len(evals) >= 1 /\ Len(evals) \in 1 .. Len(evals) /\ evals \in Seq(Calls)
  BY Facts DEF EvalsOK
<1>3. More(libs, libs') /\ Made(libs', uid)
  BY <1>1, <1>2, LookupMade
<1>4. uid \in Name
  <2>1. LibsOK(libs) /\ name \in Name
    BY Facts, NamesAssumption
  <2>2. PICK new : new = pic_find_identifier(libs, Now.lib, name)
    OBVIOUS
  <2>3. new[Now.lib].env[name] \in Name
    BY <1>2, <2>1, <2>2, FindKept
  <2>4. QED
    BY <1>1, <2>2, <2>3 DEF Variable
<1>5. PICK n, c, es, new : n = Now /\ c = [n EXCEPT !.defs = n.defs \union {uid}] /\ es = evals /\ new = evals'
  OBVIOUS
<1>6. c \in Calls /\ c.defs = n.defs \union {uid}
  <2>1. n \in Calls
    BY <1>2, <1>5
  <2>2. QED
    BY <1>4, <1>5, <2>1 DEF Calls
<1>7. new = Topped(es, c)
  BY <1>1, <1>2, <1>5 DEF Topped
<1>8. Len(new) = Len(es) /\ \A j \in 1 .. Len(es) : new[j] = IF j = Len(es) THEN c ELSE es[j]
  <2>1. es \in Seq(Calls) /\ Len(es) >= 1
    BY <1>2, <1>5
  <2>2. QED
    BY <1>6, <1>7, <2>1, ToppedAt
<1>9. ASSUME NEW k \in 1 .. Len(evals'), NEW u \in evals'[k].defs
      PROVE  Made(libs', u) \/ \E j \in 1 .. Len(evals) : u \in evals[j].defs
  <2>1. CASE u = uid
    BY <1>3, <2>1
  <2>2. CASE u # uid
    <3>1. k \in 1 .. Len(es) /\ u \in (IF k = Len(es) THEN c ELSE es[k]).defs
      BY <1>5, <1>8, <1>9
    <3>2. es[Len(es)] = n
      BY <1>2, <1>5
    <3>3. u \in es[k].defs
      BY <1>6, <2>2, <3>1, <3>2
    <3>4. QED
      BY <1>5, <3>1, <3>3
  <2>3. QED
    BY <2>1, <2>2
<1>10. \A u \in (globals \union macros)' : u \in globals \union macros
  BY <1>1
<1>11. QED
  BY <1>3, <1>9, <1>10, MadeStays

LEMMA MadeCompile ==
  ASSUME IInv, MadeInv, pic_compile
  PROVE  MadeInv'
<1>1. /\ globals' = globals \union Now.defs /\ macros' = macros /\ libs' = libs
      /\ evals' = [evals EXCEPT ![Len(evals)] = [Call(Now.lib, Now.prev, "run") EXCEPT !.moved = Now.moved]]
  BY DEF pic_compile
<1>2. /\ Now \in Calls /\ Now = evals[Len(evals)]
      /\ Len(evals) >= 1 /\ Len(evals) \in 1 .. Len(evals) /\ evals \in Seq(Calls)
  BY Facts DEF EvalsOK
<1>3. PICK n, c, es, new :
        n = Now /\ c = [Call(n.lib, n.prev, "run") EXCEPT !.moved = n.moved] /\ es = evals /\ new = evals'
  OBVIOUS
<1>4. c \in Calls /\ c.defs = {}
  <2>1. n \in Calls
    BY <1>2, <1>3
  <2>2. c = [lib |-> n.lib, prev |-> n.prev, phase |-> "run", defs |-> {}, moved |-> n.moved]
    BY <1>3 DEF Call
  <2>3. QED
    BY <2>1, <2>2 DEF Calls
<1>5. Len(new) = Len(es) /\ \A j \in 1 .. Len(es) : new[j] = IF j = Len(es) THEN c ELSE es[j]
  <2>1. es \in Seq(Calls) /\ Len(es) >= 1
    BY <1>2, <1>3
  <2>2. new = Topped(es, c)
    BY <1>1, <1>3 DEF Topped
  <2>3. QED
    BY <1>4, <2>1, <2>2, ToppedAt
<1>6. ASSUME NEW k \in 1 .. Len(evals'), NEW u \in evals'[k].defs
      PROVE  \E j \in 1 .. Len(evals) : u \in evals[j].defs
  <2>1. k \in 1 .. Len(es) /\ u \in es[k].defs
    BY <1>3, <1>4, <1>5, <1>6
  <2>2. QED
    BY <1>3, <2>1
<1>7. \A u \in Now.defs : Made(libs, u)
  BY <1>2 DEF MadeInv
<1>8. \A u \in (globals \union macros)' : u \in globals \union macros \/ Made(libs', u)
  BY <1>1, <1>7
<1>9. More(libs, libs')
  BY <1>1 DEF More
<1>10. QED
  BY <1>6, <1>8, <1>9, MadeStays

LEMMA MadeInLibrary ==
  ASSUME IInv, MadeInv, pic_in_library
  PROVE  MadeInv'
<1>1. Quiet /\ libs' = libs /\ evals' = [evals EXCEPT ![Len(evals)].moved = TRUE]
  BY DEF pic_in_library
<1>2. /\ Now \in Calls /\ Now = evals[Len(evals)]
      /\ Len(evals) >= 1 /\ Len(evals) \in 1 .. Len(evals) /\ evals \in Seq(Calls)
  BY Facts DEF EvalsOK
<1>3. PICK n, c, es, new : n = Now /\ c = [n EXCEPT !.moved = TRUE] /\ es = evals /\ new = evals'
  OBVIOUS
<1>4. c \in Calls /\ c.defs = n.defs
  <2>1. n \in Calls
    BY <1>2, <1>3
  <2>2. QED
    BY <1>3, <2>1 DEF Calls
<1>5. Len(new) = Len(es) /\ \A j \in 1 .. Len(es) : new[j] = IF j = Len(es) THEN c ELSE es[j]
  <2>1. es \in Seq(Calls) /\ Len(es) >= 1
    BY <1>2, <1>3
  <2>2. new = Topped(es, c)
    BY <1>1, <1>2, <1>3 DEF Topped
  <2>3. QED
    BY <1>4, <2>1, <2>2, ToppedAt
<1>6. \A k \in 1 .. Len(new) : new[k].defs = es[k].defs /\ k \in 1 .. Len(es)
  BY <1>2, <1>3, <1>4, <1>5
<1>7. \A k \in 1 .. Len(evals') : \E j \in 1 .. Len(evals) : evals'[k].defs = evals[j].defs
  BY <1>3, <1>6
<1>8. More(libs, libs')
  BY <1>1 DEF More
<1>9. QED
  BY <1>1, <1>7, <1>8, MadeSame

LEMMA MadeEval ==
  ASSUME IInv, MadeInv, pic_eval
  PROVE  MadeInv'
<1>1. PICK l \in DOMAIN libs : Quiet /\ evals' = Append(evals, Call(l, lib, "expand")) /\ libs' = libs
  BY DEF pic_eval
<1>2. lib \in Name /\ l \in Name /\ evals \in Seq(Calls) /\ Len(evals) \in Nat
  BY Facts DEF EvalsOK
<1>3. PICK c, es, new : c = Call(l, lib, "expand") /\ es = evals /\ new = evals'
  OBVIOUS
<1>4. c \in Calls /\ c.defs = {}
  BY <1>2, <1>3 DEF Call, Calls
<1>5. Len(new) = Len(es) + 1 /\ new[Len(es) + 1] = c /\ \A k \in 1 .. Len(es) : new[k] = es[k]
  BY <1>1, <1>2, <1>3, <1>4, AppendProperties
<1>6. \A k \in 1 .. Len(new) : new[k].defs = {} \/ (k \in 1 .. Len(es) /\ new[k].defs = es[k].defs)
  BY <1>2, <1>3, <1>4, <1>5
<1>7. \A k \in 1 .. Len(evals') : evals'[k].defs = {} \/ \E j \in 1 .. Len(evals) : evals'[k].defs = evals[j].defs
  BY <1>3, <1>6
<1>8. More(libs, libs')
  BY <1>1 DEF More
<1>9. QED
  BY <1>1, <1>7, <1>8, MadeSame

LEMMA MadeRestored ==
  ASSUME IInv, MadeInv, Len(evals) > 1, Restored, Quiet, libs' = libs
  PROVE  MadeInv'
<1>1. EvalsOK(evals, libs) /\ Len(evals) \in Nat
  BY Facts
<1>2. PICK es, new, ls, to : es = evals /\ new = evals' /\ ls = libs /\ to = Len(evals) - 1
  OBVIOUS
<1>3. to \in 1 .. Len(es) /\ EvalsOK(es, ls)
  BY <1>1, <1>2
<1>4. new = SubSeq(es, 1, to)
  BY <1>2 DEF Restored, Front
<1>5. Len(new) = to /\ \A k \in 1 .. to : new[k] = es[k] /\ k \in 1 .. Len(es)
  <2>1. Len(new) = to /\ \A k \in 1 .. to : new[k] = es[k]
    BY <1>3, <1>4, PopIs
  <2>2. QED
    BY <1>1, <1>2, <2>1
<1>6. \A k \in 1 .. Len(evals') : \E j \in 1 .. Len(evals) : evals'[k].defs = evals[j].defs
  BY <1>2, <1>5
<1>7. More(libs, libs')
  BY DEF More
<1>8. QED
  BY <1>6, <1>7, MadeSame

LEMMA MadeEscape ==
  ASSUME IInv, MadeInv, Escape
  PROVE  MadeInv'
<1>1. PICK to \in 1 .. Len(evals) - 1 :
        Quiet /\ libs' = libs /\ evals' = [SubSeq(evals, 1, to) EXCEPT ![to].moved = TRUE]
  BY DEF Escape
<1>2. EvalsOK(evals, libs) /\ Len(evals) \in Nat
  BY Facts
<1>3. PICK es, new, ls, cut : es = evals /\ new = evals' /\ ls = libs /\ cut = SubSeq(evals, 1, to)
  OBVIOUS
<1>4. to \in 1 .. Len(es) /\ to \in 1 .. to
  BY <1>2, <1>3
<1>5. EvalsOK(cut, ls) /\ Len(cut) = to /\ \A k \in 1 .. to : cut[k] = es[k]
  BY <1>2, <1>3, <1>4, PopIs
<1>6. PICK n, c : n = cut[to] /\ c = [n EXCEPT !.moved = TRUE]
  OBVIOUS
<1>7. c \in Calls /\ c.defs = n.defs
  <2>1. n \in Calls
    BY <1>4, <1>5, <1>6, ElementOfSeq DEF EvalsOK
  <2>2. QED
    BY <1>6, <2>1 DEF Calls
<1>8. Len(new) = Len(cut) /\ \A j \in 1 .. Len(cut) : new[j] = IF j = Len(cut) THEN c ELSE cut[j]
  <2>1. cut \in Seq(Calls) /\ Len(cut) >= 1
    BY <1>5 DEF EvalsOK
  <2>2. new = Topped(cut, c)
    BY <1>1, <1>3, <1>5, <1>6 DEF Topped
  <2>3. QED
    BY <1>7, <2>1, <2>2, ToppedAt
<1>9. \A k \in 1 .. Len(new) : k \in 1 .. Len(es) /\ new[k].defs = es[k].defs
  <2>1. TAKE k \in 1 .. Len(new)
  <2>2. k \in 1 .. Len(es) /\ k \in 1 .. to /\ cut[k] = es[k]
    BY <1>2, <1>3, <1>4, <1>5, <1>8
  <2>3. CASE k = to
    BY <1>5, <1>6, <1>7, <1>8, <2>2, <2>3
  <2>4. CASE k # to
    BY <1>5, <1>8, <2>2, <2>4
  <2>5. QED
    BY <2>2, <2>3, <2>4
<1>10. \A k \in 1 .. Len(evals') : \E j \in 1 .. Len(evals) : evals'[k].defs = evals[j].defs
  BY <1>3, <1>9
<1>11. More(libs, libs')
  BY <1>1 DEF More
<1>12. QED
  BY <1>1, <1>10, <1>11, MadeSame

LEMMA MadeQuiet ==
  ASSUME IInv, MadeInv, Quiet, Stays, libs' = libs
  PROVE  MadeInv'
<1>1. More(libs, libs')
  BY DEF More
<1>2. QED
  BY <1>1, MadeSame DEF Stays

LEMMA StepMade == IInv /\ MadeInv /\ [Next]_vars => MadeInv'
<1>1. SUFFICES ASSUME IInv, MadeInv, [Next]_vars PROVE MadeInv'
  OBVIOUS
<1>2. CASE pic_make_library
  BY <1>1, <1>2, MadeMake
<1>3. CASE pic_in_library
  BY <1>1, <1>3, MadeInLibrary
<1>4. CASE library_export
  BY <1>1, <1>4, MadeExport
<1>5. CASE import \/ pic_import
  BY <1>1, <1>5, MadeImport
<1>6. CASE expand_var \/ expand_defmacro \/ pic_define
  BY <1>1, <1>6, MadeLookups
<1>7. CASE expand_define
  BY <1>1, <1>7, MadeDefine
<1>8. CASE pic_compile
  BY <1>1, <1>8, MadeCompile
<1>9. CASE pic_eval
  BY <1>1, <1>9, MadeEval
<1>10. CASE Return
  BY <1>1, <1>10, MadeRestored DEF Return
<1>11. CASE Catch
  BY <1>1, <1>11, MadeRestored DEF Catch
<1>12. CASE Error
  BY <1>1, <1>12, MadeQuiet DEF Error
<1>13. CASE Handled
  BY <1>1, <1>13, MadeQuiet DEF Handled
<1>14. CASE Escape
  BY <1>1, <1>14, MadeEscape
<1>15. CASE UNCHANGED vars
  BY <1>1, <1>15, MadeQuiet DEF vars, Quiet, Stays
<1>16. QED
  BY <1>1, <1>2, <1>3, <1>4, <1>5, <1>6, <1>7, <1>8, <1>9, <1>10, <1>11, <1>12, <1>13, <1>14, <1>15 DEF Next

LEMMA InitMade == Init => MadeInv
<1>1. SUFFICES ASSUME Init PROVE MadeInv
  OBVIOUS
<1>2. PICK r : r = NewLibrary
  OBVIOUS
<1>3. DOMAIN r.env = {}
  BY <1>2 DEF NewLibrary
<1>4. DOMAIN libs = {User} /\ libs[User] = r
  BY <1>1, <1>2 DEF Init
<1>5. MadeOK(libs)
  BY <1>3, <1>4 DEF MadeOK
<1>6. PICK c : c = Call(User, User, "run")
  OBVIOUS
<1>7. c.defs = {} /\ evals = << c >>
  BY <1>1, <1>6 DEF Call, Init
<1>8. QED
  BY <1>1, <1>5, <1>7 DEF MadeInv, Init

-----------------------------------------------------------------------------
(* What import gathers against what its set denotes. *)

NameMaps == UNION {[S -> Name] : S \in SUBSET Name}
Pairs(d) == {<< a, d[a] >> : a \in DOMAIN d}

(* The list is what import has gathered of a set that denotes d, but for   *)
(* symbols it has looked for in vain; or it has come to an error.          *)
Lists(alist, d) == Fault \in ToSet(alist) \/ ToSet(alist) \ {NoSlot} = Pairs(d)

(* The maps from names to names.                                           *)
LEMMA MapIs ==
  ASSUME NEW d \in NameMaps
  PROVE  d = [a \in DOMAIN d |-> d[a]] /\ DOMAIN d \subseteq Name /\ \A a \in DOMAIN d : d[a] \in Name
BY DEF NameMaps

LEMMA MapOf ==
  ASSUME NEW S \in SUBSET Name, NEW d \in [S -> Name]
  PROVE  d \in NameMaps
BY DEF NameMaps

LEMMA RestrictIs ==
  ASSUME NEW d \in NameMaps, NEW S \in SUBSET Name, S \subseteq DOMAIN d, NEW e, e = Restrict(d, S)
  PROVE  e \in NameMaps /\ DOMAIN e = S /\ \A a \in S : e[a] = d[a]
<1>1. d = [a \in DOMAIN d |-> d[a]] /\ DOMAIN d \subseteq Name /\ \A a \in DOMAIN d : d[a] \in Name
  BY MapIs
<1>2. e = [a \in S |-> d[a]]
  BY DEF Restrict
<1>3. e \in [S -> Name]
  BY <1>1, <1>2
<1>4. QED
  BY <1>2, <1>3, MapOf

(* What is in a list.                                                      *)
LEMMA SetOf ==
  ASSUME NEW S, NEW s \in Seq(S)
  PROVE  /\ ToSet(s) = {s[i] : i \in 1 .. Len(s)} /\ ToSet(s) \subseteq S
         /\ \A x \in S : Contains(s, x) <=> x \in ToSet(s)
<1>1. DOMAIN s = 1 .. Len(s) /\ \A i \in 1 .. Len(s) : s[i] \in S
  BY Listed
<1>2. ToSet(s) = {s[i] : i \in 1 .. Len(s)}
  BY <1>1 DEF ToSet
<1>3. \A x \in S : Contains(s, x) <=> x \in ToSet(s)
  BY <1>2 DEF Contains
<1>4. QED
  BY <1>1, <1>2, <1>3

(* A pair of names is neither a missing slot nor a fault.                  *)
LEMMA TwoOf ==
  ASSUME NEW x \in Name \X Name
  PROVE  x # NoSlot /\ x # Fault /\ x = << x[1], x[2] >> /\ x[1] \in Name /\ x[2] \in Name
<1>1. PICK a \in Name, b \in Name : x = << a, b >>
  OBVIOUS
<1>2. Len(x) = 2 /\ x[1] = a /\ x[2] = b
  BY <1>1
<1>3. Len(NoSlot) = 0 /\ Len(Fault) = 3
  BY DEF NoSlot, Fault
<1>4. QED
  BY <1>1, <1>2, <1>3

(* A list without an error, and with the missing ones left out.            *)
LEMMA ListsIs ==
  ASSUME NEW alist \in Seq(SlotOrNot), NEW d \in NameMaps, Lists(alist, d), ~Contains(alist, Fault)
  PROVE  /\ Fault \notin ToSet(alist) /\ ToSet(alist) \ {NoSlot} = Pairs(d)
         /\ \A x \in ToSet(alist) : x # NoSlot => x \in Name \X Name /\ x[1] \in DOMAIN d /\ x[2] = d[x[1]]
<1>1. Fault \in SlotOrNot /\ NoSlot \in SlotOrNot
  BY DEF SlotOrNot
<1>2. Fault \notin ToSet(alist) /\ ToSet(alist) \subseteq SlotOrNot
  BY <1>1, SetOf
<1>3. ToSet(alist) \ {NoSlot} = Pairs(d)
  BY <1>2 DEF Lists
<1>4. ASSUME NEW x \in ToSet(alist), x # NoSlot
      PROVE  x \in Name \X Name /\ x[1] \in DOMAIN d /\ x[2] = d[x[1]]
  <2>1. x \in Pairs(d)
    BY <1>3, <1>4
  <2>2. PICK a \in DOMAIN d : x = << a, d[a] >>
    BY <2>1 DEF Pairs
  <2>3. a \in Name /\ d[a] \in Name
    BY <2>2, MapIs
  <2>4. QED
    BY <2>2, <2>3
<1>5. QED
  BY <1>2, <1>3, <1>4

(* assq in a list of a map looks up in the map.                            *)
LEMMA AssqMeans ==
  ASSUME NEW alist \in Seq(SlotOrNot), NEW d \in NameMaps, Lists(alist, d), ~Contains(alist, Fault),
         NEW s \in Name, Assq(alist, s) # Fault
  PROVE  Assq(alist, s) = IF s \in DOMAIN d THEN << s, d[s] >> ELSE NoSlot
<1>1. /\ ToSet(alist) \ {NoSlot} = Pairs(d)
      /\ \A x \in ToSet(alist) : x # NoSlot => x \in Name \X Name /\ x[1] \in DOMAIN d /\ x[2] = d[x[1]]
  BY ListsIs
<1>2. ToSet(alist) = {alist[i] : i \in 1 .. Len(alist)}
  BY SetOf
<1>3. CASE /\ Assq(alist, s) = NoSlot
           /\ \A j \in 1 .. Len(alist) : ~ (alist[j] = NoSlot \/ alist[j][1] = s)
  <2>1. SUFFICES ASSUME s \in DOMAIN d PROVE FALSE
    BY <1>3
  <2>2. << s, d[s] >> \in ToSet(alist)
    BY <1>1, <2>1 DEF Pairs
  <2>3. PICK j \in 1 .. Len(alist) : alist[j] = << s, d[s] >>
    BY <1>2, <2>2
  <2>4. alist[j][1] = s
    BY <2>3
  <2>5. QED
    BY <1>3, <2>4
<1>4. CASE \E j \in 1 .. Len(alist) :
              /\ alist[j] = NoSlot \/ alist[j][1] = s
              /\ Assq(alist, s) = IF alist[j] = NoSlot THEN Fault ELSE alist[j]
  <2>1. PICK j \in 1 .. Len(alist) :
              /\ alist[j] = NoSlot \/ alist[j][1] = s
              /\ Assq(alist, s) = IF alist[j] = NoSlot THEN Fault ELSE alist[j]
    BY <1>4
  <2>2. PICK x : x = alist[j]
    OBVIOUS
  <2>3. x # NoSlot /\ x[1] = s /\ Assq(alist, s) = x
    BY <2>1, <2>2
  <2>4. x \in Name \X Name /\ x[1] \in DOMAIN d /\ x[2] = d[x[1]]
    BY <1>1, <1>2, <2>2, <2>3
  <2>5. x = << x[1], x[2] >>
    BY <2>4, TwoOf
  <2>6. QED
    BY <2>3, <2>4, <2>5
<1>5. QED
  BY <1>3, <1>4, AssqBy

(* only. *)
LEMMA OnlyMeans ==
  ASSUME NEW alist \in Seq(SlotOrNot), NEW d \in NameMaps, Lists(alist, d), ~Contains(alist, Fault),
         NEW syms \in Seq(Name), NEW found, found = [i \in DOMAIN syms |-> Assq(alist, syms[i])],
         ~Contains(found, Fault),
         NEW e, e = Restrict(d, ToSet(syms) \intersect DOMAIN d)
  PROVE  Lists(found, e)
<1>1. d = [a \in DOMAIN d |-> d[a]] /\ DOMAIN d \subseteq Name /\ \A a \in DOMAIN d : d[a] \in Name
  BY MapIs
<1>2. Len(syms) \in Nat /\ DOMAIN syms = 1 .. Len(syms) /\ \A i \in 1 .. Len(syms) : syms[i] \in Name
  BY Listed
<1>3. ToSet(syms) = {syms[i] : i \in 1 .. Len(syms)}
  BY SetOf
<1>4. DOMAIN e = ToSet(syms) \intersect DOMAIN d /\ \A a \in DOMAIN e : e[a] = d[a] /\ a \in Name /\ e[a] \in Name
  <2>1. PICK S : S = ToSet(syms) \intersect DOMAIN d
    OBVIOUS
  <2>2. DOMAIN e = S /\ \A a \in S : e[a] = d[a]
    BY <1>1, <2>1, RestrictIs
  <2>3. QED
    BY <1>1, <2>1, <2>2
<1>6. found \in Seq(SlotOrNot)
  <2>1. found \in [1 .. Len(syms) -> SlotOrNot]
    BY <1>2, AssqIs
  <2>2. QED
    BY <1>2, <2>1, ListOf
<1>7. /\ Len(found) = Len(syms)
      /\ \A i \in 1 .. Len(syms) : found[i] = Assq(alist, syms[i])
  <2>1. DOMAIN found = 1 .. Len(found) /\ Len(found) \in Nat
    BY <1>6, Listed
  <2>2. 1 .. Len(found) = 1 .. Len(syms)
    BY <1>2, <2>1
  <2>3. Len(found) = Len(syms)
    BY <1>2, <2>1, <2>2
  <2>4. QED
    BY <1>2, <2>3
<1>8. \A i \in 1 .. Len(syms) : found[i] = IF syms[i] \in DOMAIN d THEN << syms[i], d[syms[i]] >> ELSE NoSlot
  <2>1. TAKE i \in 1 .. Len(syms)
  <2>2. Assq(alist, syms[i]) # Fault
    BY <1>7 DEF Contains
  <2>3. QED
    BY <1>2, <1>7, <2>2, AssqMeans
<1>9. ToSet(found) = {found[i] : i \in 1 .. Len(syms)}
  <2>1. ToSet(found) = {found[i] : i \in DOMAIN found}
    BY DEF ToSet
  <2>2. DOMAIN found = 1 .. Len(found)
    BY <1>6, Listed
  <2>3. QED
    BY <1>7, <2>1, <2>2
<1>10. ASSUME NEW x \in ToSet(found), x # NoSlot PROVE x \in Pairs(e)
  <2>1. PICK i \in 1 .. Len(syms) : x = found[i]
    BY <1>9, <1>10
  <2>2. syms[i] \in DOMAIN d /\ x = << syms[i], d[syms[i]] >>
    BY <1>8, <1>10, <2>1
  <2>3. syms[i] \in DOMAIN e /\ e[syms[i]] = d[syms[i]]
    BY <1>3, <1>4, <2>2
  <2>4. QED
    BY <2>2, <2>3 DEF Pairs
<1>11. ASSUME NEW x \in Pairs(e) PROVE x \in ToSet(found) /\ x # NoSlot
  <2>1. PICK a \in DOMAIN e : x = << a, e[a] >>
    BY <1>11 DEF Pairs
  <2>2. PICK i \in 1 .. Len(syms) : a = syms[i]
    BY <1>3, <1>4, <2>1
  <2>3. found[i] = x
    BY <1>4, <1>8, <2>1, <2>2
  <2>4. x \in Name \X Name
    BY <1>4, <2>1
  <2>5. QED
    BY <1>9, <2>3, <2>4, TwoOf
<1>12. ToSet(found) \ {NoSlot} = Pairs(e)
  BY <1>10, <1>11
<1>13. QED
  BY <1>12 DEF Lists

(* except leaves the slots whose alias it does not name.                   *)
LEMMA AppendSet ==
  ASSUME NEW S, NEW s \in Seq(S), NEW x \in S
  PROVE  ToSet(Append(s, x)) = ToSet(s) \union {x}
<1>1. PICK t : t = Append(s, x)
  OBVIOUS
<1>2. /\ t \in Seq(S) /\ Len(t) = Len(s) + 1 /\ Len(s) \in Nat
      /\ \A i \in 1 .. Len(s) : t[i] = s[i]
      /\ t[Len(s) + 1] = x
  BY <1>1, AppendProperties, LenProperties
<1>3. ToSet(t) = {t[i] : i \in 1 .. Len(t)}
  BY <1>2, SetOf
<1>4. ToSet(s) = {s[i] : i \in 1 .. Len(s)}
  BY SetOf
<1>5. \A i \in 1 .. Len(t) : i \in 1 .. Len(s) \/ i = Len(s) + 1
  BY <1>2
<1>6. ToSet(t) \subseteq ToSet(s) \union {x}
  BY <1>2, <1>3, <1>4, <1>5
<1>7. ToSet(s) \union {x} \subseteq ToSet(t)
  BY <1>2, <1>3, <1>4
<1>8. QED
  BY <1>1, <1>6, <1>7

(* except. *)
LEMMA ExceptedSet ==
  ASSUME NEW alist \in Seq(SlotOrNot), NEW syms
  PROVE  ToSet(Excepted(alist, syms)) = {x \in ToSet(alist) : ~Contains(syms, x[1])}
<1>1. PICK kept :
        /\ Excepted(alist, syms) = kept[Len(alist)] /\ kept[0] = << >>
        /\ \A k \in 0 .. Len(alist) : kept[k] \in Seq(SlotOrNot)
        /\ \A k \in 1 .. Len(alist) :
             kept[k] = IF Contains(syms, alist[k][1]) THEN kept[k - 1] ELSE Append(kept[k - 1], alist[k])
  BY ExceptedBy
<1>2. PICK n : n = Len(alist)
  OBVIOUS
<1>3. n \in Nat /\ n \in 0 .. n /\ \A k \in 1 .. n : alist[k] \in SlotOrNot
  BY <1>2, Listed
<1> DEFINE Good(x) == ~Contains(syms, x[1])
           Upto(k, x) == \E j \in 1 .. k : alist[j] = x /\ Good(x)
           B == {k \in 0 .. n : \A x : x \in ToSet(kept[k]) <=> Upto(k, x)}
<1>4. 0 \in B
  <2>1. ToSet(kept[0]) = {}
    BY <1>1 DEF ToSet
  <2>2. QED
    BY <1>3, <2>1
<1>5. ASSUME NEW k \in 1 .. n, k - 1 \in B PROVE k \in B
  <2>1. PICK x : x = alist[k]
    OBVIOUS
  <2>2. PICK s, t : s = kept[k - 1] /\ t = kept[k]
    OBVIOUS
  <2>3. x \in SlotOrNot /\ s \in Seq(SlotOrNot) /\ k \in 0 .. n
    <3>1. k - 1 \in 0 .. n /\ k \in 0 .. n
      BY <1>3
    <3>2. QED
      BY <1>1, <1>2, <1>3, <2>1, <2>2, <3>1
  <2>4. t = IF Good(x) THEN Append(s, x) ELSE s
    BY <1>1, <1>2, <2>1, <2>2
  <2>5. ToSet(Append(s, x)) = ToSet(s) \union {x}
    BY <2>3, AppendSet
  <2>6. \A y : y \in ToSet(s) <=> Upto(k - 1, y)
    BY <1>5, <2>2
  <2>7. \A j \in 1 .. k : j \in 1 .. k - 1 \/ j = k
    BY <1>3
  <2>8. \A j \in 1 .. k - 1 : j \in 1 .. k
    BY <1>3
  <2> HIDE DEF Good
  <2>9. \A y : Upto(k, y) <=> Upto(k - 1, y) \/ (y = x /\ Good(x))
    BY <1>3, <2>1, <2>7, <2>8
  <2> HIDE DEF Upto
  <2>10. \A y : y \in ToSet(t) <=> Upto(k, y)
    BY <2>4, <2>5, <2>6, <2>9
  <2>11. QED
    BY <2>2, <2>3, <2>10
<1>6. n \in B
  <2> HIDE DEF B
  <2>1. QED
    BY <1>3, <1>4, <1>5, UpTo
<1>7. ToSet(alist) = {alist[j] : j \in 1 .. n}
  BY <1>2, SetOf
<1> HIDE DEF Good
<1>8. \A x : x \in ToSet(kept[n]) <=> x \in ToSet(alist) /\ Good(x)
  BY <1>6, <1>7
<1>9. QED
  BY <1>1, <1>2, <1>8 DEF Good

LEMMA ExceptMeans ==
  ASSUME NEW alist \in Seq(SlotOrNot), NEW d \in NameMaps, Lists(alist, d), ~Contains(alist, Fault),
         ~Contains(alist, NoSlot), NEW syms \in Seq(Name),
         NEW e, e = Restrict(d, DOMAIN d \ ToSet(syms))
  PROVE  Lists(Excepted(alist, syms), e)
<1>1. d = [a \in DOMAIN d |-> d[a]] /\ DOMAIN d \subseteq Name /\ \A a \in DOMAIN d : d[a] \in Name
  BY MapIs
<1>2. DOMAIN e = DOMAIN d \ ToSet(syms) /\ \A a \in DOMAIN e : e[a] = d[a] /\ a \in Name
  <2>1. PICK S : S = DOMAIN d \ ToSet(syms)
    OBVIOUS
  <2>2. DOMAIN e = S /\ \A a \in S : e[a] = d[a]
    BY <1>1, <2>1, RestrictIs
  <2>3. QED
    BY <1>1, <2>1, <2>2
<1>4. \A a \in Name : Contains(syms, a) <=> a \in ToSet(syms)
  BY SetOf
<1>5. /\ ToSet(alist) \ {NoSlot} = Pairs(d)
      /\ \A x \in ToSet(alist) : x # NoSlot => x \in Name \X Name /\ x[1] \in DOMAIN d /\ x[2] = d[x[1]]
  BY ListsIs
<1>6. NoSlot \notin ToSet(alist)
  <2>1. NoSlot \in SlotOrNot
    BY DEF SlotOrNot
  <2>2. QED
    BY <2>1, SetOf
<1>7. PICK kept : kept = Excepted(alist, syms)
  OBVIOUS
<1>8. ToSet(kept) = {x \in ToSet(alist) : ~Contains(syms, x[1])}
  BY <1>7, ExceptedSet
<1>9. ASSUME NEW x \in ToSet(kept) PROVE x \in Pairs(e) /\ x # NoSlot
  <2>1. x \in ToSet(alist) /\ ~Contains(syms, x[1]) /\ x # NoSlot
    BY <1>6, <1>8, <1>9
  <2>2. x \in Name \X Name /\ x[1] \in DOMAIN d /\ x[2] = d[x[1]]
    BY <1>5, <2>1
  <2>3. x = << x[1], x[2] >>
    BY <2>2, TwoOf
  <2>4. x[1] \in DOMAIN e /\ e[x[1]] = x[2]
    BY <1>1, <1>2, <1>4, <2>1, <2>2
  <2>5. x = << x[1], e[x[1]] >>
    BY <2>3, <2>4
  <2>6. QED
    BY <2>1, <2>4, <2>5 DEF Pairs
<1>10. ASSUME NEW x \in Pairs(e) PROVE x \in ToSet(kept)
  <2>1. PICK a \in DOMAIN e : x = << a, e[a] >>
    BY <1>10 DEF Pairs
  <2>2. a \in DOMAIN d /\ x = << a, d[a] >> /\ ~Contains(syms, a) /\ x[1] = a
    BY <1>2, <1>4, <2>1
  <2>3. x \in ToSet(alist)
    BY <1>5, <2>2 DEF Pairs
  <2>4. QED
    BY <1>8, <2>2, <2>3
<1>11. ToSet(kept) \ {NoSlot} = Pairs(e)
  BY <1>9, <1>10
<1>12. QED
  BY <1>7, <1>11 DEF Lists

(* prefix. *)
LEMMA Cancelled ==
  ASSUME NEW p \in Name, NEW a \in Name, NEW b \in Name, p \o a = p \o b
  PROVE  a = b
<1>1. p \in Seq(Char) /\ a \in Seq(Char) /\ b \in Seq(Char)
  BY DEF Name
<1>2. Len(p) \in Nat /\ Len(a) \in Nat /\ Len(b) \in Nat
  BY <1>1, LenProperties
<1>3. PICK s, t : s = p \o a /\ t = p \o b
  OBVIOUS
<1>4. /\ Len(s) = Len(p) + Len(a)
      /\ \A i \in 1 .. Len(p) + Len(a) : s[i] = IF i <= Len(p) THEN p[i] ELSE a[i - Len(p)]
  BY <1>1, <1>3, ConcatProperties
<1>5. /\ Len(t) = Len(p) + Len(b)
      /\ \A i \in 1 .. Len(p) + Len(b) : t[i] = IF i <= Len(p) THEN p[i] ELSE b[i - Len(p)]
  BY <1>1, <1>3, ConcatProperties
<1>6. Len(a) = Len(b) /\ s = t
  BY <1>2, <1>3, <1>4, <1>5
<1>7. ASSUME NEW j \in 1 .. Len(a) PROVE a[j] = b[j]
  <2>1. PICK i : i = Len(p) + j
    OBVIOUS
  <2>2. i \in 1 .. Len(p) + Len(a) /\ ~ (i <= Len(p)) /\ i - Len(p) = j
    BY <1>2, <1>7, <2>1
  <2>3. s[i] = a[j]
    BY <1>4, <2>2
  <2>4. t[i] = b[j]
    BY <1>5, <1>6, <2>2
  <2>5. QED
    BY <1>6, <2>3, <2>4
<1>8. QED
  BY <1>1, <1>6, <1>7, SeqEqual

Prefixed(d, p) == [id \in {p \o a : a \in DOMAIN d} |-> d[CHOOSE a \in DOMAIN d : id = p \o a]]

(* A prefix takes no two aliases to the same one.                          *)
LEMMA PrefixedIs ==
  ASSUME NEW d \in NameMaps, NEW p \in Name, NEW e, e = Prefixed(d, p)
  PROVE  /\ e \in NameMaps /\ DOMAIN e = {p \o a : a \in DOMAIN d}
         /\ \A a \in DOMAIN d : e[p \o a] = d[a]
<1> DEFINE S == {p \o a : a \in DOMAIN d}
           v(id) == d[CHOOSE a \in DOMAIN d : id = p \o a]
<1>1. d = [a \in DOMAIN d |-> d[a]] /\ DOMAIN d \subseteq Name /\ \A a \in DOMAIN d : d[a] \in Name
  BY MapIs
<1>2. \A a \in DOMAIN d : p \o a \in Name
  BY <1>1, ConcatProperties DEF Name
<1>3. \A a, b \in DOMAIN d : p \o a = p \o b => a = b
  BY <1>1, Cancelled
<1>4. ASSUME NEW a \in DOMAIN d PROVE v(p \o a) = d[a]
  <2>1. (CHOOSE b \in DOMAIN d : p \o a = p \o b) = a
    BY <1>3
  <2>2. QED
    BY <2>1
<1>5. e = [id \in S |-> v(id)]
  BY DEF Prefixed
<1> HIDE DEF v
<1>6. \A a \in DOMAIN d : p \o a \in S
  OBVIOUS
<1>7. \A id \in S : v(id) \in Name /\ id \in Name
  BY <1>1, <1>2, <1>4
<1> HIDE DEF S
<1>8. DOMAIN e = S /\ \A id \in S : e[id] = v(id)
  BY <1>5
<1>9. e \in [S -> Name] /\ S \in SUBSET Name
  BY <1>5, <1>7
<1>10. e \in NameMaps
  BY <1>9, MapOf
<1>11. QED
  BY <1>4, <1>6, <1>8, <1>10 DEF S

LEMMA PrefixMeans ==
  ASSUME NEW alist \in Seq(SlotOrNot), NEW d \in NameMaps, Lists(alist, d), ~Contains(alist, Fault),
         ~Contains(alist, NoSlot), NEW p \in Name,
         NEW new, new = [i \in DOMAIN alist |-> Slot(p \o alist[i][1], alist[i][2])],
         NEW e, e = Prefixed(d, p)
  PROVE  Lists(new, e)
<1>1. DOMAIN d \subseteq Name /\ \A a \in DOMAIN d : d[a] \in Name
  BY MapIs
<1>2. \A a \in DOMAIN d : p \o a \in Name
  BY <1>1, ConcatProperties DEF Name
<1>3. DOMAIN e = {p \o a : a \in DOMAIN d} /\ \A a \in DOMAIN d : e[p \o a] = d[a]
  BY PrefixedIs
<1>4. \A a \in DOMAIN d : p \o a \in DOMAIN e /\ e[p \o a] = d[a]
  BY <1>3
<1> HIDE DEF Slot
<1>5. /\ ToSet(alist) \ {NoSlot} = Pairs(d)
      /\ \A x \in ToSet(alist) : x # NoSlot => x \in Name \X Name /\ x[1] \in DOMAIN d /\ x[2] = d[x[1]]
  BY ListsIs
<1>6. NoSlot \notin ToSet(alist)
  <2>1. NoSlot \in SlotOrNot
    BY DEF SlotOrNot
  <2>2. QED
    BY <2>1, SetOf
<1>7. DOMAIN alist = 1 .. Len(alist) /\ ToSet(alist) = {alist[i] : i \in DOMAIN alist}
  BY Listed DEF ToSet
<1>8. ToSet(new) = {Slot(p \o alist[i][1], alist[i][2]) : i \in DOMAIN alist}
  BY DEF ToSet
<1>9. ToSet(new) = {Slot(p \o x[1], x[2]) : x \in ToSet(alist)}
  BY <1>7, <1>8
<1>10. ASSUME NEW y \in ToSet(new) PROVE y \in Pairs(e) /\ y # NoSlot
  <2>1. PICK x \in ToSet(alist) : y = << p \o x[1], x[2] >>
    BY <1>9, <1>10 DEF Slot
  <2>2. x \in Name \X Name /\ x[1] \in DOMAIN d /\ x[2] = d[x[1]]
    BY <1>5, <1>6, <2>1
  <2>3. y = << p \o x[1], e[p \o x[1]] >> /\ p \o x[1] \in DOMAIN e
    BY <1>4, <2>1, <2>2
  <2>4. y \in Name \X Name
    BY <1>1, <1>2, <2>1, <2>2
  <2>5. QED
    BY <2>3, <2>4, TwoOf DEF Pairs
<1>11. ASSUME NEW y \in Pairs(e) PROVE y \in ToSet(new)
  <2>1. PICK id \in DOMAIN e : y = << id, e[id] >>
    BY <1>11 DEF Pairs
  <2>2. PICK a \in DOMAIN d : id = p \o a
    BY <1>3, <2>1
  <2>3. y = << p \o a, d[a] >>
    BY <1>4, <2>1, <2>2
  <2>4. PICK x : x = << a, d[a] >>
    OBVIOUS
  <2>5. x \in ToSet(alist) /\ x[1] = a /\ x[2] = d[a]
    BY <1>5, <2>4 DEF Pairs
  <2>6. y = Slot(p \o x[1], x[2])
    BY <2>3, <2>5 DEF Slot
  <2>7. QED
    BY <1>9, <2>5, <2>6
<1>12. ToSet(new) \ {NoSlot} = Pairs(e)
  BY <1>10, <1>11
<1>13. QED
  BY <1>12 DEF Lists

(* Each kind of import set denotes a map again.                            *)
LEMMA MeantIs ==
  ASSUME NEW d \in NameMaps, NEW mod \in Mods, mod.kind = "prefix" => mod.syms # << >>
  PROVE  /\ Meant(d, mod) \in NameMaps
         /\ mod.kind = "only" => Meant(d, mod) = Restrict(d, ToSet(mod.syms) \intersect DOMAIN d)
         /\ mod.kind = "except" => Meant(d, mod) = Restrict(d, DOMAIN d \ ToSet(mod.syms))
         /\ mod.kind = "prefix" => Meant(d, mod) = Prefixed(d, mod.syms[1]) /\ mod.syms[1] \in Name
<1>1. mod.syms \in Seq(Name) /\ mod.kind \in {"only", "rename", "prefix", "except"}
  BY DEF Mods
<1>2. DOMAIN d \subseteq Name
  BY MapIs
<1>3. CASE mod.kind = "only"
  <2>1. PICK S : S = ToSet(mod.syms) \intersect DOMAIN d
    OBVIOUS
  <2>2. Meant(d, mod) = Restrict(d, S)
    BY <1>3, <2>1 DEF Meant
  <2>3. Restrict(d, S) \in NameMaps
    BY <1>2, <2>1, RestrictIs
  <2>4. QED
    BY <1>3, <2>1, <2>2, <2>3
<1>4. CASE mod.kind = "except"
  <2>1. PICK S : S = DOMAIN d \ ToSet(mod.syms)
    OBVIOUS
  <2>2. Meant(d, mod) = Restrict(d, S)
    BY <1>4, <2>1 DEF Meant
  <2>3. Restrict(d, S) \in NameMaps
    BY <1>2, <2>1, RestrictIs
  <2>4. QED
    BY <1>4, <2>1, <2>2, <2>3
<1>5. CASE mod.kind = "prefix"
  <2>1. mod.syms[1] \in Name
    <3>1. Len(mod.syms) \in Nat /\ \A i \in 1 .. Len(mod.syms) : mod.syms[i] \in Name
      BY <1>1, Listed
    <3>2. Len(mod.syms) # 0
      BY <1>1, <1>5, EmptySeq
    <3>3. 1 \in 1 .. Len(mod.syms)
      BY <3>1, <3>2
    <3>4. QED
      BY <3>1, <3>3
  <2>2. Meant(d, mod) = Prefixed(d, mod.syms[1])
    BY <1>5 DEF Meant, Prefixed
  <2>3. Prefixed(d, mod.syms[1]) \in NameMaps
    BY <2>1, PrefixedIs
  <2>4. QED
    BY <1>5, <2>1, <2>2, <2>3
<1>6. CASE mod.kind = "rename"
  <2>1. Meant(d, mod) = d
    BY <1>6 DEF Meant
  <2>2. QED
    BY <1>6, <2>1
<1>7. QED
  BY <1>1, <1>3, <1>4, <1>5, <1>6

(* A list that is an error denotes nothing.                                *)
LEMMA FaultLists ==
  ASSUME NEW alist \in Seq(SlotOrNot), Contains(alist, Fault), NEW d
  PROVE  Lists(alist, d)
<1>1. Fault \in SlotOrNot
  BY DEF SlotOrNot
<1>2. Fault \in ToSet(alist)
  BY <1>1, SetOf
<1>3. QED
  BY <1>2 DEF Lists

(* The list of an error.                                                   *)
LEMMA OneFault == << Fault >> \in Seq(SlotOrNot) /\ Contains(<< Fault >>, Fault)
<1>1. Fault \in SlotOrNot
  BY DEF SlotOrNot
<1>2. PICK f : f = Fault
  OBVIOUS
<1>3. << f >> \in Seq(SlotOrNot) /\ Len(<< f >>) = 1
  BY <1>1, <1>2, OneChar
<1>4. << f >>[1] = f
  OBVIOUS
<1>5. Contains(<< f >>, f)
  BY <1>3, <1>4 DEF Contains
<1>6. QED
  BY <1>2, <1>3, <1>5

(* One modifier does to the list what it means.                            *)
LEMMA ModifiedMeans ==
  ASSUME NEW alist \in Seq(SlotOrNot), NEW d \in NameMaps, Lists(alist, d), ~Contains(alist, Fault),
         NEW mod \in Mods, mod.kind = "prefix" => mod.syms # << >>, mod.kind # "rename"
  PROVE  Lists(Modified(alist, mod), Meant(d, mod))
<1> DEFINE found == [i \in DOMAIN mod.syms |-> Assq(alist, mod.syms[i])]
           prefixed == [i \in DOMAIN alist |-> Slot(mod.syms[1] \o alist[i][1], alist[i][2])]
<1>1. mod.syms \in Seq(Name) /\ mod.kind \in {"only", "prefix", "except"}
  BY DEF Mods
<1>2. /\ mod.kind = "only" => Meant(d, mod) = Restrict(d, ToSet(mod.syms) \intersect DOMAIN d)
      /\ mod.kind = "except" => Meant(d, mod) = Restrict(d, DOMAIN d \ ToSet(mod.syms))
      /\ mod.kind = "prefix" => Meant(d, mod) = Prefixed(d, mod.syms[1]) /\ mod.syms[1] \in Name
  BY MeantIs
<1>3. Modified(alist, mod) =
        IF mod.kind = "only" /\ Contains(found, Fault) THEN << Fault >>
        ELSE IF mod.kind # "only" /\ Contains(alist, NoSlot) THEN << Fault >>
        ELSE CASE mod.kind = "only" -> found
               [] mod.kind = "rename" -> alist
               [] mod.kind = "prefix" -> prefixed
               [] mod.kind = "except" -> Excepted(alist, mod.syms)
  BY DEF Modified
<1>4. PICK e, m : e = Meant(d, mod) /\ m = Modified(alist, mod)
  OBVIOUS
<1>5. CASE m = << Fault >>
  <2>1. Lists(<< Fault >>, e)
    BY OneFault, FaultLists
  <2>2. QED
    BY <1>4, <1>5, <2>1
<1>6. CASE m # << Fault >> /\ mod.kind = "only"
  <2>1. PICK f : f = found
    OBVIOUS
  <2>2. m = f /\ ~Contains(f, Fault)
    <3> HIDE DEF found
    <3>1. QED
      BY <1>3, <1>4, <1>6, <2>1
  <2>3. Lists(f, e)
    BY <1>1, <1>2, <1>4, <1>6, <2>1, <2>2, OnlyMeans
  <2>4. QED
    BY <1>4, <2>2, <2>3
<1>7. CASE m # << Fault >> /\ mod.kind = "except"
  <2>1. m = Excepted(alist, mod.syms) /\ ~Contains(alist, NoSlot)
    <3> HIDE DEF found, prefixed
    <3>1. QED
      BY <1>3, <1>4, <1>7
  <2>2. e = Restrict(d, DOMAIN d \ ToSet(mod.syms))
    BY <1>2, <1>4, <1>7
  <2>3. Lists(Excepted(alist, mod.syms), e)
    BY <1>1, <2>1, <2>2, ExceptMeans
  <2>4. QED
    BY <1>4, <2>1, <2>3
<1>8. CASE m # << Fault >> /\ mod.kind = "prefix"
  <2>1. PICK p, f : p = mod.syms[1] /\ f = [i \in DOMAIN alist |-> Slot(p \o alist[i][1], alist[i][2])]
    OBVIOUS
  <2>2. f = prefixed
    BY <2>1
  <2>3. m = f /\ ~Contains(alist, NoSlot)
    <3> HIDE DEF found, prefixed
    <3>1. QED
      BY <1>3, <1>4, <1>8, <2>2
  <2>4. e = Prefixed(d, p) /\ p \in Name
    BY <1>2, <1>4, <1>8, <2>1
  <2>5. Lists(f, e)
    BY <2>1, <2>3, <2>4, PrefixMeans
  <2>6. QED
    BY <1>4, <2>3, <2>5
<1>9. QED
  BY <1>1, <1>5, <1>6, <1>7, <1>8

(* What the modifiers denote one after the other.                          *)
LEMMA DenotedBy ==
  ASSUME NEW S \in SUBSET Name, NEW mods, Wellformed(mods)
  PROVE  \E d :
           /\ Denoted(S, mods) = d[Len(mods)] /\ d[0] = [a \in S |-> a]
           /\ \A k \in 0 .. Len(mods) : d[k] \in NameMaps
           /\ \A k \in 1 .. Len(mods) : d[k] = Meant(d[k - 1], mods[k])
<1> DEFINE n == Len(mods)
           a == [x \in S |-> x]
           g == [p \in (1 .. n) \X NameMaps |-> Meant(p[2], mods[p[1]])]
<1>1. n \in Nat /\ \A i \in 1 .. n : mods[i] \in Mods /\ (mods[i].kind = "prefix" => mods[i].syms # << >>)
  BY Listed DEF Wellformed
<1>2. a \in NameMaps
  <2>1. a \in [S -> Name]
    OBVIOUS
  <2> HIDE DEF a
  <2>2. QED
    BY <2>1, MapOf
<1>3. ASSUME NEW k \in 1 .. n, NEW x \in NameMaps PROVE Meant(x, mods[k]) \in NameMaps
  BY <1>1, MeantIs
<1> HIDE DEF n
<1>4. g \in [(1 .. n) \X NameMaps -> NameMaps]
  BY <1>3
<1>5. ASSUME NEW k \in 1 .. n, NEW x \in NameMaps PROVE g[<< k, x >>] = Meant(x, mods[k])
  OBVIOUS
<1> HIDE DEF g, a
<1>6. PICK f : /\ f = [k \in 0 .. n |-> f[k]] /\ f[0] = a
               /\ \A k \in 1 .. n : f[k - 1] \in NameMaps /\ f[k] = g[<< k, f[k - 1] >>]
  <2>1. n \in Nat
    BY <1>1
  <2>2. \E f : Trace(f, NameMaps, n, a, g)
    BY <1>2, <1>4, <2>1, FoldExists
  <2>3. QED
    BY <2>2 DEF Trace
<1>7. ASSUME NEW k \in 0 .. n PROVE f[k] = IF k = 0 THEN a ELSE Meant(f[k - 1], mods[k])
  <2>1. CASE k = 0
    BY <1>6, <2>1
  <2>2. CASE k # 0
    <3>1. k \in 1 .. n
      BY <1>1, <2>2
    <3>2. QED
      BY <1>5, <1>6, <2>2, <3>1
  <2>3. QED
    BY <2>1, <2>2
<1> DEFINE d[k \in 0 .. n] == IF k = 0 THEN a ELSE Meant(d[k - 1], mods[k])
<1>8. d = [k \in 0 .. n |-> IF k = 0 THEN a ELSE Meant(d[k - 1], mods[k])]
  <2>1. f = [k \in 0 .. n |-> IF k = 0 THEN a ELSE Meant(f[k - 1], mods[k])]
    BY <1>6, <1>7
  <2>2. QED
    BY <2>1
<1>9. Denoted(S, mods) = d[n]
  BY DEF Denoted, n, a
<1> HIDE DEF d
<1>10. d[0] = a
  BY <1>1, <1>8
<1>11. ASSUME NEW k \in 1 .. n PROVE d[k] = Meant(d[k - 1], mods[k])
  <2>1. k # 0 /\ k \in 0 .. n
    BY <1>1
  <2>2. QED
    BY <1>8, <2>1
<1>12. \A k \in 0 .. n : d[k] \in NameMaps
  <2>1. d[0] \in NameMaps
    BY <1>2, <1>10
  <2>2. ASSUME NEW k \in 1 .. n, d[k - 1] \in NameMaps PROVE d[k] \in NameMaps
    BY <1>3, <1>11, <2>2
  <2>3. n \in Nat
    BY <1>1
  <2>4. QED
    BY <2>1, <2>2, <2>3, FoldIn
<1>13. QED
  BY <1>9, <1>10, <1>11, <1>12 DEF n, a

(* Whatever order the exports come in, all of them come.                   *)
LEMMA OrderSet ==
  ASSUME NEW S \in SUBSET Name, IsFiniteSet(S), NEW exports \in SetToSeqs(S)
  PROVE  {exports[i] : i \in DOMAIN exports} = S
<1>1. PICK n : n = Cardinality(S)
  OBVIOUS
<1>2. n \in Nat
  BY <1>1, FS_CardinalityType
<1>3. exports \in [1 .. n -> S] /\ \A i, j \in 1 .. n : i # j => exports[i] # exports[j]
  BY <1>1 DEF SetToSeqs
<1>4. exports \in Injection(1 .. n, S)
  BY <1>3 DEF Injection, IsInjective
<1>5. Cardinality(1 .. n) = n
  BY <1>2, FS_Interval
<1>6. exports \in Surjection(1 .. n, S)
  BY <1>1, <1>4, <1>5, FS_Injection
<1>7. QED
  BY <1>3, <1>6 DEF Surjection

(* What import gathers lists what its set denotes.                         *)
LEMMA CollectMeans ==
  ASSUME NEW S \in SUBSET Name, IsFiniteSet(S), NEW exports \in SetToSeqs(S),
         NEW mods, Wellformed(mods), \A i \in DOMAIN mods : mods[i].kind # "rename"
  PROVE  Denoted(S, mods) \in NameMaps /\ Lists(collect(exports, mods), Denoted(S, mods))
<1>1. exports \in Seq(Name)
  BY OrderIs
<1>2. PICK alist :
        /\ collect(exports, mods) = alist[Len(mods)]
        /\ alist[0] = [i \in DOMAIN exports |-> Slot(exports[i], exports[i])]
        /\ \A k \in 0 .. Len(mods) : alist[k] \in Seq(SlotOrNot)
        /\ \A k \in 1 .. Len(mods) :
             alist[k] = IF Contains(alist[k - 1], Fault) THEN alist[k - 1] ELSE Modified(alist[k - 1], mods[k])
  BY <1>1, CollectBy
<1>3. PICK d :
        /\ Denoted(S, mods) = d[Len(mods)] /\ d[0] = [a \in S |-> a]
        /\ \A k \in 0 .. Len(mods) : d[k] \in NameMaps
        /\ \A k \in 1 .. Len(mods) : d[k] = Meant(d[k - 1], mods[k])
  BY DenotedBy
<1>4. PICK n : n = Len(mods)
  OBVIOUS
<1>5. /\ n \in Nat /\ n \in 0 .. n
      /\ \A k \in 1 .. n : mods[k] \in Mods /\ (mods[k].kind = "prefix" => mods[k].syms # << >>) /\ mods[k].kind # "rename"
  BY <1>4, Listed DEF Wellformed
<1> DEFINE B == {k \in 0 .. n : Lists(alist[k], d[k])}
<1>6. 0 \in B
  <2>1. PICK a, e : a = alist[0] /\ e = d[0]
    OBVIOUS
  <2>2. ToSet(a) = {Slot(exports[i], exports[i]) : i \in DOMAIN exports}
    BY <1>2, <2>1 DEF ToSet
  <2>3. Pairs(e) = {<< x, x >> : x \in S}
    BY <1>3, <2>1 DEF Pairs
  <2>4. {exports[i] : i \in DOMAIN exports} = S
    BY OrderSet
  <2>5. ToSet(a) = {<< x, x >> : x \in S}
    BY <2>2, <2>4 DEF Slot
  <2>6. \A x \in S : << x, x >> # NoSlot
    BY TwoOf
  <2>7. ToSet(a) \ {NoSlot} = Pairs(e)
    BY <2>3, <2>5, <2>6
  <2>8. Lists(a, e)
    BY <2>7 DEF Lists
  <2>9. QED
    BY <1>5, <2>1, <2>8
<1>7. ASSUME NEW k \in 1 .. n, k - 1 \in B PROVE k \in B
  <2>1. PICK a, b, c, e, m : a = alist[k - 1] /\ b = alist[k] /\ c = d[k - 1] /\ e = d[k] /\ m = mods[k]
    OBVIOUS
  <2>2. k \in 0 .. n /\ k - 1 \in 0 .. n
    BY <1>5
  <2>3. a \in Seq(SlotOrNot) /\ b \in Seq(SlotOrNot) /\ c \in NameMaps /\ Lists(a, c)
    BY <1>2, <1>3, <1>4, <1>7, <2>1, <2>2
  <2>4. /\ b = IF Contains(a, Fault) THEN a ELSE Modified(a, m)
        /\ e = Meant(c, m)
    BY <1>2, <1>3, <1>4, <2>1
  <2>5. m \in Mods /\ (m.kind = "prefix" => m.syms # << >>) /\ m.kind # "rename"
    BY <1>5, <2>1
  <2>6. CASE Contains(a, Fault)
    <3>1. Contains(b, Fault)
      BY <2>4, <2>6
    <3>2. Lists(b, e)
      BY <2>3, <3>1, FaultLists
    <3>3. QED
      BY <2>1, <2>2, <3>2
  <2>7. CASE ~Contains(a, Fault)
    <3>1. Lists(Modified(a, m), Meant(c, m))
      BY <2>3, <2>5, <2>7, ModifiedMeans
    <3>2. QED
      BY <2>1, <2>2, <2>4, <2>7, <3>1
  <2>8. QED
    BY <2>6, <2>7
<1>8. n \in B
  <2> HIDE DEF B
  <2>1. QED
    BY <1>5, <1>6, <1>7, UpTo
<1>9. QED
  BY <1>2, <1>3, <1>4, <1>5, <1>8

-----------------------------------------------------------------------------
(* What import does with what it has gathered. *)

(* A variable that a library has not made yet is not defined.              *)
LEMMA NotMade ==
  ASSUME IInv, MadeInv, NEW l \in DOMAIN libs, NEW real \in Name, real \notin DOMAIN libs[l].env
  PROVE  ~Bound(Uid(l, real))
<1>1. SUFFICES ASSUME Bound(Uid(l, real)) PROVE FALSE
  OBVIOUS
<1>2. Made(libs, Uid(l, real))
  BY <1>1 DEF MadeInv, Bound
<1>3. PICK m \in DOMAIN libs : \E id \in DOMAIN libs[m].env : Uid(l, real) = Uid(m, id)
  BY <1>2 DEF Made
<1>4. PICK id \in DOMAIN libs[m].env : Uid(l, real) = Uid(m, id)
  BY <1>3
<1>5. NoSlash(l) /\ NoSlash(m) /\ id \in Name /\ l \in Name
  BY Facts DEF LibsOK, NoSlash
<1>6. l = m
  BY <1>4, <1>5, UidApart
<1>7. PICK p : p = l \o << "/" >>
  OBVIOUS
<1>8. p \in Name
  <2>1. "/" \in Char
    BY NamesAssumption
  <2>2. << "/" >> \in Seq(Char)
    BY <2>1, OneChar
  <2>3. QED
    BY <1>5, <1>7, <2>2, ConcatProperties DEF Name
<1>9. p \o real = p \o id
  BY <1>4, <1>6, <1>7 DEF Uid
<1>10. real = id
  BY <1>5, <1>8, <1>9, Cancelled
<1>11. QED
  BY <1>4, <1>6, <1>10

(* The names that the library does not have yet have no variable.          *)
Undefined(ls, l) == \A real \in Name : real \notin DOMAIN ls[l].env => ~Bound(Uid(l, real))

(* A name that is looked up the first time gets a variable of its own.     *)
LEMMA FindMakes ==
  ASSUME NEW ls, LibsOK(ls), NEW l \in DOMAIN ls, NEW id \in Name, id \notin DOMAIN ls[l].env,
         NEW new, new = pic_find_identifier(ls, l, id)
  PROVE  new[l].env[id] = Uid(l, id)
<1>1. PICK uid : uid = Uid(l, id)
  OBVIOUS
<1>2. uid \in Name
  BY <1>1, UidIs DEF LibsOK, NoSlash
<1>3. new = pic_put_identifier(ls, l, id, uid)
  BY <1>1 DEF pic_find_identifier, pic_put_identifier
<1>4. /\ LibsOK(new) /\ DOMAIN new = DOMAIN ls
      /\ id \in DOMAIN new[l].env /\ new[l].env[id] = uid
      /\ \A uids : Defined(ls, uids) /\ (uid = Uid(l, id) \/ uid \in uids) => Defined(new, uids)
  BY <1>2, <1>3, PutKept
<1>5. QED
  BY <1>1, <1>4

(* An import of one name that returns has found the variable.              *)
Taken(ls, l, name) == ls[l].env[ls[l].exports[name]]

LEMMA ImportOne ==
  ASSUME NEW ls, NEW l, NEW name, NEW alias, NEW r,
         LibsOK(ls), l \in DOMAIN ls, lib \in DOMAIN ls, name \in Name, alias \in Name, Undefined(ls, l),
         r = library_import(ls, l, name, alias), r.ok
  PROVE  /\ Taken(ls, l, name) \in Name
         /\ r.libs = pic_put_identifier(ls, lib, alias, Taken(ls, l, name))
<1>1. name \in DOMAIN ls[l].exports
  <2>1. SUFFICES ASSUME name \notin DOMAIN ls[l].exports PROVE FALSE
    OBVIOUS
  <2>2. r = [libs |-> ls, ok |-> FALSE]
    BY <2>1 DEF library_import
  <2>3. QED
    BY <2>2
<1>2. PICK real, found : real = ls[l].exports[name] /\ found = pic_find_identifier(ls, l, real)
  OBVIOUS
<1>3. real \in Name
  BY <1>1, <1>2 DEF LibsOK
<1>4. PICK uid : uid = found[l].env[real]
  OBVIOUS
<1>5. Bound(uid) /\ r.libs = pic_put_identifier(found, lib, alias, uid)
  <2>1. CASE Bound(uid)
    <3>1. PICK new : new = pic_put_identifier(found, lib, alias, uid)
      OBVIOUS
    <3>2. r = [libs |-> new, ok |-> TRUE]
      BY <1>1, <1>2, <1>4, <2>1, <3>1 DEF library_import
    <3>3. r.libs = new
      BY <3>2
    <3>4. QED
      BY <2>1, <3>1, <3>3
  <2>2. CASE ~Bound(uid)
    <3>1. r = [libs |-> found, ok |-> FALSE]
      BY <1>1, <1>2, <1>4, <2>2 DEF library_import
    <3>2. QED
      BY <3>1
  <2>3. QED
    BY <2>1, <2>2
<1>6. CASE real \in DOMAIN ls[l].env
  <2>1. found = ls
    BY <1>2, <1>6 DEF pic_find_identifier
  <2>2. ls[l].env[real] \in Name
    BY <1>6 DEF LibsOK
  <2>3. QED
    BY <1>2, <1>4, <1>5, <2>1, <2>2 DEF Taken
<1>7. CASE real \notin DOMAIN ls[l].env
  <2>1. PICK u : u = Uid(l, real)
    OBVIOUS
  <2>2. ~Bound(u)
    BY <1>3, <1>7, <2>1 DEF Undefined
  <2>3. found[l].env[real] = u
    BY <1>2, <1>3, <1>7, <2>1, FindMakes
  <2>4. QED
    BY <1>4, <1>5, <2>2, <2>3
<1>8. QED
  BY <1>6, <1>7

(* The libraries with the names of A bound in one of them as t has it.     *)
Over(ls, l, A, t) == [ls EXCEPT ![l].env = With(@, Restrict(t, A))]

LEMMA OverIs ==
  ASSUME NEW ls, NEW l, NEW A, NEW t, NEW new,
         LibsOK(ls), l \in DOMAIN ls, A \in SUBSET Name, new = Over(ls, l, A, t)
  PROVE  /\ new = [m \in DOMAIN ls |-> new[m]] /\ DOMAIN new = DOMAIN ls
         /\ new[l].env = With(ls[l].env, Restrict(t, A)) /\ new[l].exports = ls[l].exports
         /\ new[l] = [env |-> new[l].env, exports |-> new[l].exports]
         /\ \A m \in DOMAIN ls : m # l => new[m] = ls[m]
<1>1. PICK e, x : e = With(ls[l].env, Restrict(t, A)) /\ x = ls[l].exports
  OBVIOUS
<1>2. ls = [m \in DOMAIN ls |-> ls[m]] /\ ls[l] = [env |-> ls[l].env, exports |-> x]
  BY <1>1 DEF LibsOK
<1>3. PICK r : r = [env |-> e, exports |-> x]
  OBVIOUS
<1>4. r.env = e /\ r.exports = x /\ r = [env |-> r.env, exports |-> r.exports]
  BY <1>3
<1>5. [ls[l] EXCEPT !.env = e] = r
  BY <1>2, <1>3
<1>6. new = [ls EXCEPT ![l] = r]
  BY <1>1, <1>5 DEF Over
<1>7. DOMAIN new = DOMAIN ls /\ new[l] = r /\ \A m \in DOMAIN ls : m # l => new[m] = ls[m]
  BY <1>2, <1>6
<1>8. new = [m \in DOMAIN ls |-> new[m]]
  BY <1>2, <1>6, <1>7
<1>9. QED
  BY <1>1, <1>4, <1>7, <1>8

LEMMA OverElse ==
  ASSUME NEW ls, NEW l, NEW A, NEW t, NEW new, NEW m,
         LibsOK(ls), l \in DOMAIN ls, A \in SUBSET Name, new = Over(ls, l, A, t), m \in DOMAIN ls, m # l
  PROVE  DOMAIN new = DOMAIN ls /\ new[m] = ls[m]
<1>1. /\ new = [k \in DOMAIN ls |-> new[k]] /\ DOMAIN new = DOMAIN ls
      /\ new[l].env = With(ls[l].env, Restrict(t, A)) /\ new[l].exports = ls[l].exports
      /\ new[l] = [env |-> new[l].env, exports |-> new[l].exports]
      /\ \A k \in DOMAIN ls : k # l => new[k] = ls[k]
  BY OverIs
<1>2. QED
  BY <1>1

LEMMA OverNone ==
  ASSUME NEW ls, LibsOK(ls), NEW l \in DOMAIN ls, NEW t
  PROVE  Over(ls, l, {}, t) = ls
<1>1. PICK A, mid : A = {} /\ mid = Over(ls, l, A, t)
  OBVIOUS
<1>2. /\ mid = [m \in DOMAIN ls |-> mid[m]] /\ DOMAIN mid = DOMAIN ls
      /\ mid[l].env = With(ls[l].env, Restrict(t, A)) /\ mid[l].exports = ls[l].exports
      /\ mid[l] = [env |-> mid[l].env, exports |-> mid[l].exports]
      /\ \A m \in DOMAIN ls : m # l => mid[m] = ls[m]
  <2>1. A \in SUBSET Name /\ mid = Over(ls, l, A, t)
    BY <1>1
  <2>2. QED
    BY <2>1, OverIs
<1>3. /\ ls = [m \in DOMAIN ls |-> ls[m]]
      /\ ls[l] = [env |-> ls[l].env, exports |-> ls[l].exports]
      /\ ls[l].env = [id \in DOMAIN ls[l].env |-> ls[l].env[id]]
  BY DEF LibsOK
<1>4. PICK f, e : f = ls[l].env /\ e = mid[l].env
  OBVIOUS
<1>5. e = f
  <2>1. e = With(f, Restrict(t, A)) /\ f = [id \in DOMAIN f |-> f[id]]
    BY <1>2, <1>3, <1>4
  <2>2. DOMAIN e = DOMAIN f /\ e = [id \in DOMAIN f |-> e[id]] /\ \A id \in DOMAIN f : e[id] = f[id]
    BY <1>1, <2>1 DEF With, Restrict
  <2>3. QED
    BY <2>1, <2>2
<1>6. mid[l] = ls[l]
  BY <1>2, <1>3, <1>4, <1>5
<1>7. mid = ls
  BY <1>2, <1>3, <1>6
<1>8. QED
  BY <1>1, <1>7

(* One more of t's names.                                                  *)
LEMMA OverPut ==
  ASSUME NEW ls, NEW l, NEW A, NEW t, NEW mid, NEW a, NEW uid, NEW new,
         LibsOK(ls), l \in DOMAIN ls, A \in SUBSET Name, mid = Over(ls, l, A, t), LibsOK(mid),
         a \in Name, uid \in Name, uid = t[a], new = pic_put_identifier(mid, l, a, uid)
  PROVE  new = Over(ls, l, A \union {a}, t)
<1>1. PICK B, over : B = A \union {a} /\ over = Over(ls, l, B, t)
  OBVIOUS
<1>2. /\ mid = [m \in DOMAIN ls |-> mid[m]] /\ DOMAIN mid = DOMAIN ls
      /\ mid[l].env = With(ls[l].env, Restrict(t, A)) /\ mid[l].exports = ls[l].exports
      /\ mid[l] = [env |-> mid[l].env, exports |-> mid[l].exports]
      /\ \A m \in DOMAIN ls : m # l => mid[m] = ls[m]
  <2>1. A \in SUBSET Name /\ mid = Over(ls, l, A, t)
    OBVIOUS
  <2>2. QED
    BY <2>1, OverIs
<1>3. /\ over = [m \in DOMAIN ls |-> over[m]] /\ DOMAIN over = DOMAIN ls
      /\ over[l].env = With(ls[l].env, Restrict(t, B)) /\ over[l].exports = ls[l].exports
      /\ over[l] = [env |-> over[l].env, exports |-> over[l].exports]
      /\ \A m \in DOMAIN ls : m # l => over[m] = ls[m]
  <2>1. B \in SUBSET Name /\ over = Over(ls, l, B, t)
    BY <1>1
  <2>2. QED
    BY <2>1, OverIs
<1>4. /\ new = [m \in DOMAIN mid |-> new[m]] /\ DOMAIN new = DOMAIN mid
      /\ new[l].env = Put(mid[l].env, a, uid) /\ new[l].exports = mid[l].exports
      /\ new[l] = [env |-> new[l].env, exports |-> new[l].exports]
      /\ \A m \in DOMAIN mid : m # l => new[m] = mid[m]
  <2>1. l \in DOMAIN mid /\ uid \in Name
    BY <1>1, <1>2
  <2>2. QED
    BY <1>1, <2>1, PutIs
<1>5. new[l].env = over[l].env
  <2>1. PICK f, e, g, h :
          /\ f = ls[l].env /\ e = mid[l].env /\ g = new[l].env /\ h = over[l].env
    OBVIOUS
  <2>2. /\ DOMAIN e = DOMAIN f \union A /\ \A id \in A : e[id] = t[id]
        /\ \A id \in DOMAIN f : id \notin A => e[id] = f[id]
    <3>1. e = With(f, Restrict(t, A))
      BY <1>2, <2>1
    <3>2. QED
      BY <3>1 DEF With, Restrict
  <2>3. /\ h = [id \in DOMAIN h |-> h[id]]
        /\ DOMAIN h = DOMAIN f \union B /\ \A id \in B : h[id] = t[id]
        /\ \A id \in DOMAIN f : id \notin B => h[id] = f[id]
    <3>1. h = With(f, Restrict(t, B))
      BY <1>3, <2>1
    <3>2. QED
      BY <3>1 DEF With, Restrict
  <2>4. /\ g = [id \in DOMAIN g |-> g[id]]
        /\ DOMAIN g = DOMAIN e \union {a} /\ g[a] = uid /\ \A id \in DOMAIN e : id # a => g[id] = e[id]
    <3>1. g = Put(e, a, uid)
      BY <1>4, <2>1
    <3>2. QED
      BY <3>1 DEF Put
  <2>5. DOMAIN g = DOMAIN h
    BY <1>1, <2>2, <2>3, <2>4
  <2>6. \A id \in DOMAIN h : g[id] = h[id]
    BY <1>1, <2>2, <2>3, <2>4
  <2>7. g = h
    BY <2>3, <2>4, <2>5, <2>6
  <2>8. QED
    BY <2>1, <2>7
<1>6. \A m \in DOMAIN ls : new[m] = over[m]
  BY <1>2, <1>3, <1>4, <1>5
<1>7. new = over
  BY <1>2, <1>3, <1>4, <1>6
<1>8. QED
  BY <1>1, <1>7

(* An import of many that returns has imported every slot.                 *)
LEMMA ImportedOver ==
  ASSUME IInv, MadeInv, NEW l \in DOMAIN libs, l # lib, NEW slots \in Seq(SlotOrNot), NEW d \in NameMaps,
         \A i \in 1 .. Len(slots) :
           slots[i] \in Name \X Name => slots[i][1] \in DOMAIN d /\ slots[i][2] = d[slots[i][1]],
         NEW t, t = [id \in DOMAIN d |-> libs[l].env[libs[l].exports[d[id]]]],
         Imported(l, slots).ok
  PROVE  /\ \A i \in 1 .. Len(slots) : slots[i] \in Name \X Name
         /\ Imported(l, slots).libs = Over(libs, lib, {slots[i][1] : i \in 1 .. Len(slots)}, t)
<1>1. PICK n : n = Len(slots)
  OBVIOUS
<1>2. n \in Nat /\ n \in 0 .. n /\ Len(slots) \in Nat
  BY <1>1, Listed
<1>3. PICK done :
        /\ Imported(l, slots) = done[Len(slots)]
        /\ done[0] = [libs |-> libs, ok |-> TRUE]
        /\ \A k \in 1 .. Len(slots) : done[k] = Slotted(done[k - 1], l, slots[k])
  BY <1>2, ImportedBy
<1>4. LibsOK(libs) /\ lib \in DOMAIN libs
  BY Facts
<1>5. Undefined(libs, l)
  BY NotMade DEF Undefined
<1> DEFINE A(k) == {slots[i][1] : i \in 1 .. k}
           Good(k) == /\ \A i \in 1 .. k : slots[i] \in Name \X Name
                      /\ LibsOK(done[k].libs) /\ done[k].libs = Over(libs, lib, A(k), t)
           B == {k \in 0 .. n : done[k].ok => Good(k)}
<1>6. 0 \in B
  <2>1. A(0) = {} /\ \A i \in 1 .. 0 : FALSE
    OBVIOUS
  <2>2. Over(libs, lib, {}, t) = libs
    BY <1>4, OverNone
  <2>8. done[0].libs = libs
    BY <1>3
  <2>9. Good(0)
    BY <1>4, <2>1, <2>2, <2>8
  <2> HIDE DEF Good
  <2>10. QED
    BY <1>2, <2>9
<1>7. ASSUME NEW k \in 1 .. n, k - 1 \in B PROVE k \in B
  <2>1. PICK p, q, s : p = done[k - 1] /\ q = done[k] /\ s = slots[k]
    OBVIOUS
  <2>2. k \in 0 .. n /\ k - 1 \in 0 .. n /\ k \in 1 .. Len(slots)
    BY <1>1, <1>2
  <2>3. q = Slotted(p, l, s)
    BY <1>3, <2>1, <2>2
  <2>4. SUFFICES ASSUME q.ok PROVE Good(k)
    <3> HIDE DEF Good
    <3>1. QED
      BY <2>1, <2>2
  <2>5. p.ok /\ s \in Name \X Name
    <3>1. SUFFICES ASSUME ~p.ok \/ s \notin Name \X Name PROVE FALSE
      OBVIOUS
    <3>2. q = [libs |-> p.libs, ok |-> FALSE]
      BY <2>3, <3>1 DEF Slotted
    <3>3. QED
      BY <2>4, <3>2
  <2>6. Good(k - 1)
    BY <1>7, <2>1, <2>5
  <2>7. PICK ls, a, name, C : ls = p.libs /\ a = s[1] /\ name = s[2] /\ C = A(k - 1)
    OBVIOUS
  <2>8. /\ \A i \in 1 .. k - 1 : slots[i] \in Name \X Name
        /\ LibsOK(ls) /\ ls = Over(libs, lib, C, t)
    BY <2>1, <2>6, <2>7
  <2>9. C \in SUBSET Name
    BY <2>7, <2>8
  <2>10. a \in Name /\ name \in Name /\ a \in DOMAIN d /\ name = d[a]
    BY <2>1, <2>2, <2>5, <2>7
  <2>11. DOMAIN ls = DOMAIN libs /\ ls[l] = libs[l]
    BY <1>4, <2>8, <2>9, OverElse
  <2>12. q = library_import(ls, l, name, a)
    BY <2>3, <2>5, <2>7 DEF Slotted
  <2>13. /\ LibsOK(ls) /\ l \in DOMAIN ls /\ lib \in DOMAIN ls /\ name \in Name /\ a \in Name
         /\ Undefined(ls, l) /\ q = library_import(ls, l, name, a) /\ q.ok
    <3>1. l \in DOMAIN ls /\ lib \in DOMAIN ls
      BY <1>4, <2>11
    <3>2. Undefined(ls, l)
      BY <1>5, <2>11 DEF Undefined
    <3>3. QED
      BY <2>4, <2>8, <2>10, <2>12, <3>1, <3>2
  <2>14. /\ Taken(ls, l, name) \in Name
         /\ q.libs = pic_put_identifier(ls, lib, a, Taken(ls, l, name))
    <3> HIDE DEF A, Good, B
    <3>1. QED
      BY <2>13, ImportOne
  <2>15. t[a] = Taken(ls, l, name)
    BY <2>10, <2>11 DEF Taken
  <2>16. q.libs = pic_put_identifier(ls, lib, a, t[a]) /\ t[a] \in Name
    BY <2>14, <2>15
  <2>17. q.libs = Over(libs, lib, C \union {a}, t)
    <3>1. /\ LibsOK(libs) /\ lib \in DOMAIN libs /\ C \in SUBSET Name /\ a \in Name
          /\ ls = Over(libs, lib, C, t) /\ LibsOK(ls)
      BY <1>4, <2>8, <2>9, <2>10, <2>16
    <3>2. PICK uid, new : uid = t[a] /\ new = q.libs
      OBVIOUS
    <3>3. uid \in Name /\ uid = t[a] /\ new = pic_put_identifier(ls, lib, a, uid)
      BY <2>16, <3>2
    <3> HIDE DEF A, Good, B
    <3>4. new = Over(libs, lib, C \union {a}, t)
      BY <3>1, <3>3, OverPut
    <3>5. QED
      BY <3>2, <3>4
  <2>18. LibsOK(q.libs)
    <3> HIDE DEF A, Good, B
    <3>1. Kept(ls, q.libs) /\ DOMAIN q.libs = DOMAIN ls
      BY <2>13, ImportKept
    <3>2. QED
      BY <3>1 DEF Kept
  <2>19. A(k) = C \union {a}
    <3>1. \A i \in 1 .. k : i \in 1 .. k - 1 \/ i = k
      BY <2>2
    <3>2. \A i \in 1 .. k - 1 : i \in 1 .. k
      BY <2>2
    <3>3. k \in 1 .. k
      BY <2>2
    <3>4. QED
      BY <2>1, <2>7, <3>1, <3>2, <3>3
  <2>20. \A i \in 1 .. k : slots[i] \in Name \X Name
    <3>1. \A i \in 1 .. k : i \in 1 .. k - 1 \/ i = k
      BY <2>2
    <3>2. QED
      BY <2>1, <2>5, <2>8, <3>1
  <2>21. QED
    BY <2>1, <2>17, <2>18, <2>19, <2>20
<1>8. n \in B
  <2> HIDE DEF B
  <2>1. QED
    BY <1>2, <1>6, <1>7, UpTo
<1>9. done[n].ok
  BY <1>1, <1>3
<1>10. Good(n)
  BY <1>8, <1>9
<1>11. QED
  BY <1>1, <1>3, <1>10

(* An import of many that returns was of slots only.                       *)
LEMMA ImportedAll ==
  ASSUME NEW l \in DOMAIN libs, NEW slots \in Seq(SlotOrNot), Imported(l, slots).ok
  PROVE  \A i \in 1 .. Len(slots) : slots[i] \in Name \X Name
<1>1. PICK n : n = Len(slots)
  OBVIOUS
<1>2. n \in Nat /\ n \in 0 .. n /\ Len(slots) \in Nat
  BY <1>1, Listed
<1>3. PICK done :
        /\ Imported(l, slots) = done[Len(slots)]
        /\ done[0] = [libs |-> libs, ok |-> TRUE]
        /\ \A k \in 1 .. Len(slots) : done[k] = Slotted(done[k - 1], l, slots[k])
  BY <1>2, ImportedBy
<1> DEFINE B == {k \in 0 .. n : done[k].ok => \A i \in 1 .. k : slots[i] \in Name \X Name}
<1>4. 0 \in B
  BY <1>2
<1>5. ASSUME NEW k \in 1 .. n, k - 1 \in B PROVE k \in B
  <2>1. PICK p, q, s : p = done[k - 1] /\ q = done[k] /\ s = slots[k]
    OBVIOUS
  <2>2. k \in 0 .. n /\ q = Slotted(p, l, s)
    BY <1>1, <1>2, <1>3, <2>1
  <2>3. ASSUME q.ok PROVE p.ok /\ s \in Name \X Name
    <3>1. SUFFICES ASSUME ~p.ok \/ s \notin Name \X Name PROVE FALSE
      OBVIOUS
    <3>2. q = [libs |-> p.libs, ok |-> FALSE]
      BY <2>2, <3>1 DEF Slotted
    <3>3. QED
      BY <2>3, <3>2
  <2>4. \A i \in 1 .. k : i \in 1 .. k - 1 \/ i = k
    BY <1>2
  <2>5. QED
    BY <1>5, <2>1, <2>2, <2>3, <2>4
<1>6. n \in B
  <2> HIDE DEF B
  <2>1. QED
    BY <1>2, <1>4, <1>5, UpTo
<1>7. QED
  BY <1>1, <1>3, <1>6

(* An import that succeeds binds what its import set denotes.              *)
LEMMA ImportBinds ==
  ASSUME IInv, MadeInv, NEW l \in DOMAIN libs, l # lib, NEW mods, Wellformed(mods),
         \A i \in DOMAIN mods : mods[i].kind # "rename", Import(l, mods), ~raising'
  PROVE  libs' = [libs EXCEPT ![lib].env = With(@, Bindings(l, mods))]
<1>1. PICK exports \in SetToSeqs(Exports(l)) :
        \E r \in {Imported(l, collect(exports, mods))} : libs' = r.libs /\ Fails(r.ok)
  BY DEF Import
<1>2. PICK slots, S, d, t :
        /\ slots = collect(exports, mods) /\ S = Exports(l) /\ d = Denoted(S, mods)
        /\ t = [id \in DOMAIN d |-> libs[l].env[libs[l].exports[d[id]]]]
  OBVIOUS
<1>3. libs' = Imported(l, slots).libs /\ Imported(l, slots).ok
  BY <1>1, <1>2 DEF Fails
<1>4. S \in SUBSET Name /\ IsFiniteSet(S) /\ exports \in SetToSeqs(S)
  BY <1>1, <1>2, Facts DEF LibsOK, Exports
<1>5. d \in NameMaps /\ Lists(slots, d)
  BY <1>2, <1>4, CollectMeans
<1>6. slots \in Seq(SlotOrNot)
  BY <1>2, <1>4, OrderIs, CollectIs
<1>7. \A i \in 1 .. Len(slots) : slots[i] \in Name \X Name
  BY <1>3, <1>6, ImportedAll
<1>8. ToSet(slots) = {slots[i] : i \in 1 .. Len(slots)}
  BY <1>6, SetOf
<1>9. ~Contains(slots, Fault)
  <2>1. SUFFICES ASSUME Contains(slots, Fault) PROVE FALSE
    OBVIOUS
  <2>2. Fault \in SlotOrNot
    BY DEF SlotOrNot
  <2>3. PICK i \in 1 .. Len(slots) : slots[i] = Fault
    BY <1>6, <1>8, <2>1, <2>2, SetOf
  <2>4. QED
    BY <1>7, <2>3, TwoOf
<1>10. /\ ToSet(slots) \ {NoSlot} = Pairs(d)
       /\ \A x \in ToSet(slots) : x # NoSlot => x \in Name \X Name /\ x[1] \in DOMAIN d /\ x[2] = d[x[1]]
  BY <1>5, <1>6, <1>9, ListsIs
<1>11. \A i \in 1 .. Len(slots) :
         slots[i] # NoSlot /\ slots[i] \in Pairs(d) /\ slots[i][1] \in DOMAIN d /\ slots[i][2] = d[slots[i][1]]
  BY <1>7, <1>8, <1>10, TwoOf
<1>12. {slots[i][1] : i \in 1 .. Len(slots)} = DOMAIN d
  <2>1. ASSUME NEW a \in DOMAIN d PROVE \E i \in 1 .. Len(slots) : a = slots[i][1]
    <3>1. << a, d[a] >> \in Pairs(d)
      BY DEF Pairs
    <3>2. PICK i \in 1 .. Len(slots) : slots[i] = << a, d[a] >>
      BY <1>8, <1>10, <3>1
    <3>3. QED
      BY <3>2
  <2>2. \A i \in 1 .. Len(slots) : slots[i][1] \in DOMAIN d
    BY <1>11
  <2>3. QED
    BY <2>1, <2>2
<1>13. libs' = Over(libs, lib, {slots[i][1] : i \in 1 .. Len(slots)}, t)
  <2>1. slots \in Seq(SlotOrNot) /\ d \in NameMaps /\ Imported(l, slots).ok
    BY <1>3, <1>5, <1>6
  <2>2. \A i \in 1 .. Len(slots) :
          slots[i] \in Name \X Name => slots[i][1] \in DOMAIN d /\ slots[i][2] = d[slots[i][1]]
    BY <1>11
  <2>3. t = [id \in DOMAIN d |-> libs[l].env[libs[l].exports[d[id]]]]
    BY <1>2
  <2>4. Imported(l, slots).libs = Over(libs, lib, {slots[i][1] : i \in 1 .. Len(slots)}, t)
    BY <2>1, <2>2, <2>3, ImportedOver
  <2>5. QED
    BY <1>3, <2>4
<1>14. libs' = Over(libs, lib, DOMAIN d, t)
  BY <1>12, <1>13
<1>15. Restrict(t, DOMAIN d) = t
  BY <1>2 DEF Restrict
<1>16. Bindings(l, mods) = t
  BY <1>2 DEF Bindings
<1>17. QED
  BY <1>14, <1>15, <1>16 DEF Over

(* What an import that succeeds binds, for every import set without rename *)
(* and whatever order the exports come in: the names its import set denotes *)
(* by R7RS, each to the exporting library's variable, and no other name is *)
(* touched (boot.c:606-662, lib.c:271-301).  What the import creates on the *)
(* way for a name the exporting library does not have yet is not found     *)
(* again, because a variable nobody has made is not defined.               *)
THEOREM ImportsAsDenoted == Spec => ImportsRight
<1>1. ASSUME IInv, MadeInv PROVE
         \A set \in ImportSets :
           (~raising' /\ mangle(set.title) # lib
              /\ (\A i \in DOMAIN set.mods : set.mods[i].kind # "rename") /\ import_set(set))
           => libs' = [libs EXCEPT ![lib].env = With(@, Bindings(mangle(set.title), set.mods))]
  <2>1. SUFFICES ASSUME NEW set \in ImportSets, ~raising', mangle(set.title) # lib,
                        \A i \in DOMAIN set.mods : set.mods[i].kind # "rename", import_set(set)
                 PROVE  libs' = [libs EXCEPT ![lib].env = With(@, Bindings(mangle(set.title), set.mods))]
    OBVIOUS
  <2>2. PICK l, mods : l = mangle(set.title) /\ mods = set.mods
    OBVIOUS
  <2>3. l \in DOMAIN libs /\ l # lib /\ Import(l, mods) /\ ~raising' /\ \A i \in DOMAIN mods : mods[i].kind # "rename"
    BY <2>1, <2>2 DEF import_set
  <2>4. Wellformed(mods)
    BY <2>2, ImportsAssumption DEF Wellformed
  <2>5. libs' = [libs EXCEPT ![lib].env = With(@, Bindings(l, mods))]
    BY <1>1, <2>3, <2>4, ImportBinds
  <2>6. QED
    BY <2>2, <2>5
<1>2. IInv /\ MadeInv /\ [Next]_vars => IInv' /\ MadeInv'
  BY StepInv, StepMade
<1>3. Init => IInv /\ MadeInv
  BY InitInv, InitMade
<1>4. QED
  BY <1>1, <1>2, <1>3, PTL DEF Spec, ImportsRight
=============================================================================
