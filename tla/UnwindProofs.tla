----------------------------- MODULE UnwindProofs -----------------------------
(***************************************************************************)
(* What holds of escapes, dynamic-wind, handlers and pic_try for every     *)
(* program, whatever the depth of its C stack.                             *)
(***************************************************************************)
EXTENDS Unwind, Induction, SequenceTheorems

(* A token is the address a continuation or a native handler holds.        *)
Token == [addr : Addr, live : BOOLEAN]
Handler == Token \cup {User}
CpRec == [frame : Nat, new : Seq(Handler) \cup {Nil}, old : Seq(Handler) \cup {Nil}]

PointFrame == [kind : {"callcc", "try"}, addr : Addr, ai : Nat]
WindFrame == [kind : {"wind"}, stage : {"in", "thunk", "out"}, ai : Nat]
BindFrame == [kind : {"bind"}, handler : Handler, error : Errors \cup {Nil},
              then : {"raise", "return"}, ai : Nat]
LoadFrame == [kind : {"load"}, token : Token, error : Errors \cup {Nil},
              calls : Seq({"in", "out"} \X CpRec), ai : Nat]
ThunkFrame == [kind : {"thunk"}, ai : Nat]
Frame == PointFrame \cup WindFrame \cup BindFrame \cup LoadFrame \cup ThunkFrame

TypeOK ==
  /\ stack \in Seq(Frame)
  /\ cp \in Seq(CpRec)
  /\ exc \in Seq(Handler)
  /\ cc \in Addr \cup {Nil}
  /\ cont \in [Addr -> [cp : Seq(CpRec), arena : Nat, prev : Addr \cup {Nil},
                        exc : Seq(Handler)]]
  /\ arena \in Seq(Addr)
  /\ err \in Errors \cup {Nil}
  /\ held \subseteq Token
  /\ panic \in BOOLEAN /\ lost \in BOOLEAN

-----------------------------------------------------------------------------
IsLoad(f) == stack[f].kind = "load"
Saved(f) == cont[stack[f].addr]            \* of a point
Goal(g) == cont[stack[g].token.addr]       \* of a load

(* A checkpoint with handlers belongs to a pic_dynamic_bind or a pic_try.  *)
Binds(i) == cp[i].old # Nil

CpInv ==
  /\ CpMatchesStack
  /\ \A i \in 1 .. Len(cp) : Binds(i) <=> stack[cp[i].frame].kind # "wind"

(* The points have addresses of their own, and the chain links them.       *)
PointInv ==
  /\ \A f, g \in 1 .. Len(stack) :
       IsPoint(f) /\ IsPoint(g) /\ stack[f].addr = stack[g].addr => f = g
  /\ ChainMatchesStack

(* A frame leaves alone the arena it found, and a point is on it.          *)
ArenaInv ==
  /\ \A f, g \in 1 .. Len(stack) : f <= g => stack[f].ai <= stack[g].ai
  /\ \A f \in 1 .. Len(stack) : stack[f].ai <= Len(arena)
  /\ \A f \in 1 .. Len(stack) :
       IsPoint(f) => /\ stack[f].ai \in 1 .. Len(arena)
                     /\ arena[stack[f].ai] = stack[f].addr
                     /\ Saved(f).arena = stack[f].ai

(* b is what is left of the checkpoints c below frame f.                   *)
CutAt(b, c, f) ==
  /\ Len(b) <= Len(c)
  /\ \A i \in 1 .. Len(b) : b[i] = c[i] /\ c[i].frame < f
  /\ \A i \in Len(b) + 1 .. Len(c) : c[i].frame >= f

SavedInv ==
  \A f \in 1 .. Len(stack) : IsPoint(f) => CutAt(Saved(f).cp, cp, f)

(* What an escape has still to call: the outs of the checkpoints between   *)
(* its goal and some checkpoint below its own frame.                       *)
LoadOk(g) ==
  /\ \E f \in 1 .. g - 1 : IsPoint(f) /\ stack[f].addr = stack[g].token.addr
  /\ LET p == Len(Goal(g).cp)
         n == Len(stack[g].calls) IN
       /\ p + n <= Len(cp)
       /\ \A i \in 1 .. p + n : cp[i].frame < g
       /\ \A i \in 1 .. n : stack[g].calls[i] = << "out", cp[p + n + 1 - i] >>
LoadInv == \A g \in 1 .. Len(stack) : IsLoad(g) => LoadOk(g)

-----------------------------------------------------------------------------
(* The native handlers of h belong to pic_trys among the first n frames.   *)
TrysAmong(h, n) ==
  \A i \in 1 .. Len(h) :
    h[i] # User =>
      \E f \in 1 .. n : stack[f].kind = "try" /\ stack[f].addr = h[i].addr

AliveAt(f) == IsPoint(f) => TrysAmong(Saved(f).exc, f - 1)
AliveInv ==
  /\ TrysAmong(exc, Len(stack))
  /\ \A i \in 1 .. Len(cp) : Binds(i) => TrysAmong(cp[i].old, cp[i].frame - 1)
  /\ \A f \in 1 .. Len(stack) : AliveAt(f)

(* No escape started above f, and below frame d, goes further out than f.  *)
Quiet(f, d) ==
  \A g \in f + 1 .. d - 1, h \in 1 .. f - 1 :
    ~ (IsLoad(g) /\ IsPoint(h) /\ stack[h].addr = stack[g].token.addr)

(* i is the innermost checkpoint with handlers at f or above it.           *)
NoBinds(f) == \A i \in 1 .. Len(cp) : Binds(i) => cp[i].frame < f
FirstBinds(f, i) ==
  /\ Binds(i) /\ cp[i].frame >= f
  /\ \A j \in 1 .. i - 1 : Binds(j) => cp[j].frame < f

(* The handlers frame f started with are e, and will be put back when what *)
(* is above it is left.                                                    *)
Settled(f, e) ==
  /\ NoBinds(f) /\ Quiet(f, Len(stack) + 1) => exc = e
  /\ \A i \in 1 .. Len(cp) :
       FirstBinds(f, i) /\ Quiet(f, cp[i].frame) => cp[i].old = e

(* i is the outermost checkpoint with handlers that load g leaves, and its *)
(* out has been called.                                                    *)
PutBack(g, i) ==
  /\ Binds(i) /\ cp[i].frame < g
  /\ i > Len(Goal(g).cp) + Len(stack[g].calls)
  /\ \A j \in Len(Goal(g).cp) + 1 .. i - 1 : ~ Binds(j)

SettledAt(f) ==
  /\ IsPoint(f) => Settled(f, Saved(f).exc)
  /\ IsLoad(f) => \A i \in 1 .. Len(cp) : PutBack(f, i) => Settled(f, cp[i].old)
SettledInv == \A f \in 1 .. Len(stack) : SettledAt(f)

HandlerInv == ~ lost => AliveInv /\ SettledInv

IInv ==
  /\ TypeOK /\ CpInv /\ PointInv /\ ArenaInv /\ SavedInv /\ LoadInv /\ HandlerInv

-----------------------------------------------------------------------------
(* What a step leaves in place: the first n frames, the continuations of   *)
(* the points among them, and the first k checkpoints.  The others, before *)
(* and after the step, lie above every point and every escape that stays.  *)
Alike(f) ==
  /\ stack'[f].kind = stack[f].kind /\ stack'[f].ai = stack[f].ai
  /\ IsPoint(f) => /\ stack'[f].addr = stack[f].addr
                   /\ cont'[stack[f].addr] = Saved(f)
  /\ IsLoad(f) => stack'[f].token = stack[f].token

Stays(n, k) ==
  /\ n \in 0 .. Len(stack) /\ n <= Len(stack')
  /\ \A f \in 1 .. n : Alike(f)
  /\ k \in 0 .. Len(cp) /\ k <= Len(cp')
  /\ \A i \in 1 .. k : cp'[i] = cp[i] /\ cp[i].frame <= n
  /\ \A f \in 1 .. n :
       IsPoint(f) \/ IsLoad(f) =>
         /\ \A i \in k + 1 .. Len(cp) : cp[i].frame >= f
         /\ \A i \in k + 1 .. Len(cp') : cp'[i].frame >= f

(* The fields a frame of each kind has.                                    *)
LEMMA Lengths ==
  ASSUME TypeOK, TypeOK'
  PROVE  /\ Len(stack) \in Nat /\ Len(stack') \in Nat
         /\ Len(cp) \in Nat /\ Len(cp') \in Nat
BY DEF TypeOK

LEMMA FrameFields ==
  ASSUME TypeOK, NEW f \in 1 .. Len(stack)
  PROVE  /\ stack[f] \in Frame /\ stack[f].ai \in Nat
         /\ IsPoint(f) => stack[f] \in PointFrame /\ stack[f].addr \in Addr
         /\ stack[f].kind = "wind" => stack[f] \in WindFrame
         /\ stack[f].kind = "bind" => stack[f] \in BindFrame
         /\ IsLoad(f) => /\ stack[f] \in LoadFrame
                         /\ stack[f].token \in Token
                         /\ stack[f].token.addr \in Addr
                         /\ stack[f].calls \in Seq({"in", "out"} \X CpRec)
<1>1. stack[f] \in Frame
  BY DEF TypeOK
<1>2. QED
  BY <1>1 DEF Frame, PointFrame, WindFrame, BindFrame, LoadFrame, ThunkFrame,
              IsPoint, IsLoad, Token

LEMMA CpFields ==
  ASSUME TypeOK, NEW i \in 1 .. Len(cp)
  PROVE  /\ cp[i] \in CpRec /\ cp[i].frame \in Nat
         /\ Binds(i) => cp[i].old \in Seq(Handler)
<1>1. cp[i] \in CpRec
  BY DEF TypeOK
<1>2. cp[i].frame \in Nat /\ cp[i].old \in Seq(Handler) \cup {Nil}
  BY <1>1 DEF CpRec
<1>3. QED
  BY <1>1, <1>2 DEF Binds

(* Checkpoints are in the order of their frames.                           *)
LEMMA CpOrder ==
  ASSUME TypeOK, CpInv
  PROVE  /\ \A i, j \in 1 .. Len(cp) : i < j => cp[i].frame < cp[j].frame
         /\ \A i \in 1 .. Len(cp) : cp[i].frame \in 1 .. Len(stack) /\ Inside(cp[i].frame)
         /\ \A f \in 1 .. Len(stack) :
              Inside(f) => \E i \in 1 .. Len(cp) : cp[i].frame = f
BY DEF CpInv, CpMatchesStack

LEMMA SavedStays ==
  ASSUME TypeOK, TypeOK', SavedInv, NEW n, NEW k, Stays(n, k),
         NEW f \in 1 .. n, IsPoint(f)
  PROVE  IsPoint(f)' /\ CutAt(Saved(f).cp, cp, f)'
<1>1. f \in 1 .. Len(stack) /\ f \in 1 .. Len(stack') /\ Alike(f)
  BY DEF Stays
<1>2. IsPoint(f)' /\ Saved(f)' = Saved(f)
  BY <1>1 DEF Alike, IsPoint, Saved
<1>3. CutAt(Saved(f).cp, cp, f)
  BY <1>1 DEF SavedInv
<1>4. \A i \in 1 .. Len(cp) : cp[i].frame < f => i <= k
  BY <1>1, CpFields DEF Stays
<1> DEFINE b == Saved(f).cp
<1>5. Saved(f) \in [cp : Seq(CpRec), arena : Nat, prev : Addr \cup {Nil},
                    exc : Seq(Handler)]
  BY <1>1, FrameFields DEF TypeOK, Saved
<1>6. Len(b) \in Nat /\ Len(cp) \in Nat /\ Len(cp') \in Nat
  BY <1>5 DEF TypeOK
<1> HIDE DEF b
<1>7. Len(b) <= k
  BY <1>3, <1>4, <1>6 DEF CutAt, Stays, b
<1>8. CutAt(b, cp', f)
  <2>1. \A i \in 1 .. Len(b) : b[i] = cp'[i] /\ cp'[i].frame < f
    <3>1. TAKE i \in 1 .. Len(b)
    <3>2. i \in 1 .. k
      BY <1>6, <1>7 DEF Stays
    <3>3. b[i] = cp[i] /\ cp[i].frame < f
      BY <1>3 DEF CutAt, b
    <3>4. cp'[i] = cp[i]
      BY <3>2 DEF Stays
    <3>5. QED
      BY <3>3, <3>4
  <2>2. \A i \in Len(b) + 1 .. Len(cp') : cp'[i].frame >= f
    <3>1. TAKE i \in Len(b) + 1 .. Len(cp')
    <3>2. CASE i <= k
      <4>1. i \in 1 .. k /\ i \in Len(b) + 1 .. Len(cp)
        BY <3>2, <1>6 DEF Stays
      <4>2. cp[i].frame >= f /\ cp'[i] = cp[i]
        BY <4>1, <1>3 DEF CutAt, Stays, b
      <4>3. QED
        BY <4>2
    <3>3. CASE i > k
      <4>1. i \in k + 1 .. Len(cp')
        BY <3>3, <1>6 DEF Stays
      <4>2. QED
        BY <4>1 DEF Stays
    <3>4. QED
      BY <3>2, <3>3, <1>6 DEF Stays
  <2>3. Len(b) <= Len(cp')
    BY <1>6, <1>7 DEF Stays
  <2>4. QED
    BY <2>1, <2>2, <2>3 DEF CutAt
<1>9. QED
  BY <1>2, <1>8 DEF b

LEMMA LoadStays ==
  ASSUME TypeOK, TypeOK', LoadInv, NEW n, NEW k, Stays(n, k),
         NEW g \in 1 .. n, IsLoad(g), stack'[g].calls = stack[g].calls
  PROVE  IsLoad(g)' /\ LoadOk(g)'
<1>1. g \in 1 .. Len(stack) /\ g \in 1 .. Len(stack') /\ Alike(g) /\ LoadOk(g)
  BY DEF Stays, LoadInv
<1>2. PICK f \in 1 .. g - 1 : IsPoint(f) /\ stack[f].addr = stack[g].token.addr
  BY <1>1 DEF LoadOk
<1>3. f \in 1 .. n /\ f \in 1 .. Len(stack) /\ Alike(f)
  BY <1>2 DEF Stays
<1>4. IsLoad(g)' /\ stack'[g].token = stack[g].token
  BY <1>1 DEF Alike, IsLoad
<1>5. IsPoint(f)' /\ stack'[f].addr = stack'[g].token.addr /\ Goal(g)' = Goal(g)
  BY <1>2, <1>3, <1>4 DEF Alike, IsPoint, Goal, Saved
<1> DEFINE p == Len(Goal(g).cp)
           m == Len(stack[g].calls)
<1>6. p \in Nat /\ m \in Nat
  <2>1. stack[g].token.addr \in Addr /\ stack[g].calls \in Seq({"in", "out"} \X CpRec)
    BY <1>1, FrameFields
  <2>2. Goal(g).cp \in Seq(CpRec)
    BY <2>1 DEF Goal, TypeOK
  <2>3. QED
    BY <2>1, <2>2
<1>7. \A i \in 1 .. Len(cp) : cp[i].frame < g => i <= k
  BY <1>1, CpFields DEF Stays
<1> HIDE DEF p, m
<1>8. /\ p + m <= Len(cp) /\ \A i \in 1 .. p + m : cp[i].frame < g
      /\ \A i \in 1 .. m : stack[g].calls[i] = << "out", cp[p + m + 1 - i] >>
  BY <1>1 DEF LoadOk, p, m
<1>9. p + m <= k
  <2>1. k \in Nat /\ Len(cp) \in Nat
    BY Lengths DEF Stays
  <2>2. CASE p + m = 0
    BY <2>1, <2>2
  <2>3. CASE p + m # 0
    <3>1. p + m \in 1 .. p + m /\ p + m \in 1 .. Len(cp)
      BY <1>6, <1>8, <2>1, <2>3
    <3>2. QED
      BY <1>7, <1>8, <3>1
  <2>4. QED
    BY <2>2, <2>3
<1>10. \A i \in 1 .. p + m : cp'[i] = cp[i]
  <2>1. k \in Nat /\ \A i \in 1 .. k : cp'[i] = cp[i]
    BY Lengths DEF Stays
  <2>2. \A i \in 1 .. p + m : i \in 1 .. k
    BY <1>6, <1>9, <2>1
  <2>3. QED
    BY <2>1, <2>2
<1>11. \A i \in 1 .. m : p + m + 1 - i \in 1 .. p + m
  BY <1>6
<1>12. /\ p + m <= Len(cp') /\ \A i \in 1 .. p + m : cp'[i].frame < g
       /\ \A i \in 1 .. m : stack'[g].calls[i] = << "out", cp'[p + m + 1 - i] >>
  <2>1. p + m <= Len(cp')
    BY <1>6, <1>9 DEF Stays, TypeOK
  <2>2. \A i \in 1 .. p + m : cp'[i].frame < g
    BY <1>8, <1>10
  <2>3. \A i \in 1 .. m : stack'[g].calls[i] = << "out", cp'[p + m + 1 - i] >>
    BY <1>8, <1>10, <1>11
  <2>4. QED
    BY <2>1, <2>2, <2>3
<1>13. p = Len(Goal(g)'.cp) /\ m = Len(stack'[g].calls)
  BY <1>5 DEF p, m
<1>14. \E h \in 1 .. g - 1 : IsPoint(h)' /\ stack'[h].addr = stack'[g].token.addr
  BY <1>5
<1>15. QED
  BY <1>4, <1>12, <1>13, <1>14 DEF LoadOk

-----------------------------------------------------------------------------
(* A step that leaves what is above the first n frames and k checkpoints:  *)
(* it brings back the handlers from before the first of those checkpoints  *)
(* that has handlers, and no escape above n goes further out than n.       *)
Outermost(k, i) == Binds(i) /\ \A j \in k + 1 .. i - 1 : ~ Binds(j)
Returns(n, k) ==
  /\ Stays(n, k)
  /\ \A i \in k + 1 .. Len(cp') : ~ Binds(i)'
  /\ (\A i \in k + 1 .. Len(cp) : ~ Binds(i)) => exc' = exc
  /\ \A i \in k + 1 .. Len(cp) : Outermost(k, i) => exc' = cp[i].old
  /\ \A g \in n + 1 .. Len(stack), h \in 1 .. n :
       ~ (IsLoad(g) /\ IsPoint(h) /\ stack[h].addr = stack[g].token.addr)

(* A step that enters an extent with handlers of its own.                  *)
Enters ==
  /\ Stays(Len(stack), Len(cp))
  /\ Len(cp') = Len(cp) + 1
  /\ cp'[Len(cp) + 1].frame = Len(stack) + 1
  /\ cp'[Len(cp) + 1].old = exc

LEMMA NilNotSeq ==
  Nil \notin Seq(Handler) /\ Nil \notin Addr
<1>1. Handler \subseteq [addr : Addr \cup {Nil}, live : BOOLEAN]
  <2>1. Token \subseteq [addr : Addr \cup {Nil}, live : BOOLEAN]
    <3>1. Addr \subseteq Addr \cup {Nil}
      OBVIOUS
    <3>2. SUFFICES ASSUME NEW t \in Token
                   PROVE  t \in [addr : Addr \cup {Nil}, live : BOOLEAN]
      OBVIOUS
    <3>3. QED
      BY <3>1, Zenon DEF Token
  <2>2. User \in [addr : Addr \cup {Nil}, live : BOOLEAN]
    BY DEF User
  <2>3. QED
    BY <2>1, <2>2, Zenon DEF Handler
<1>2. Seq(Handler) \subseteq Seq([addr : Addr \cup {Nil}, live : BOOLEAN])
  BY <1>1, SeqMonotonic
<1>3. QED
  BY <1>2, NilAssumption, Zenon

LEMMA SomeOutermost ==
  ASSUME Len(cp) \in Nat, NEW k \in 0 .. Len(cp), NEW j \in k + 1 .. Len(cp), Binds(j)
  PROVE  \E i \in k + 1 .. Len(cp) : Outermost(k, i) /\ i <= j
<1> DEFINE T == {i \in k + 1 .. Len(cp) : Binds(i)}
<1>1. T \in SUBSET Nat /\ j \in T
  OBVIOUS
<1> HIDE DEF T
<1>2. PICK i \in T : \A m \in T : i <= m
  BY <1>1, NatMin
<1>3. i \in k + 1 .. Len(cp) /\ Binds(i) /\ i <= j
  BY <1>1, <1>2 DEF T
<1>4. \A m \in k + 1 .. i - 1 : ~ Binds(m)
  BY <1>2, <1>3 DEF T
<1>5. QED
  BY <1>3, <1>4 DEF Outermost

LEMMA QuietStays ==
  ASSUME NEW n, NEW k, Stays(n, k), Len(stack) \in Nat,
         NEW f \in 1 .. n, NEW d \in Nat, d <= n + 1, Quiet(f, d)'
  PROVE  Quiet(f, d)
<1>1. SUFFICES ASSUME NEW g \in f + 1 .. d - 1, NEW h \in 1 .. f - 1,
                      IsLoad(g), IsPoint(h), stack[h].addr = stack[g].token.addr
               PROVE  FALSE
  BY DEF Quiet
<1>2. g \in 1 .. n /\ h \in 1 .. n
  BY DEF Stays
<1>3. Alike(g) /\ Alike(h)
  BY <1>2 DEF Stays
<1>4. IsLoad(g)' /\ IsPoint(h)' /\ stack'[h].addr = stack'[g].token.addr
  BY <1>1, <1>3 DEF Alike, IsLoad, IsPoint
<1>5. QED
  BY <1>4 DEF Quiet

(* What settled the handlers of a frame that stays settles them still.     *)
LEMMA SettledReturns ==
  ASSUME TypeOK, TypeOK', CpInv, NEW n, NEW k, Returns(n, k),
         NEW f \in 1 .. n, IsPoint(f) \/ IsLoad(f), NEW e, Settled(f, e)
  PROVE  Settled(f, e)'
<1>1. /\ Len(stack) \in Nat /\ Len(stack') \in Nat
      /\ Len(cp) \in Nat /\ Len(cp') \in Nat
  BY Lengths
<1>2. /\ Stays(n, k) /\ n \in 0 .. Len(stack) /\ n <= Len(stack')
      /\ k \in 0 .. Len(cp) /\ k <= Len(cp')
  BY DEF Returns, Stays
<1>3. \A i \in 1 .. k : /\ cp'[i] = cp[i] /\ cp[i].frame <= n
                        /\ Binds(i) <=> Binds(i)'
  BY DEF Returns, Stays, Binds
<1>4. /\ \A i \in k + 1 .. Len(cp) : cp[i].frame >= f
      /\ \A i \in k + 1 .. Len(cp') : ~ Binds(i)'
  BY DEF Returns, Stays
<1>5. ASSUME NEW d \in Nat, d <= Len(stack) + 1, Quiet(f, n + 1)
      PROVE  Quiet(f, d)
  <2>1. SUFFICES ASSUME NEW g \in f + 1 .. d - 1, NEW h \in 1 .. f - 1,
                        IsLoad(g), IsPoint(h), stack[h].addr = stack[g].token.addr
                 PROVE  FALSE
    BY DEF Quiet
  <2>2. h \in 1 .. n /\ (g \in n + 1 .. Len(stack) \/ g \in f + 1 .. (n + 1) - 1)
    BY <1>1, <1>2, <1>5
  <2>3. QED
    BY <1>5, <2>1, <2>2 DEF Returns, Quiet
<1>6. ASSUME NEW d \in Nat, d >= n + 1, Quiet(f, d)'
      PROVE  Quiet(f, n + 1)
  <2>1. Quiet(f, n + 1)'
    BY <1>1, <1>2, <1>6 DEF Quiet
  <2>2. n + 1 \in Nat /\ n + 1 <= n + 1
    BY <1>2
  <2>3. QED
    BY <1>1, <1>2, <2>1, <2>2, QuietStays
<1>7. ASSUME NoBinds(f)', Quiet(f, Len(stack) + 1)'
      PROVE  exc' = e
  <2>1. \A i \in 1 .. k : Binds(i) => cp[i].frame < f
    BY <1>1, <1>2, <1>3, <1>7 DEF NoBinds
  <2>2. Quiet(f, n + 1)
    <3>1. PICK d \in Nat : d = Len(stack') + 1
      BY <1>1
    <3>2. Quiet(f, d)'
      BY <1>7, <3>1 DEF Quiet
    <3>3. QED
      BY <1>1, <1>2, <1>6, <3>1, <3>2
  <2>3. CASE \A i \in k + 1 .. Len(cp) : ~ Binds(i)
    <3>1. NoBinds(f)
      BY <1>1, <1>2, <2>1, <2>3 DEF NoBinds
    <3>2. Quiet(f, Len(stack) + 1)
      BY <1>1, <1>5, <2>2
    <3>3. exc = e
      BY <3>1, <3>2 DEF Settled
    <3>4. QED
      BY <2>3, <3>3 DEF Returns
  <2>4. CASE \E i \in k + 1 .. Len(cp) : Binds(i)
    <3>1. PICK i \in k + 1 .. Len(cp) : Outermost(k, i)
      BY <1>1, <1>2, <2>4, SomeOutermost
    <3>2. FirstBinds(f, i)
      BY <1>1, <1>2, <1>4, <2>1, <3>1 DEF FirstBinds, Outermost
    <3>3. i \in 1 .. Len(cp)
      BY <1>1, <1>2
    <3>4. cp[i].frame \in Nat /\ cp[i].frame <= Len(stack)
      BY <3>3, CpFields, CpOrder
    <3>5. Quiet(f, cp[i].frame)
      BY <1>1, <1>5, <2>2, <3>4
    <3>6. cp[i].old = e
      BY <3>2, <3>3, <3>5 DEF Settled
    <3>7. QED
      BY <3>1, <3>6 DEF Returns
  <2>5. QED
    BY <2>3, <2>4
<1>8. ASSUME NEW i \in 1 .. Len(cp'), FirstBinds(f, i)', Quiet(f, cp[i].frame)'
      PROVE  cp'[i].old = e
  <2>1. i \in 1 .. k /\ i \in 1 .. Len(cp)
    BY <1>1, <1>2, <1>4, <1>8 DEF FirstBinds
  <2>2. FirstBinds(f, i)
    BY <1>1, <1>2, <1>3, <1>8, <2>1 DEF FirstBinds
  <2>3. PICK d \in Nat : d = cp[i].frame
    BY <2>1, CpFields
  <2>4. cp'[i].frame = d /\ d <= n + 1
    BY <1>2, <1>3, <2>1, <2>3
  <2>5. Quiet(f, d)'
    BY <1>8, <2>4 DEF Quiet
  <2>6. Quiet(f, d)
    BY <1>1, <1>2, <2>4, <2>5, QuietStays
  <2>7. Quiet(f, cp[i].frame)
    BY <2>3, <2>6
  <2>8. QED
    BY <1>3, <2>1, <2>2, <2>7 DEF Settled
<1>9. QED
  BY <1>7, <1>8 DEF Settled

LEMMA SettledEnters ==
  ASSUME TypeOK, TypeOK', CpInv, Enters,
         NEW f \in 1 .. Len(stack), NEW e, Settled(f, e)
  PROVE  Settled(f, e)'
<1>1. /\ Len(stack) \in Nat /\ Len(stack') \in Nat /\ Len(stack) <= Len(stack')
      /\ Len(cp) \in Nat /\ Len(cp') = Len(cp) + 1
  BY Lengths DEF Enters, Stays
<1> DEFINE n == Len(stack)
<1>0. PICK k \in Nat : k = Len(cp)
  BY <1>1
<1>2. \A i \in 1 .. k : /\ cp'[i] = cp[i] /\ cp[i].frame <= n
                        /\ Binds(i) <=> Binds(i)'
  BY <1>0 DEF Enters, Stays, Binds
<1>3. cp'[k + 1].frame = n + 1 /\ cp'[k + 1].old = exc
  BY <1>0 DEF Enters
<1>4. exc \in Seq(Handler) /\ Binds(k + 1)'
  <2>1. exc \in Seq(Handler)
    BY DEF TypeOK
  <2>2. exc # Nil
    BY <2>1, NilNotSeq, Zenon
  <2>3. QED
    BY <1>3, <2>1, <2>2 DEF Binds
<1>5. ~ NoBinds(f)'
  <2>1. k + 1 \in 1 .. Len(cp') /\ ~ (cp'[k + 1].frame < f)
    BY <1>0, <1>1, <1>3
  <2>2. QED
    BY <1>4, <2>1 DEF NoBinds
<1>6. ASSUME NEW i \in 1 .. Len(cp'), FirstBinds(f, i)', Quiet(f, cp[i].frame)'
      PROVE  cp'[i].old = e
  <2>1. CASE i \in 1 .. k
    <3>1. FirstBinds(f, i)
      BY <1>0, <1>1, <1>2, <1>6, <2>1 DEF FirstBinds
    <3>2. PICK d \in Nat : d = cp[i].frame
      BY <1>0, <2>1, CpFields
    <3>3. cp'[i].frame = d /\ d <= n + 1
      BY <1>0, <1>1, <1>2, <2>1, <3>2
    <3>4. Quiet(f, d)'
      BY <1>6, <3>3 DEF Quiet
    <3>5. Quiet(f, cp[i].frame)
      BY <1>0, <1>1, <3>2, <3>3, <3>4, QuietStays DEF Enters
    <3>6. QED
      BY <1>0, <1>2, <2>1, <3>1, <3>5 DEF Settled
  <2>2. CASE i = k + 1
    <3>1. NoBinds(f)
      BY <1>0, <1>1, <1>2, <1>6, <2>2 DEF NoBinds, FirstBinds
    <3>2. n + 1 \in Nat /\ n + 1 <= n + 1
      BY <1>1
    <3>4. Quiet(f, n + 1)
      <4>1. PICK d \in Nat : d = n + 1
        BY <3>2
      <4>2. Quiet(f, d)'
        BY <1>3, <1>6, <2>2, <4>1 DEF Quiet
      <4>3. QED
        BY <1>1, <3>2, <4>1, <4>2, QuietStays DEF Enters
    <3>5. QED
      BY <1>3, <2>2, <3>1, <3>4 DEF Settled
  <2>3. QED
    BY <1>0, <1>1, <2>1, <2>2
<1>7. QED
  BY <1>5, <1>6 DEF Settled

(* The frames that stay, with calls still to be made as before.            *)
LEMMA SettledAtStays ==
  ASSUME TypeOK, TypeOK', LoadInv, SettledInv, NEW n, NEW k, Stays(n, k),
         NEW f \in 1 .. n, IsLoad(f) => stack'[f].calls = stack[f].calls,
         \A e : (IsPoint(f) \/ IsLoad(f)) /\ Settled(f, e) => Settled(f, e)'
  PROVE  SettledAt(f)'
<1>1. f \in 1 .. Len(stack) /\ Alike(f)
  BY DEF Stays
<1>2. SettledAt(f)
  BY <1>1 DEF SettledInv
<1>3. (IsPoint(f)' <=> IsPoint(f)) /\ (IsLoad(f)' <=> IsLoad(f))
  BY <1>1 DEF Alike, IsPoint, IsLoad
<1>4. ASSUME IsPoint(f)' PROVE Settled(f, Saved(f).exc)'
  <2>1. PICK e : e = Saved(f).exc
    OBVIOUS
  <2>2. Saved(f)'.exc = e
    BY <1>1, <1>3, <1>4, <2>1 DEF Alike, Saved
  <2>3. Settled(f, e)'
    BY <1>2, <1>3, <1>4, <2>1 DEF SettledAt
  <2>4. QED
    BY <2>2, <2>3 DEF Settled
<1>5. ASSUME IsLoad(f)', NEW i \in 1 .. Len(cp'), PutBack(f, i)'
      PROVE  Settled(f, cp[i].old)'
  <2>1. Len(cp) \in Nat /\ Len(cp') \in Nat
    BY Lengths
  <2>2. LoadOk(f)
    BY <1>1, <1>3, <1>5 DEF LoadInv
  <2>3. PICK h \in 1 .. f - 1 : IsPoint(h) /\ stack[h].addr = stack[f].token.addr
    BY <2>2 DEF LoadOk
  <2>4. h \in 1 .. n /\ Alike(h)
    BY <2>3 DEF Stays
  <2>5. Goal(f)' = Goal(f) /\ stack'[f].calls = stack[f].calls
    BY <1>1, <1>3, <1>5, <2>3, <2>4 DEF Alike, Goal, Saved
  <2>6. i \in 1 .. k
    <3>1. cp' \in Seq(CpRec)
      BY DEF TypeOK
    <3>2. cp'[i] \in CpRec
      BY <3>1, <1>5
    <3>3. cp'[i].frame \in Nat /\ cp'[i].frame < f
      BY <3>2, <1>5 DEF CpRec, PutBack
    <3>4. QED
      BY <1>3, <1>5, <2>1, <3>3 DEF Stays
  <2>7. \A j \in 1 .. k : cp'[j] = cp[j] /\ (Binds(j) <=> Binds(j)')
    BY DEF Stays, Binds
  <2>8. Goal(f).cp \in Seq(CpRec)
    BY <1>1, <1>3, <1>5, FrameFields DEF Goal, TypeOK
  <2>9. stack[f].calls \in Seq({"in", "out"} \X CpRec)
    BY <1>1, <1>3, <1>5, FrameFields
  <2>10. Len(Goal(f).cp) \in Nat /\ Len(stack[f].calls) \in Nat
    BY <2>8, <2>9
  <2>11. PutBack(f, i)
    <3>1. /\ Binds(i) /\ cp[i].frame < f
          /\ i > Len(Goal(f).cp) + Len(stack[f].calls)
      BY <1>5, <2>5, <2>6, <2>7 DEF PutBack
    <3>2. \A j \in Len(Goal(f).cp) + 1 .. i - 1 : ~ Binds(j)
      <4>1. TAKE j \in Len(Goal(f).cp) + 1 .. i - 1
      <4>2. ~ Binds(j)'
        BY <1>5, <2>5 DEF PutBack
      <4>3. j \in 1 .. k
        BY <2>6, <2>10 DEF Stays
      <4>4. QED
        BY <2>7, <4>2, <4>3
    <3>3. QED
      BY <3>1, <3>2 DEF PutBack
  <2>12. PICK e : e = cp[i].old
    OBVIOUS
  <2>13. i \in 1 .. Len(cp) /\ cp'[i].old = e
    BY <2>1, <2>6, <2>7, <2>12 DEF Stays
  <2>14. Settled(f, e)'
    BY <1>2, <1>3, <1>5, <2>11, <2>12, <2>13 DEF SettledAt
  <2>15. QED
    BY <2>13, <2>14 DEF Settled
<1>6. QED
  BY <1>4, <1>5 DEF SettledAt

-----------------------------------------------------------------------------
LEMMA TrysStay ==
  ASSUME NEW n \in Nat, NEW k, Stays(n, k), NEW h, NEW m, NEW m2, m \in Nat, m2 \in Nat,
         m <= n, m <= m2, TrysAmong(h, m)
  PROVE  TrysAmong(h, m2)'
<1>1. SUFFICES ASSUME NEW i \in 1 .. Len(h), h[i] # User
               PROVE  \E f \in 1 .. m2 : stack'[f].kind = "try" /\ stack'[f].addr = h[i].addr
  BY DEF TrysAmong
<1>2. PICK f \in 1 .. m : stack[f].kind = "try" /\ stack[f].addr = h[i].addr
  BY <1>1 DEF TrysAmong
<1>3. f \in 1 .. n /\ f \in 1 .. m2
  OBVIOUS
<1>4. Alike(f)
  BY <1>3 DEF Stays
<1>5. QED
  BY <1>2, <1>3, <1>4 DEF Alike, IsPoint

(* A frame that stays, of a point, with what its continuation saved.       *)
LEMMA AliveAtStays ==
  ASSUME TypeOK, NEW n, NEW k, Stays(n, k), NEW f \in 1 .. n, AliveAt(f)
  PROVE  AliveAt(f)'
<1>1. SUFFICES ASSUME IsPoint(f)' PROVE TrysAmong(Saved(f).exc, f - 1)'
  BY DEF AliveAt
<1>2. Alike(f) /\ n \in Nat /\ f \in Nat
  BY Lengths DEF Stays, TypeOK
<1>3. IsPoint(f)
  BY <1>1, <1>2 DEF Alike, IsPoint
<1>4. PICK h : h = Saved(f).exc
  OBVIOUS
<1>5. TrysAmong(h, f - 1) /\ Saved(f)'.exc = h
  BY <1>2, <1>3, <1>4 DEF AliveAt, Alike, Saved
<1>6. f - 1 \in Nat /\ f - 1 <= n /\ f - 1 <= f - 1
  BY <1>2
<1>7. TrysAmong(h, f - 1)'
  BY <1>2, <1>5, <1>6, TrysStay
<1>8. QED
  BY <1>5, <1>7 DEF TrysAmong

(* The pic_trys among the first frames of a handler list lie below every   *)
(* checkpoint with handlers that is left.                                  *)
LEMMA TrysBelow ==
  ASSUME TypeOK, CpInv, NEW n, NEW k, Stays(n, k), NEW h, NEW m \in Nat,
         m <= Len(stack), TrysAmong(h, m),
         \A i \in k + 1 .. Len(cp) : Binds(i) => cp[i].frame > m
  PROVE  \E l \in Nat : l <= n /\ l <= m /\ TrysAmong(h, l)
<1>1. Len(stack) \in Nat /\ Len(cp) \in Nat /\ n \in Nat /\ n <= Len(stack)
      /\ k \in Nat /\ k <= Len(cp)
  BY DEF TypeOK, Stays
<1>2. PICK l \in Nat : l <= n /\ l <= m /\ (l = n \/ l = m)
  BY <1>1
<1>3. SUFFICES ASSUME NEW i \in 1 .. Len(h), h[i] # User
               PROVE  \E f \in 1 .. l : stack[f].kind = "try" /\ stack[f].addr = h[i].addr
  BY <1>2 DEF TrysAmong
<1>4. PICK f \in 1 .. m : stack[f].kind = "try" /\ stack[f].addr = h[i].addr
  BY <1>3 DEF TrysAmong
<1>5. PICK j \in 1 .. Len(cp) : cp[j].frame = f
  BY <1>1, <1>4, CpOrder DEF Inside
<1>6. Binds(j)
  BY <1>4, <1>5 DEF CpInv
<1>7. j \in 1 .. k
  BY <1>1, <1>5, <1>6
<1>8. f <= n
  BY <1>5, <1>7 DEF Stays
<1>9. QED
  BY <1>2, <1>4, <1>8

(* Alive and settled handlers are kept by a step that returns ...          *)
LEMMA HandlersReturn ==
  ASSUME TypeOK, TypeOK', CpInv, LoadInv, AliveInv, SettledInv,
         NEW n, NEW k, Returns(n, k),
         \A f \in 1 .. n :
           IsLoad(f) => stack'[f].calls = stack[f].calls \/ SettledAt(f)',
         \A f \in n + 1 .. Len(stack') : AliveAt(f)' /\ SettledAt(f)'
  PROVE  AliveInv' /\ SettledInv'
<1>1. /\ Len(stack) \in Nat /\ Len(stack') \in Nat
      /\ Len(cp) \in Nat /\ Len(cp') \in Nat
  BY Lengths
<1>2. /\ Stays(n, k) /\ n \in Nat /\ n <= Len(stack) /\ n <= Len(stack')
      /\ k \in Nat /\ k <= Len(cp) /\ k <= Len(cp')
  BY <1>1 DEF Returns, Stays
<1>3. \A f \in 1 .. Len(stack') : SettledAt(f)'
  <2>1. TAKE f \in 1 .. Len(stack')
  <2>2. CASE f \in 1 .. n
    <3>1. \A e : (IsPoint(f) \/ IsLoad(f)) /\ Settled(f, e) => Settled(f, e)'
      BY <2>2, SettledReturns
    <3>2. QED
      BY <1>2, <2>2, <3>1, SettledAtStays
  <2>3. QED
    BY <1>1, <1>2, <2>2
<1>4. \A f \in 1 .. Len(stack') : AliveAt(f)'
  <2>1. TAKE f \in 1 .. Len(stack')
  <2>2. CASE f \in 1 .. n
    BY <1>1, <1>2, <2>2, AliveAtStays DEF AliveInv
  <2>3. QED
    BY <1>1, <1>2, <2>2
<1>5. \A i \in 1 .. Len(cp') : Binds(i)' => TrysAmong(cp[i].old, cp[i].frame - 1)'
  <2>1. SUFFICES ASSUME NEW i \in 1 .. Len(cp'), Binds(i)'
                 PROVE  TrysAmong(cp[i].old, cp[i].frame - 1)'
    OBVIOUS
  <2>2. i \in 1 .. k
    BY <1>1, <1>2, <2>1 DEF Returns
  <2>3. cp'[i] = cp[i] /\ cp[i].frame <= n /\ i \in 1 .. Len(cp)
    BY <1>1, <1>2, <2>2 DEF Stays
  <2>4. PICK d \in Nat : d = cp[i].frame - 1
    <3>1. cp[i].frame \in 1 .. Len(stack)
      BY <2>3, CpOrder
    <3>2. QED
      BY <1>1, <3>1
  <2>5. PICK h : h = cp[i].old
    OBVIOUS
  <2>6. TrysAmong(h, d)
    BY <2>1, <2>3, <2>4, <2>5 DEF AliveInv, Binds
  <2>7. cp[i].frame \in Nat
    BY <2>3, CpFields
  <2>8. TrysAmong(h, d)'
    BY <1>2, <2>3, <2>4, <2>6, <2>7, TrysStay
  <2>9. QED
    BY <2>3, <2>4, <2>5, <2>8 DEF TrysAmong
<1>6. \E m \in Nat : m <= n /\ TrysAmong(exc', m)
  <2>1. CASE \A i \in k + 1 .. Len(cp) : ~ Binds(i)
    <3>1. PICK l \in Nat : l <= n /\ TrysAmong(exc, l)
      BY <1>1, <1>2, <2>1, TrysBelow DEF AliveInv
    <3>2. exc' = exc
      BY <2>1 DEF Returns
    <3>3. QED
      BY <3>1, <3>2
  <2>2. CASE \E i \in k + 1 .. Len(cp) : Binds(i)
    <3>1. PICK i \in k + 1 .. Len(cp) : Outermost(k, i)
      BY <1>1, <1>2, <2>2, SomeOutermost
    <3>2. exc' = cp[i].old /\ Binds(i) /\ i \in 1 .. Len(cp)
      BY <1>1, <1>2, <3>1 DEF Returns, Outermost
    <3>3. cp[i].frame \in 1 .. Len(stack)
      BY <3>2, CpOrder
    <3>4. TrysAmong(exc', cp[i].frame - 1)
      BY <3>2 DEF AliveInv
    <3>5. \A j \in k + 1 .. Len(cp) : Binds(j) => cp[j].frame > cp[i].frame - 1
      <4>1. SUFFICES ASSUME NEW j \in k + 1 .. Len(cp), Binds(j)
                     PROVE  cp[j].frame > cp[i].frame - 1
        OBVIOUS
      <4>2. j >= i /\ j \in 1 .. Len(cp)
        BY <1>1, <1>2, <3>1, <4>1 DEF Outermost
      <4>3. j = i \/ cp[i].frame < cp[j].frame
        BY <3>2, <4>2, CpOrder
      <4>4. cp[j].frame \in 1 .. Len(stack)
        BY <4>2, CpOrder
      <4>5. QED
        BY <1>1, <3>3, <4>3, <4>4
    <3>6. PICK d \in Nat : d = cp[i].frame - 1 /\ d <= Len(stack)
      BY <1>1, <3>3
    <3>7. PICK l \in Nat : l <= n /\ TrysAmong(exc', l)
      BY <1>1, <1>2, <3>4, <3>5, <3>6, TrysBelow
    <3>8. QED
      BY <3>7
  <2>3. QED
    BY <2>1, <2>2
<1>7. TrysAmong(exc, Len(stack))'
  <2>1. PICK m \in Nat : m <= n /\ TrysAmong(exc', m)
    BY <1>6
  <2>2. PICK h : h = exc'
    OBVIOUS
  <2>3. PICK d \in Nat : d = Len(stack')
    BY <1>1
  <2>4. TrysAmong(h, d)'
    BY <1>2, <2>1, <2>2, <2>3, TrysStay
  <2>5. QED
    BY <2>2, <2>3, <2>4 DEF TrysAmong
<1>8. QED
  BY <1>3, <1>4, <1>5, <1>7 DEF AliveInv, SettledInv

(* ... and by one that enters an extent with handlers of its own.          *)
LEMMA HandlersEnter ==
  ASSUME TypeOK, TypeOK', CpInv, LoadInv, AliveInv, SettledInv, Enters,
         \A f \in 1 .. Len(stack) : IsLoad(f) => stack'[f].calls = stack[f].calls,
         \A f \in Len(stack) + 1 .. Len(stack') : AliveAt(f)' /\ SettledAt(f)',
         TrysAmong(exc, Len(stack))'
  PROVE  AliveInv' /\ SettledInv'
<1>1. /\ Len(stack) \in Nat /\ Len(stack') \in Nat /\ Len(stack) <= Len(stack')
      /\ Len(cp) \in Nat /\ Len(cp') = Len(cp) + 1
  BY Lengths DEF Enters, Stays
<1>2. PICK n \in Nat, k \in Nat : n = Len(stack) /\ k = Len(cp)
  BY <1>1
<1>3. Stays(n, k)
  BY <1>2 DEF Enters
<1>4. \A f \in 1 .. Len(stack') : SettledAt(f)'
  <2>1. TAKE f \in 1 .. Len(stack')
  <2>2. CASE f \in 1 .. n
    <3>1. \A e : (IsPoint(f) \/ IsLoad(f)) /\ Settled(f, e) => Settled(f, e)'
      BY <1>2, <2>2, SettledEnters
    <3>2. QED
      BY <1>2, <1>3, <2>2, <3>1, SettledAtStays
  <2>3. QED
    BY <1>1, <1>2, <2>2
<1>5. \A f \in 1 .. Len(stack') : AliveAt(f)'
  <2>1. TAKE f \in 1 .. Len(stack')
  <2>2. CASE f \in 1 .. n
    BY <1>2, <1>3, <2>2, AliveAtStays DEF AliveInv
  <2>3. QED
    BY <1>1, <1>2, <2>2
<1>6. \A i \in 1 .. Len(cp') : Binds(i)' => TrysAmong(cp[i].old, cp[i].frame - 1)'
  <2>1. SUFFICES ASSUME NEW i \in 1 .. Len(cp'), Binds(i)'
                 PROVE  TrysAmong(cp[i].old, cp[i].frame - 1)'
    OBVIOUS
  <2>2. PICK h, d : h = cp'[i].old /\ d = cp'[i].frame - 1
    OBVIOUS
  <2>3. TrysAmong(h, d)'
    <3>1. CASE i \in 1 .. k
      <4>1. cp'[i] = cp[i] /\ i \in 1 .. Len(cp) /\ Binds(i)
        BY <1>2, <1>3, <2>1, <3>1 DEF Stays, Binds
      <4>2. cp[i].frame \in 1 .. Len(stack)
        BY <4>1, CpOrder
      <4>3. TrysAmong(h, d) /\ d \in Nat /\ d <= n
        BY <1>1, <1>2, <2>2, <4>1, <4>2 DEF AliveInv
      <4>4. QED
        BY <1>2, <1>3, <4>3, TrysStay
    <3>2. CASE i = k + 1
      <4>1. h = exc /\ d = n
        BY <1>1, <1>2, <2>2, <3>2 DEF Enters
      <4>2. TrysAmong(h, d)
        BY <1>2, <4>1 DEF AliveInv
      <4>3. QED
        BY <1>2, <1>3, <4>1, <4>2, TrysStay
    <3>3. QED
      BY <1>1, <1>2, <3>1, <3>2
  <2>4. QED
    BY <2>2, <2>3 DEF TrysAmong
<1>7. QED
  BY <1>4, <1>5, <1>6 DEF AliveInv, SettledInv

-----------------------------------------------------------------------------
(* pic->cp and the C stack: a step that keeps the first n frames as they   *)
(* are, and gives at most one new extent a checkpoint.                     *)
LEMMA CpKept ==
  ASSUME TypeOK, TypeOK', CpInv, NEW n \in Nat, NEW k \in Nat,
         n <= Len(stack), n <= Len(stack'), k <= Len(cp), k <= Len(cp'),
         \A f \in 1 .. n : stack'[f].kind = stack[f].kind /\ (Inside(f)' <=> Inside(f)),
         \A i \in 1 .. k : cp'[i] = cp[i] /\ cp[i].frame <= n,
         \A i \in k + 1 .. Len(cp) : cp[i].frame > n,
         \/ Len(cp') = k /\ \A f \in n + 1 .. Len(stack') : ~ Inside(f)'
         \/ /\ Len(stack') = n + 1 /\ Inside(n + 1)'
            /\ Len(cp') = k + 1 /\ cp'[k + 1].frame = n + 1
            /\ cp'[k + 1].old # Nil <=> stack'[n + 1].kind # "wind"
  PROVE  CpInv'
<1>1. /\ Len(stack) \in Nat /\ Len(stack') \in Nat
      /\ Len(cp) \in Nat /\ Len(cp') \in Nat
  BY Lengths
<1>2. \A i \in 1 .. k : i \in 1 .. Len(cp) /\ cp[i].frame \in 1 .. Len(stack) /\ cp[i].frame \in 1 .. n
  <2>1. \A i \in 1 .. k : i \in 1 .. Len(cp)
    BY <1>1
  <2>2. QED
    BY <1>1, <2>1, CpOrder
<1>3. \A i \in k + 1 .. Len(cp') : /\ i = k + 1 /\ Len(stack') = n + 1 /\ Inside(n + 1)'
                                   /\ cp'[i].frame = n + 1
                                   /\ cp'[i].old # Nil <=> stack'[n + 1].kind # "wind"
  BY <1>1
<1>4. \A i \in 1 .. Len(cp') : i \in 1 .. k \/ i \in k + 1 .. Len(cp')
  BY <1>1
<1>5. \A i, j \in 1 .. Len(cp') : i < j => cp'[i].frame < cp'[j].frame
  <2>1. SUFFICES ASSUME NEW i \in 1 .. Len(cp'), NEW j \in 1 .. Len(cp'), i < j
                 PROVE  cp'[i].frame < cp'[j].frame
    OBVIOUS
  <2>2. CASE j \in 1 .. k
    <3>1. i \in 1 .. k
      BY <2>1, <2>2
    <3>2. QED
      BY <1>2, <2>1, <2>2, <3>1, CpOrder
  <2>3. CASE j \in k + 1 .. Len(cp')
    <3>1. i \in 1 .. k /\ j = k + 1
      BY <1>3, <1>4, <2>1, <2>3
    <3>2. cp'[i].frame \in 1 .. n /\ cp'[j].frame = n + 1
      BY <1>2, <1>3, <2>3, <3>1
    <3>3. QED
      BY <3>2
  <2>4. QED
    BY <1>4, <2>2, <2>3
<1>6. \A i \in 1 .. Len(cp') : cp'[i].frame \in 1 .. Len(stack') /\ Inside(cp[i].frame)'
  <2>1. TAKE i \in 1 .. Len(cp')
  <2>2. PICK f : f = cp'[i].frame
    OBVIOUS
  <2>3. f \in 1 .. Len(stack') /\ Inside(f)'
    <3>1. CASE i \in 1 .. k
      <4>1. f = cp[i].frame /\ f \in 1 .. n /\ Inside(f)
        BY <1>2, <2>2, <3>1, CpOrder
      <4>2. QED
        BY <1>1, <4>1
    <3>2. CASE i \in k + 1 .. Len(cp')
      <4>1. f = n + 1 /\ Len(stack') = n + 1 /\ Inside(n + 1)'
        BY <1>3, <2>2, <3>2
      <4>2. QED
        BY <4>1
    <3>3. QED
      BY <1>4, <3>1, <3>2
  <2>4. QED
    BY <2>2, <2>3 DEF Inside
<1>7. \A f \in 1 .. Len(stack') : Inside(f)' => \E i \in 1 .. Len(cp') : cp'[i].frame = f
  <2>1. SUFFICES ASSUME NEW f \in 1 .. Len(stack'), Inside(f)'
                 PROVE  \E i \in 1 .. Len(cp') : cp'[i].frame = f
    OBVIOUS
  <2>2. CASE f \in 1 .. n
    <3>1. Inside(f) /\ f \in 1 .. Len(stack)
      BY <1>1, <2>1, <2>2
    <3>2. PICK i \in 1 .. Len(cp) : cp[i].frame = f
      BY <3>1, CpOrder
    <3>3. i \in 1 .. k
      BY <1>1, <2>2, <3>2
    <3>4. QED
      BY <1>1, <3>2, <3>3
  <2>3. CASE f \in n + 1 .. Len(stack')
    <3>1. Len(cp') = k + 1 /\ cp'[k + 1].frame = n + 1 /\ f = n + 1
      BY <1>1, <2>1, <2>3
    <3>2. QED
      BY <3>1
  <2>4. QED
    BY <1>1, <2>2, <2>3
<1>8. \A i \in 1 .. Len(cp') : Binds(i)' <=> stack'[cp'[i].frame].kind # "wind"
  <2>1. TAKE i \in 1 .. Len(cp')
  <2>2. CASE i \in 1 .. k
    <3>1. cp'[i] = cp[i] /\ i \in 1 .. Len(cp) /\ cp[i].frame \in 1 .. n
      BY <1>2, <2>2
    <3>2. Binds(i) <=> stack[cp[i].frame].kind # "wind"
      BY <3>1 DEF CpInv
    <3>3. QED
      BY <3>1, <3>2 DEF Binds
  <2>3. CASE i \in k + 1 .. Len(cp')
    BY <1>3, <2>3 DEF Binds
  <2>4. QED
    BY <1>4, <2>2, <2>3
<1>9. {cp'[i].frame : i \in 1 .. Len(cp')} = {f \in 1 .. Len(stack') : Inside(f)'}
  <2>1. \A f \in {cp'[i].frame : i \in 1 .. Len(cp')} : f \in 1 .. Len(stack') /\ Inside(f)'
    <3>1. TAKE f \in {cp'[i].frame : i \in 1 .. Len(cp')}
    <3>2. PICK i \in 1 .. Len(cp') : f = cp'[i].frame
      BY <3>1
    <3>3. QED
      BY <1>6, <3>2 DEF Inside
  <2>2. \A f \in {g \in 1 .. Len(stack') : Inside(g)'} :
          f \in {cp'[i].frame : i \in 1 .. Len(cp')}
    BY <1>7
  <2>3. QED
    BY <2>1, <2>2
<1>10. QED
  BY <1>5, <1>8, <1>9 DEF CpInv, CpMatchesStack

-----------------------------------------------------------------------------
(* The chain of continuations. *)
LEMMA InnermostStays ==
  ASSUME NEW n \in Nat, NEW k, Stays(n, k), NEW m \in Nat, m <= n, NEW a,
         InnermostPoint(m, a)
  PROVE  InnermostPoint(m, a)'
<1>1. \A f \in 1 .. m : /\ IsPoint(f)' <=> IsPoint(f)
                        /\ IsPoint(f) => stack'[f].addr = stack[f].addr
  <2>1. \A f \in 1 .. m : Alike(f)
    BY DEF Stays
  <2>2. QED
    BY <2>1 DEF Alike, IsPoint
<1>2. QED
  BY <1>1 DEF InnermostPoint

LEMMA PointsStay ==
  ASSUME TypeOK, TypeOK', PointInv, NEW n, NEW k, Stays(n, k),
         \A f \in n + 1 .. Len(stack') : ~ IsPoint(f)',
         InnermostPoint(n, cc')
  PROVE  PointInv'
<1>1. Len(stack) \in Nat /\ Len(stack') \in Nat /\ n \in Nat
      /\ n <= Len(stack) /\ n <= Len(stack')
  BY Lengths DEF Stays
<1>2. \A f \in 1 .. Len(stack') : IsPoint(f)' => f \in 1 .. n
  BY <1>1
<1>3. \A f \in 1 .. n : IsPoint(f)' =>
        /\ IsPoint(f) /\ stack'[f].addr = stack[f].addr
        /\ cont'[stack'[f].addr] = Saved(f)
  BY DEF Stays, Alike, IsPoint
<1>4. ASSUME NEW f \in 1 .. Len(stack'), NEW g \in 1 .. Len(stack'),
             IsPoint(f)', IsPoint(g)', stack'[f].addr = stack'[g].addr
      PROVE  f = g
  BY <1>1, <1>2, <1>3, <1>4 DEF PointInv
<1>5. InnermostPoint(Len(stack), cc)'
  <2>1. PICK a : a = cc'
    OBVIOUS
  <2>2. InnermostPoint(n, a)'
    BY <1>1, <2>1, InnermostStays
  <2>3. QED
    BY <1>1, <1>2, <2>1, <2>2 DEF InnermostPoint
<1>6. ASSUME NEW f \in 1 .. Len(stack'), IsPoint(f)'
      PROVE  InnermostPoint(f - 1, cont[stack[f].addr].prev)'
  <2>1. f \in 1 .. n /\ f \in 1 .. Len(stack) /\ IsPoint(f)
    BY <1>1, <1>2, <1>3, <1>6
  <2>2. PICK a : a = Saved(f).prev
    OBVIOUS
  <2>3. InnermostPoint(f - 1, a)
    BY <2>1, <2>2 DEF PointInv, ChainMatchesStack, Saved
  <2>4. f - 1 \in Nat /\ f - 1 <= n
    BY <1>1, <2>1
  <2>5. InnermostPoint(f - 1, a)'
    BY <1>1, <2>3, <2>4, InnermostStays
  <2>6. cont'[stack'[f].addr].prev = a
    BY <1>3, <1>6, <2>1, <2>2
  <2>7. QED
    BY <2>5, <2>6 DEF InnermostPoint
<1>7. QED
  BY <1>4, <1>5, <1>6 DEF PointInv, ChainMatchesStack

LEMMA PointPushed ==
  ASSUME TypeOK, TypeOK', PointInv, NEW k, Stays(Len(stack), k),
         Len(stack') = Len(stack) + 1, IsPoint(Len(stack))',
         NEW a, stack'[Len(stack')].addr = a, cc' = a, cont'[a].prev = cc,
         \A f \in 1 .. Len(stack) : IsPoint(f) => stack[f].addr # a
  PROVE  PointInv'
<1>1. PICK n \in Nat : n = Len(stack)
  BY Lengths
<1>2. Stays(n, k) /\ Len(stack') = n + 1 /\ stack'[n + 1].addr = a
  BY <1>1
<1>3. IsPoint(n + 1)'
  BY <1>2 DEF IsPoint
<1>4. \A f \in 1 .. n : /\ IsPoint(f)' => /\ IsPoint(f) /\ stack'[f].addr = stack[f].addr
                                          /\ cont'[stack'[f].addr] = Saved(f)
  BY <1>2 DEF Stays, Alike, IsPoint
<1>5. \A f \in 1 .. Len(stack') : f \in 1 .. n \/ f = n + 1
  BY <1>2
<1>6. ASSUME NEW f \in 1 .. Len(stack'), NEW g \in 1 .. Len(stack'),
             IsPoint(f)', IsPoint(g)', stack'[f].addr = stack'[g].addr
      PROVE  f = g
  <2>1. \A h \in 1 .. n : IsPoint(h)' => stack'[h].addr # a
    BY <1>1, <1>4
  <2>2. CASE f = n + 1 /\ g = n + 1
    BY <2>2
  <2>3. CASE f \in 1 .. n /\ g \in 1 .. n
    BY <1>1, <1>4, <1>6, <2>3 DEF PointInv
  <2>4. CASE f \in 1 .. n /\ g = n + 1
    BY <1>2, <1>6, <2>1, <2>4
  <2>5. CASE f = n + 1 /\ g \in 1 .. n
    BY <1>2, <1>6, <2>1, <2>5
  <2>6. QED
    BY <1>5, <2>2, <2>3, <2>4, <2>5
<1>7. InnermostPoint(Len(stack), cc)'
  BY <1>2, <1>3 DEF InnermostPoint
<1>8. ASSUME NEW f \in 1 .. Len(stack'), IsPoint(f)'
      PROVE  InnermostPoint(f - 1, cont[stack[f].addr].prev)'
  <2>1. PICK b : b = cont'[stack'[f].addr].prev
    OBVIOUS
  <2>2. f - 1 \in Nat /\ f - 1 <= n
    BY <1>2
  <2>3. InnermostPoint(f - 1, b)
    <3>1. CASE f = n + 1
      BY <1>1, <1>2, <2>1, <3>1 DEF PointInv, ChainMatchesStack
    <3>2. CASE f \in 1 .. n
      BY <1>1, <1>4, <1>8, <2>1, <3>2 DEF PointInv, ChainMatchesStack, Saved
    <3>3. QED
      BY <1>5, <3>1, <3>2
  <2>4. InnermostPoint(f - 1, b)'
    BY <1>2, <2>2, <2>3, InnermostStays
  <2>5. QED
    BY <2>1, <2>4 DEF InnermostPoint
<1>9. QED
  BY <1>6, <1>7, <1>8 DEF PointInv, ChainMatchesStack

-----------------------------------------------------------------------------
(* The arena. *)
Cont == [cp : Seq(CpRec), arena : Nat, prev : Addr \cup {Nil}, exc : Seq(Handler)]

LEMMA LeaveKeeps ==
  ASSUME TypeOK, ArenaInv, NEW m \in 0 .. Len(arena), Leave(m)
  PROVE  /\ arena' \in Seq(Addr) /\ Len(arena') = m
         /\ \A i \in 1 .. m : arena'[i] = arena[i]
         /\ cont' \in [Addr -> Cont]
         /\ \A f \in 1 .. Len(stack) :
              IsPoint(f) /\ stack[f].ai <= m => cont'[stack[f].addr] = Saved(f)
<1>1. arena \in Seq(Addr) /\ Len(arena) \in Nat
  BY DEF TypeOK
<1>2. arena' = SubSeq(arena, 1, m)
  BY DEF Leave
<1>3. arena' \in Seq(Addr) /\ Len(arena') = m /\ \A i \in 1 .. m : arena'[i] = arena[i]
  BY <1>1, <1>2, SubSeqProperties
<1>4. Free \in Cont
  <2>1. << >> \in Seq(CpRec) /\ << >> \in Seq(Handler)
    OBVIOUS
  <2>2. QED
    BY <2>1 DEF Free, Cont
<1>5. cont \in [Addr -> Cont]
  BY DEF TypeOK, Cont
<1>6. cont' = [a \in Addr |-> IF a \in ToSet(arena') THEN cont[a] ELSE Free]
  BY DEF Leave
<1>7. cont' \in [Addr -> Cont]
  BY <1>4, <1>5, <1>6
<1>8. ASSUME NEW f \in 1 .. Len(stack), IsPoint(f), stack[f].ai <= m
      PROVE  cont'[stack[f].addr] = Saved(f)
  <2>1. stack[f].addr \in Addr
    BY <1>8, FrameFields
  <2>2. stack[f].ai \in 1 .. m /\ arena[stack[f].ai] = stack[f].addr
    BY <1>1, <1>8 DEF ArenaInv
  <2>3. stack[f].addr \in ToSet(arena')
    BY <1>3, <2>2 DEF ToSet
  <2>4. QED
    BY <1>6, <2>1, <2>3 DEF Saved
<1>9. QED
  BY <1>3, <1>7, <1>8

LEMMA ArenaKept ==
  ASSUME TypeOK, TypeOK', ArenaInv, NEW n, NEW k, Stays(n, k), Len(stack') <= n + 1,
         NEW m \in 0 .. Len(arena), m <= Len(arena'),
         \A i \in 1 .. m : arena'[i] = arena[i],
         \A f \in 1 .. n : stack[f].ai <= m,
         Len(stack') = n + 1 =>
           /\ stack'[n + 1].ai <= Len(arena')
           /\ \A f \in 1 .. n : stack[f].ai <= stack'[n + 1].ai
           /\ IsPoint(n + 1)' =>
                /\ stack'[n + 1].ai \in 1 .. Len(arena')
                /\ arena'[stack'[n + 1].ai] = stack'[n + 1].addr
                /\ cont'[stack'[n + 1].addr].arena = stack'[n + 1].ai
  PROVE  ArenaInv'
<1>1. /\ Len(stack) \in Nat /\ Len(stack') \in Nat /\ n \in Nat
      /\ n <= Len(stack) /\ n <= Len(stack') /\ Len(arena) \in Nat /\ Len(arena') \in Nat
  <2>1. Len(arena) \in Nat /\ Len(arena') \in Nat
    BY DEF TypeOK
  <2>2. QED
    BY <2>1, Lengths DEF Stays
<1>2. \A f \in 1 .. Len(stack') : f \in 1 .. n \/ (f = n + 1 /\ Len(stack') = n + 1)
  BY <1>1
<1>3. \A f \in 1 .. n :
        /\ stack'[f].ai = stack[f].ai /\ stack[f].ai \in Nat
        /\ IsPoint(f)' => IsPoint(f) /\ stack'[f].addr = stack[f].addr
                          /\ cont'[stack[f].addr] = Saved(f)
  <2>1. \A f \in 1 .. n : Alike(f) /\ f \in 1 .. Len(stack)
    BY <1>1 DEF Stays
  <2>2. QED
    BY <2>1, FrameFields DEF Alike, IsPoint
<1>4. \A f, g \in 1 .. Len(stack') : f <= g => stack'[f].ai <= stack'[g].ai
  <2>1. SUFFICES ASSUME NEW f \in 1 .. Len(stack'), NEW g \in 1 .. Len(stack'), f <= g
                 PROVE  stack'[f].ai <= stack'[g].ai
    OBVIOUS
  <2>2. CASE g \in 1 .. n
    <3>1. f \in 1 .. n /\ f \in 1 .. Len(stack) /\ g \in 1 .. Len(stack)
      BY <1>1, <2>1, <2>2
    <3>2. stack[f].ai <= stack[g].ai
      BY <2>1, <3>1 DEF ArenaInv
    <3>3. QED
      BY <1>3, <2>2, <3>1, <3>2
  <2>3. CASE g = n + 1 /\ Len(stack') = n + 1
    <3>1. CASE f \in 1 .. n
      BY <1>3, <2>3, <3>1
    <3>2. CASE f = n + 1
      <4>1. stack' \in Seq(Frame)
        BY DEF TypeOK
      <4>2. stack'[f] \in Frame
        BY <4>1
      <4>3. stack'[f].ai \in Nat
        BY <4>2 DEF Frame, PointFrame, WindFrame, BindFrame, LoadFrame, ThunkFrame
      <4>4. QED
        BY <2>3, <3>2, <4>3
    <3>3. QED
      BY <1>2, <3>1, <3>2
  <2>4. QED
    BY <1>2, <2>2, <2>3
<1>5. \A f \in 1 .. Len(stack') : stack'[f].ai <= Len(arena')
  <2>1. \A f \in 1 .. n : stack'[f].ai <= Len(arena')
    BY <1>1, <1>3
  <2>2. QED
    BY <1>2, <2>1
<1>6. ASSUME NEW f \in 1 .. Len(stack'), IsPoint(f)'
      PROVE  /\ stack'[f].ai \in 1 .. Len(arena')
             /\ arena'[stack'[f].ai] = stack'[f].addr
             /\ cont'[stack'[f].addr].arena = stack'[f].ai
  <2>1. CASE f \in 1 .. n
    <3>1. f \in 1 .. Len(stack) /\ IsPoint(f)
      BY <1>1, <1>3, <1>6, <2>1
    <3>2. /\ stack[f].ai \in 1 .. Len(arena) /\ arena[stack[f].ai] = stack[f].addr
          /\ Saved(f).arena = stack[f].ai
      BY <3>1 DEF ArenaInv
    <3>3. stack[f].ai \in 1 .. m
      BY <1>1, <2>1, <3>2
    <3>4. /\ stack'[f].ai = stack[f].ai /\ stack'[f].addr = stack[f].addr
          /\ cont'[stack[f].addr] = Saved(f)
      BY <1>3, <1>6, <2>1
    <3>5. stack[f].ai \in 1 .. Len(arena') /\ arena'[stack[f].ai] = arena[stack[f].ai]
      BY <1>1, <3>3
    <3>6. QED
      BY <3>2, <3>4, <3>5
  <2>2. CASE f = n + 1 /\ Len(stack') = n + 1
    BY <1>6, <2>2
  <2>3. QED
    BY <1>2, <2>1, <2>2
<1>7. QED
  BY <1>4, <1>5, <1>6 DEF ArenaInv, Saved

-----------------------------------------------------------------------------
(* A step that leaves all but the first n frames and k checkpoints: the    *)
(* return of a frame, an escape.                                           *)
LEMMA Truncates ==
  ASSUME TypeOK, ArenaInv, NEW n \in 0 .. Len(stack), stack' = SubSeq(stack, 1, n),
         NEW m \in 0 .. Len(arena),
         Leave(m) \/ (m = Len(arena) /\ UNCHANGED << cont, arena >>),
         \A f \in 1 .. n : stack[f].ai <= m
  PROVE  /\ stack' \in Seq(Frame) /\ Len(stack') = n
         /\ \A f \in 1 .. n : Alike(f) /\ stack'[f] = stack[f]
         /\ arena' \in Seq(Addr) /\ Len(arena') = m
         /\ \A i \in 1 .. m : arena'[i] = arena[i]
         /\ cont' \in [Addr -> Cont]
<1>1. stack \in Seq(Frame) /\ Len(stack) \in Nat
  BY DEF TypeOK
<1>2. /\ stack' \in Seq(Frame) /\ Len(stack') = n
      /\ \A f \in 1 .. n : stack'[f] = stack[f]
  BY <1>1, SubSeqProperties
<1>3. /\ arena' \in Seq(Addr) /\ Len(arena') = m
      /\ \A i \in 1 .. m : arena'[i] = arena[i]
      /\ cont' \in [Addr -> Cont]
      /\ \A f \in 1 .. n : IsPoint(f) => cont'[stack[f].addr] = Saved(f)
  <2>1. CASE Leave(m)
    <3>1. /\ arena' \in Seq(Addr) /\ Len(arena') = m
          /\ \A i \in 1 .. m : arena'[i] = arena[i]
          /\ cont' \in [Addr -> Cont]
          /\ \A f \in 1 .. Len(stack) :
               IsPoint(f) /\ stack[f].ai <= m => cont'[stack[f].addr] = Saved(f)
      BY <2>1, LeaveKeeps
    <3>2. \A f \in 1 .. n : f \in 1 .. Len(stack)
      BY <1>1
    <3>3. QED
      BY <3>1, <3>2
  <2>2. CASE m = Len(arena) /\ UNCHANGED << cont, arena >>
    BY <2>2 DEF TypeOK, Cont, Saved
  <2>3. QED
    BY <2>1, <2>2
<1>4. \A f \in 1 .. n : Alike(f)
  BY <1>2, <1>3 DEF Alike
<1>5. QED
  BY <1>2, <1>3, <1>4

LEMMA TruncateInv ==
  ASSUME IInv, TypeOK', NEW n \in 0 .. Len(stack), stack' = SubSeq(stack, 1, n),
         NEW m \in 0 .. Len(arena),
         Leave(m) \/ (m = Len(arena) /\ UNCHANGED << cont, arena >>),
         \A f \in 1 .. n : stack[f].ai <= m,
         NEW k \in 0 .. Len(cp), cp' = SubSeq(cp, 1, k),
         \A i \in 1 .. k : cp[i].frame <= n,
         \A i \in k + 1 .. Len(cp) : cp[i].frame > n,
         InnermostPoint(n, cc'),
         lost => lost',
         ~ lost' /\ SettledInv =>
           /\ (\A i \in k + 1 .. Len(cp) : ~ Binds(i)) => exc' = exc
           /\ \A i \in k + 1 .. Len(cp) : Outermost(k, i) => exc' = cp[i].old
           /\ \A g \in n + 1 .. Len(stack), h \in 1 .. n :
                ~ (IsLoad(g) /\ IsPoint(h) /\ stack[h].addr = stack[g].token.addr)
  PROVE  IInv'
<1>1. TypeOK /\ CpInv /\ PointInv /\ ArenaInv /\ SavedInv /\ LoadInv /\ HandlerInv
  BY DEF IInv
<1>2. /\ stack' \in Seq(Frame) /\ Len(stack') = n
      /\ \A f \in 1 .. n : Alike(f) /\ stack'[f] = stack[f]
      /\ arena' \in Seq(Addr) /\ Len(arena') = m
      /\ \A i \in 1 .. m : arena'[i] = arena[i]
  BY <1>1, Truncates
<1>3. Len(cp) \in Nat /\ Len(stack) \in Nat /\ Len(arena) \in Nat
  <2>1. cp \in Seq(CpRec) /\ stack \in Seq(Frame) /\ arena \in Seq(Addr)
    BY <1>1 DEF TypeOK
  <2>2. QED
    BY <2>1
<1>4. Len(cp') = k /\ \A i \in 1 .. k : cp'[i] = cp[i]
  <2>1. cp \in Seq(CpRec)
    BY <1>1 DEF TypeOK
  <2>2. QED
    BY <1>3, <2>1, SubSeqProperties
<1>5. Stays(n, k)
  <2>1. \A i \in k + 1 .. Len(cp') : FALSE
    BY <1>4
  <2>2. \A f \in 1 .. n, i \in k + 1 .. Len(cp) : cp[i].frame >= f
    <3>1. \A i \in k + 1 .. Len(cp) : cp[i].frame \in Nat
      BY <1>1, <1>3, CpFields
    <3>2. QED
      BY <1>3, <3>1
  <2>3. n <= Len(stack') /\ k <= Len(cp')
    BY <1>2, <1>3, <1>4
  <2>4. QED
    BY <1>2, <1>4, <2>1, <2>2, <2>3 DEF Stays
<1>6. CpInv'
  <2>1. \A f \in 1 .. n : stack'[f].kind = stack[f].kind /\ (Inside(f)' <=> Inside(f))
    BY <1>2 DEF Inside
  <2>2. \A f \in n + 1 .. Len(stack') : ~ Inside(f)'
    BY <1>2, <1>3
  <2>3. n \in Nat /\ k \in Nat /\ n <= Len(stack) /\ n <= Len(stack') /\ k <= Len(cp) /\ k <= Len(cp')
    BY <1>2, <1>3, <1>4
  <2>4. QED
    BY <1>1, <1>4, <2>1, <2>2, <2>3, CpKept
<1>7. PointInv'
  <2>1. \A f \in n + 1 .. Len(stack') : ~ IsPoint(f)'
    BY <1>2, <1>3
  <2>2. QED
    BY <1>1, <1>5, <2>1, PointsStay
<1>8. ArenaInv'
  <2>1. Len(stack') <= n + 1 /\ Len(stack') # n + 1 /\ m <= Len(arena')
    BY <1>2, <1>3
  <2>2. QED
    BY <1>1, <1>2, <1>5, <2>1, ArenaKept
<1>9. SavedInv'
  <2>1. SUFFICES ASSUME NEW f \in 1 .. Len(stack'), IsPoint(f)'
                 PROVE  CutAt(Saved(f).cp, cp, f)'
    BY DEF SavedInv
  <2>2. f \in 1 .. n /\ IsPoint(f)
    BY <1>2, <2>1 DEF IsPoint
  <2>3. QED
    BY <1>1, <1>5, <2>2, SavedStays
<1>10. LoadInv'
  <2>1. SUFFICES ASSUME NEW g \in 1 .. Len(stack'), IsLoad(g)'
                 PROVE  LoadOk(g)'
    BY DEF LoadInv
  <2>2. g \in 1 .. n /\ IsLoad(g) /\ stack'[g].calls = stack[g].calls
    BY <1>2, <2>1 DEF IsLoad
  <2>3. QED
    BY <1>1, <1>5, <2>2, LoadStays
<1>11. HandlerInv'
  <2>1. SUFFICES ASSUME ~ lost'
                 PROVE  AliveInv' /\ SettledInv'
    BY DEF HandlerInv
  <2>2. AliveInv /\ SettledInv
    BY <1>1, <2>1 DEF HandlerInv
  <2>3. Returns(n, k)
    <3>1. \A i \in k + 1 .. Len(cp') : ~ Binds(i)'
      BY <1>3, <1>4
    <3>2. QED
      BY <1>5, <2>1, <2>2, <3>1 DEF Returns
  <2>4. \A f \in 1 .. n : IsLoad(f) => stack'[f].calls = stack[f].calls
    BY <1>2
  <2>5. \A f \in n + 1 .. Len(stack') : AliveAt(f)' /\ SettledAt(f)'
    BY <1>2, <1>3
  <2>6. QED
    BY <1>1, <2>2, <2>3, <2>4, <2>5, HandlersReturn
<1>12. QED
  BY <1>6, <1>7, <1>8, <1>9, <1>10, <1>11 DEF IInv

LEMMA BelowBounds ==
  ASSUME TypeOK, ArenaInv, NEW f \in 1 .. Len(stack) + 1
  PROVE  /\ Below(f) \in 0 .. Len(arena)
         /\ \A g \in 1 .. f - 1 : stack[g].ai <= Below(f)
<1>1. Len(stack) \in Nat /\ Len(arena) \in Nat
  BY DEF TypeOK
<1>2. CASE f = 1
  BY <1>1, <1>2 DEF Below
<1>3. CASE f # 1
  <2>1. f - 1 \in 1 .. Len(stack) /\ Below(f) = stack[f - 1].ai
    BY <1>1, <1>3 DEF Below
  <2>2. stack[f - 1].ai \in Nat /\ stack[f - 1].ai <= Len(arena)
    BY <2>1, FrameFields DEF ArenaInv
  <2>3. \A g \in 1 .. f - 1 : g \in 1 .. Len(stack) /\ g <= f - 1
    BY <1>1
  <2>4. QED
    BY <1>1, <2>1, <2>2, <2>3 DEF ArenaInv
<1>4. QED
  BY <1>2, <1>3

(* The innermost checkpoint is that of the top frame, if that has one.     *)
LEMMA TopCp ==
  ASSUME TypeOK, CpInv, stack # << >>
  PROVE  /\ Len(stack) \in Nat \ {0} /\ Len(stack) - 1 \in 0 .. Len(stack)
         /\ ~ Inside(Len(stack)) =>
              \A i \in 1 .. Len(cp) : cp[i].frame <= Len(stack) - 1
         /\ Inside(Len(stack)) =>
              /\ Len(cp) \in Nat \ {0} /\ Len(cp) - 1 \in 0 .. Len(cp)
              /\ Front(cp) = SubSeq(cp, 1, Len(cp) - 1) /\ Last(cp) = cp[Len(cp)]
              /\ cp[Len(cp)].frame = Len(stack)
              /\ \A i \in 1 .. Len(cp) - 1 : cp[i].frame <= Len(stack) - 1
              /\ Top.kind # "wind" =>
                   Binds(Len(cp)) /\ cp[Len(cp)].old \in Seq(Handler)
              /\ Top.kind = "wind" => ~ Binds(Len(cp))
<1>1. stack \in Seq(Frame) /\ Len(stack) \in Nat /\ Len(cp) \in Nat
  BY DEF TypeOK
<1>2. Len(stack) # 0
  BY <1>1, EmptySeq
<1>3. ASSUME ~ Inside(Len(stack)), NEW i \in 1 .. Len(cp)
      PROVE  cp[i].frame <= Len(stack) - 1
  BY <1>1, <1>3, CpOrder
<1>4. ASSUME Inside(Len(stack))
      PROVE  /\ Len(cp) \in Nat \ {0} /\ cp[Len(cp)].frame = Len(stack)
             /\ \A i \in 1 .. Len(cp) - 1 : cp[i].frame <= Len(stack) - 1
  <2>1. PICK j \in 1 .. Len(cp) : cp[j].frame = Len(stack)
    BY <1>1, <1>2, <1>4, CpOrder
  <2>2. \A i \in 1 .. Len(cp) : cp[i].frame \in 1 .. Len(stack)
    BY CpOrder
  <2>3. \A i \in 1 .. Len(cp) : j < i => cp[j].frame < cp[i].frame
    BY CpOrder
  <2>4. j = Len(cp)
    <3>1. ~ (j < Len(cp))
      BY <1>1, <2>1, <2>2, <2>3
    <3>2. QED
      BY <1>1, <3>1
  <2>5. \A i \in 1 .. Len(cp) - 1 : cp[i].frame < cp[j].frame /\ cp[i].frame \in 1 .. Len(stack)
    <3>1. TAKE i \in 1 .. Len(cp) - 1
    <3>2. i \in 1 .. Len(cp) /\ i < j
      BY <1>1, <2>4
    <3>3. QED
      BY <2>2, <3>2, CpOrder
  <2>6. QED
    BY <1>1, <2>1, <2>4, <2>5
<1>5. ASSUME Inside(Len(stack))
      PROVE  /\ Top.kind # "wind" => Binds(Len(cp)) /\ cp[Len(cp)].old \in Seq(Handler)
             /\ Top.kind = "wind" => ~ Binds(Len(cp))
  <2>1. Len(cp) \in 1 .. Len(cp) /\ cp[Len(cp)].frame = Len(stack)
    BY <1>4, <1>5
  <2>2. Binds(Len(cp)) <=> Top.kind # "wind"
    BY <2>1 DEF CpInv, Top
  <2>3. QED
    BY <2>1, <2>2, CpFields
<1>6. Front(cp) = SubSeq(cp, 1, Len(cp) - 1) /\ Last(cp) = cp[Len(cp)]
  BY DEF Front, Last
<1>7. QED
  BY <1>1, <1>2, <1>3, <1>4, <1>5, <1>6

LEMMA ExpireType ==
  ASSUME TypeOK, NEW f, Expire(f)
  PROVE  held' \subseteq Token
<1>1. SUFFICES ASSUME NEW u \in held' PROVE u \in Token
  OBVIOUS
<1>2. PICK t \in held :
        u = IF t.addr \in Activations(f) THEN [t EXCEPT !.live = FALSE] ELSE t
  BY <1>1 DEF Expire
<1>3. t \in Token
  BY DEF TypeOK
<1>4. [t EXCEPT !.live = FALSE] \in Token
  BY <1>3 DEF Token
<1>5. QED
  BY <1>2, <1>3, <1>4

(* The frame on top returns, and its checkpoint goes.                      *)
LEMMA Returned ==
  ASSUME IInv, stack # << >>, ~ TopIs("load"), stack' = Pop,
         \/ Leave(Below(Len(stack))) \/ UNCHANGED << cont, arena >>,
         IF Inside(Len(stack))
           THEN cp' = Front(cp) /\ exc' = IF Top.kind = "wind" THEN exc ELSE Last(cp).old
           ELSE UNCHANGED << cp, exc >>,
         IF IsPoint(Len(stack)) THEN pic_exit_point ELSE UNCHANGED cc,
         Expire(Len(stack)) \/ UNCHANGED held,
         UNCHANGED << err, panic, lost >>
  PROVE  IInv'
<1> DEFINE n == Len(stack) - 1
           k == IF Inside(Len(stack)) THEN Len(cp) - 1 ELSE Len(cp)
<1>1. TypeOK /\ CpInv /\ PointInv /\ ArenaInv /\ SavedInv /\ LoadInv /\ HandlerInv
  BY DEF IInv
<1>2. /\ Len(stack) \in Nat \ {0} /\ n \in 0 .. Len(stack) /\ Len(cp) \in Nat
      /\ stack' = SubSeq(stack, 1, n) /\ Len(arena) \in Nat
  BY <1>1, TopCp DEF Pop, TypeOK
<1>3. PICK m \in 0 .. Len(arena) :
        /\ Leave(m) \/ (m = Len(arena) /\ UNCHANGED << cont, arena >>)
        /\ \A f \in 1 .. n : stack[f].ai <= m
  <2>1. CASE Leave(Below(Len(stack)))
    <3>1. Len(stack) \in 1 .. Len(stack) + 1
      BY <1>2
    <3>2. QED
      BY <1>1, <2>1, <3>1, BelowBounds
  <2>2. CASE UNCHANGED << cont, arena >>
    <3>1. \A f \in 1 .. n : f \in 1 .. Len(stack)
      BY <1>2
    <3>2. QED
      BY <1>1, <1>2, <2>2, <3>1 DEF ArenaInv
  <2>3. QED
    BY <2>1, <2>2
<1>4. /\ stack' \in Seq(Frame) /\ arena' \in Seq(Addr) /\ cont' \in [Addr -> Cont]
  BY <1>1, <1>2, <1>3, Truncates
<1>5. /\ k \in 0 .. Len(cp) /\ cp' = SubSeq(cp, 1, k)
      /\ \A i \in 1 .. k : cp[i].frame <= n
      /\ \A i \in k + 1 .. Len(cp) : i = Len(cp) /\ Inside(Len(stack)) /\ cp[i].frame > n
  <2>1. CASE Inside(Len(stack))
    <3>1. \A i \in k + 1 .. Len(cp) : i = Len(cp)
      BY <1>2, <2>1
    <3>2. cp[Len(cp)].frame = Len(stack) /\ k = Len(cp) - 1
      BY <1>1, <2>1, TopCp
    <3>3. /\ cp' = SubSeq(cp, 1, k) /\ k \in 0 .. Len(cp)
          /\ \A i \in 1 .. k : cp[i].frame <= n
      BY <1>1, <2>1, <3>2, TopCp
    <3>4. cp[Len(cp)].frame > n
      BY <1>2, <3>2
    <3>5. QED
      BY <2>1, <3>1, <3>3, <3>4
  <2>2. CASE ~ Inside(Len(stack))
    <3>1. k = Len(cp) /\ cp' = cp
      BY <2>2
    <3>2. cp = SubSeq(cp, 1, Len(cp))
      BY <1>1, SubSeqFull DEF TypeOK
    <3>3. /\ cp' = SubSeq(cp, 1, k) /\ k \in 0 .. Len(cp)
      BY <1>2, <2>2, <3>1, <3>2
    <3>4. \A i \in 1 .. Len(cp) : cp[i].frame <= n
      BY <1>1, <2>2, TopCp
    <3>5. QED
      BY <1>2, <3>1, <3>3, <3>4
  <2>3. QED
    BY <2>1, <2>2
<1>6. InnermostPoint(n, cc') /\ cc' \in Addr \cup {Nil}
  <2>1. CASE IsPoint(Len(stack))
    <3>1. Len(stack) \in 1 .. Len(stack)
      BY <1>2
    <3>2. cc = stack[Len(stack)].addr
      <4>1. \A f \in 1 .. Len(stack) : f # Len(stack) => Len(stack) \in f + 1 .. Len(stack)
        BY <1>2
      <4>2. QED
        BY <1>1, <2>1, <3>1, <4>1 DEF PointInv, ChainMatchesStack, InnermostPoint
    <3>3. InnermostPoint(n, cc')
      BY <1>1, <2>1, <3>1, <3>2 DEF PointInv, ChainMatchesStack, pic_exit_point
    <3>4. cont[cc] \in Cont
      BY <1>1, <2>1, <3>1, <3>2, FrameFields DEF TypeOK, Cont
    <3>5. QED
      BY <2>1, <3>3, <3>4 DEF pic_exit_point, Cont
  <2>2. CASE ~ IsPoint(Len(stack))
    <3>1. \A f \in 1 .. Len(stack) : f = Len(stack) \/ f \in 1 .. n
      BY <1>2
    <3>2. \A f \in 1 .. n : f \in 1 .. Len(stack) /\
            \A g \in f + 1 .. n : g \in f + 1 .. Len(stack)
      BY <1>2
    <3>3. InnermostPoint(n, cc)
      BY <1>1, <2>2, <3>1, <3>2 DEF PointInv, ChainMatchesStack, InnermostPoint
    <3>4. QED
      BY <1>1, <2>2, <3>3 DEF TypeOK
  <2>3. QED
    BY <2>1, <2>2
<1>7. exc' \in Seq(Handler)
  BY <1>1, TopCp DEF TypeOK
<1>8. cp' \in Seq(CpRec)
  <2>1. cp \in Seq(CpRec)
    BY <1>1 DEF TypeOK
  <2> HIDE DEF k
  <2>2. QED
    BY <1>5, <2>1
<1>9. held' \subseteq Token
  BY <1>1, ExpireType DEF TypeOK
<1>10. TypeOK'
  BY <1>1, <1>4, <1>6, <1>7, <1>8, <1>9 DEF TypeOK, Cont
<1>11. /\ (\A i \in k + 1 .. Len(cp) : ~ Binds(i)) => exc' = exc
       /\ \A i \in k + 1 .. Len(cp) : Outermost(k, i) => exc' = cp[i].old
  <2>1. CASE Inside(Len(stack))
    <3>1. Len(cp) \in k + 1 .. Len(cp) /\ Last(cp) = cp[Len(cp)]
      BY <1>1, <1>2, <2>1, TopCp
    <3>2. Top.kind = "wind" <=> ~ Binds(Len(cp))
      BY <1>1, <2>1, TopCp
    <3>3. QED
      BY <1>5, <2>1, <3>1, <3>2 DEF Outermost
  <2>2. CASE ~ Inside(Len(stack))
    BY <1>2, <1>5, <2>2
  <2>3. QED
    BY <2>1, <2>2
<1>12. \A g \in n + 1 .. Len(stack) : ~ IsLoad(g)
  <2>1. \A g \in n + 1 .. Len(stack) : g = Len(stack)
    BY <1>2
  <2>2. QED
    BY <2>1 DEF IsLoad, TopIs, Top
<1>13. QED
  <2> HIDE DEF k, n
  <2>1. \A i \in k + 1 .. Len(cp) : cp[i].frame > n
    BY <1>5
  <2>2. lost => lost'
    OBVIOUS
  <2>3. QED
    BY <1>2, <1>3, <1>5, <1>6, <1>10, <1>11, <1>12, <2>1, <2>2, TruncateInv

LEMMA ReturnKept ==
  IInv /\ (CallccReturn \/ WindReturn \/ BindReturn \/ pic_end_try \/ ThunkReturn)
    => IInv'
<1>1. SUFFICES ASSUME IInv,
                      CallccReturn \/ WindReturn \/ BindReturn \/ pic_end_try \/ ThunkReturn
               PROVE  IInv'
  OBVIOUS
<1>2. CASE CallccReturn
  <2>1. IsPoint(Len(stack)) /\ ~ Inside(Len(stack)) /\ ~ TopIs("load")
    BY <1>2 DEF CallccReturn, TopIs, Top, IsPoint, Inside
  <2>2. QED
    BY <1>1, <1>2, <2>1, Returned DEF CallccReturn, TopIs
<1>3. CASE WindReturn
  <2>1. ~ IsPoint(Len(stack)) /\ ~ Inside(Len(stack)) /\ ~ TopIs("load") /\ stack # << >>
    BY <1>3 DEF WindReturn, Winding, TopIs, Top, IsPoint, Inside
  <2>2. QED
    BY <1>1, <1>3, <2>1, Returned DEF WindReturn
<1>4. CASE BindReturn
  <2>1. /\ ~ IsPoint(Len(stack)) /\ Inside(Len(stack)) /\ ~ TopIs("load")
        /\ stack # << >> /\ Top.kind # "wind"
    BY <1>4 DEF BindReturn, TopIs, Top, IsPoint, Inside
  <2>2. QED
    BY <1>1, <1>4, <2>1, Returned DEF BindReturn
<1>5. CASE pic_end_try
  <2>1. /\ IsPoint(Len(stack)) /\ Inside(Len(stack)) /\ ~ TopIs("load")
        /\ stack # << >> /\ Top.kind # "wind"
    BY <1>5 DEF pic_end_try, TopIs, Top, IsPoint, Inside
  <2>2. QED
    BY <1>1, <1>5, <2>1, Returned DEF pic_end_try
<1>6. CASE ThunkReturn
  <2>1. ~ IsPoint(Len(stack)) /\ ~ Inside(Len(stack)) /\ ~ TopIs("load") /\ stack # << >>
    BY <1>6 DEF ThunkReturn, TopIs, Top, IsPoint, Inside
  <2>2. QED
    BY <1>1, <1>6, <2>1, Returned DEF ThunkReturn
<1>7. QED
  BY <1>1, <1>2, <1>3, <1>4, <1>5, <1>6

(* Nothing is left but, perhaps, what is on top of the arena.              *)
LEMMA NothingLeft ==
  ASSUME IInv, UNCHANGED << stack, cp, exc, cc, lost >>, TypeOK',
         NEW m \in 0 .. Len(arena),
         Leave(m) \/ (m = Len(arena) /\ UNCHANGED << cont, arena >>),
         \A f \in 1 .. Len(stack) : stack[f].ai <= m
  PROVE  IInv'
<1>1. stack \in Seq(Frame) /\ cp \in Seq(CpRec) /\ Len(stack) \in Nat /\ Len(cp) \in Nat
  BY DEF IInv, TypeOK
<1>2. stack = SubSeq(stack, 1, Len(stack)) /\ cp = SubSeq(cp, 1, Len(cp))
  BY <1>1, SubSeqFull
<1>3. \A i \in 1 .. Len(cp) : cp[i].frame <= Len(stack)
  BY <1>1, CpOrder DEF IInv
<1>4. InnermostPoint(Len(stack), cc')
  BY DEF IInv, PointInv, ChainMatchesStack
<1>5. PICK n \in Nat, k \in Nat : n = Len(stack) /\ k = Len(cp)
  BY <1>1
<1>6. (\A i \in k + 1 .. Len(cp) : FALSE) /\ (\A i \in n + 1 .. Len(stack) : FALSE)
  BY <1>5
<1>7. stack' = SubSeq(stack, 1, n) /\ cp' = SubSeq(cp, 1, k) /\ n \in 0 .. Len(stack)
      /\ k \in 0 .. Len(cp) /\ \A i \in 1 .. k : cp[i].frame <= n
  BY <1>1, <1>2, <1>3, <1>5
<1>8. (\A f \in 1 .. n : stack[f].ai <= m) /\ InnermostPoint(n, cc') /\ exc' = exc
      /\ (lost => lost')
  BY <1>4, <1>5
<1>9. QED
  BY <1>6, <1>7, <1>8, TruncateInv

LEMMA LeaveKept == IInv /\ pic_leave => IInv'
<1>1. SUFFICES ASSUME IInv, pic_leave PROVE IInv'
  OBVIOUS
<1>2. TypeOK /\ ArenaInv /\ Len(stack) \in Nat
  BY <1>1 DEF IInv, TypeOK
<1>3. Len(stack) + 1 \in 1 .. Len(stack) + 1 /\ (Len(stack) + 1) - 1 = Len(stack)
  BY <1>2
<1>4. PICK m \in 0 .. Len(arena) :
        m = Below(Len(stack) + 1) /\ \A f \in 1 .. Len(stack) : stack[f].ai <= m
  BY <1>2, <1>3, BelowBounds
<1>5. Leave(m) /\ UNCHANGED << stack, cp, exc, cc, lost, err, held, panic >>
  BY <1>1, <1>4 DEF pic_leave, control
<1>6. arena' \in Seq(Addr) /\ cont' \in [Addr -> Cont]
  BY <1>2, <1>5, LeaveKeeps
<1>7. TypeOK'
  BY <1>2, <1>5, <1>6 DEF TypeOK, Cont
<1>8. QED
  BY <1>1, <1>4, <1>5, <1>7, NothingLeft

-----------------------------------------------------------------------------
(* The point an escape goes to is on the stack, and there is only one.     *)
LEMMA TargetPoint ==
  ASSUME TypeOK, PointInv, LoadInv, stack # << >>, IsLoad(Len(stack))
  PROVE  /\ Target \in 1 .. Len(stack) - 1 /\ IsPoint(Target)
         /\ stack[Target].addr = Top.token.addr
         /\ Goal(Len(stack)) = Saved(Target) /\ cont[Top.token.addr] = Saved(Target)
         /\ \A f \in 1 .. Len(stack) :
              IsPoint(f) /\ stack[f].addr = Top.token.addr => f = Target
<1>1. Len(stack) \in Nat \ {0}
  BY EmptySeq DEF TypeOK
<1>2. PICK f \in 1 .. Len(stack) - 1 : IsPoint(f) /\ stack[f].addr = Top.token.addr
  <2>1. Len(stack) \in 1 .. Len(stack)
    BY <1>1
  <2>2. LoadOk(Len(stack))
    BY <2>1 DEF LoadInv
  <2>3. QED
    BY <2>2 DEF LoadOk, Top
<1>3. f \in 1 .. Len(stack)
  BY <1>1
<1>4. Target \in 1 .. Len(stack) /\ IsPoint(Target) /\ stack[Target].addr = Top.token.addr
  BY <1>2, <1>3 DEF Target
<1>5. \A g \in 1 .. Len(stack) :
        IsPoint(g) /\ stack[g].addr = Top.token.addr => g = Target
  BY <1>4 DEF PointInv
<1>6. QED
  BY <1>2, <1>3, <1>4, <1>5 DEF Goal, Saved, Top

(* When an escape is about to jump, the handlers are those the outermost   *)
(* binding it leaves was made over.                                        *)
LEMMA JumpOuts ==
  ASSUME TypeOK, CpInv, PointInv, LoadInv, SettledInv,
         stack # << >>, IsLoad(Len(stack)), Top.calls = << >>,
         NEW k \in 0 .. Len(cp), k = Len(Saved(Target).cp),
         NEW i \in k + 1 .. Len(cp), Outermost(k, i)
  PROVE  exc = cp[i].old /\ cp[i].frame <= Len(stack) - 1
<1>1. Len(stack) \in Nat /\ Len(stack) \in 1 .. Len(stack) /\ Len(cp) \in Nat
  BY EmptySeq DEF TypeOK
<1>2. Goal(Len(stack)) = Saved(Target)
  BY TargetPoint
<1>3. i \in 1 .. Len(cp) /\ Binds(i) /\ \A j \in k + 1 .. i - 1 : ~ Binds(j)
  BY <1>1 DEF Outermost
<1>4. ~ Inside(Len(stack))
  BY DEF IsLoad, Inside
<1>5. NoBinds(Len(stack)) /\ cp[i].frame <= Len(stack) - 1 /\ cp[i].frame < Len(stack)
  <2>1. \A j \in 1 .. Len(cp) : cp[j].frame \in 1 .. Len(stack)
    BY CpOrder
  <2>2. \A j \in 1 .. Len(cp) : cp[j].frame <= Len(stack) - 1
    BY <1>4, TopCp
  <2>3. QED
    BY <1>1, <1>3, <2>1, <2>2 DEF NoBinds
<1>6. PutBack(Len(stack), i)
  <2>1. Len(stack[Len(stack)].calls) = 0
    BY EmptySeq DEF Top
  <2>2. QED
    BY <1>1, <1>2, <1>3, <1>5, <2>1 DEF PutBack
<1>7. Settled(Len(stack), cp[i].old)
  BY <1>1, <1>3, <1>6 DEF SettledAt, SettledInv
<1>8. Quiet(Len(stack), Len(stack) + 1)
  BY <1>1 DEF Quiet
<1>9. QED
  BY <1>5, <1>7, <1>8 DEF Settled

(* Unless it is cut short, every escape still under way is going to the    *)
(* target of the innermost one, or to a point above it.                    *)
LEMMA JumpQuiet ==
  ASSUME TypeOK, PointInv, LoadInv, ~ CutsShort,
         stack # << >>, IsLoad(Len(stack)), NEW t, t = Target,
         NEW g \in t .. Len(stack), NEW h \in 1 .. t - 1
  PROVE  ~ (IsLoad(g) /\ IsPoint(h) /\ stack[h].addr = stack[g].token.addr)
<1>1. /\ t \in 1 .. Len(stack) - 1 /\ IsPoint(t)
      /\ \A f \in 1 .. Len(stack) :
           IsPoint(f) /\ stack[f].addr = Top.token.addr => f = t
  BY TargetPoint
<1>2. SUFFICES ASSUME IsLoad(g), IsPoint(h), stack[h].addr = stack[g].token.addr
               PROVE  FALSE
  OBVIOUS
<1>3. Len(stack) \in Nat /\ t \in Nat /\ h \in 1 .. Len(stack) /\ h # t
  BY <1>1 DEF TypeOK
<1>4. CASE g = t
  BY <1>1, <1>2, <1>4 DEF IsLoad, IsPoint
<1>5. CASE g = Len(stack)
  BY <1>1, <1>2, <1>3, <1>5 DEF Top
<1>6. CASE g \in t + 1 .. Len(stack) - 1
  BY <1>2, <1>6 DEF CutsShort, IsLoad
<1>7. QED
  BY <1>1, <1>3, <1>4, <1>5, <1>6

LEMMA JumpKept == IInv /\ Jump => IInv'
<1>1. SUFFICES ASSUME IInv, Jump PROVE IInv'
  OBVIOUS
<1>2. TypeOK /\ CpInv /\ PointInv /\ ArenaInv /\ SavedInv /\ LoadInv /\ HandlerInv
  BY <1>1 DEF IInv
<1>3. stack # << >> /\ IsLoad(Len(stack)) /\ Top.calls = << >>
  BY <1>1 DEF Jump, AboutToJump, Loading, TopIs, IsLoad, Top
<1>4. /\ Target \in 1 .. Len(stack) - 1 /\ IsPoint(Target)
      /\ stack[Target].addr = Top.token.addr
      /\ Goal(Len(stack)) = Saved(Target) /\ cont[Top.token.addr] = Saved(Target)
      /\ \A f \in 1 .. Len(stack) :
           IsPoint(f) /\ stack[f].addr = Top.token.addr => f = Target
  BY <1>2, <1>3, TargetPoint
<1>5. PICK t \in 1 .. Len(stack) - 1 : t = Target
  BY <1>4
<1>6. Len(stack) \in Nat /\ Len(cp) \in Nat /\ Len(arena) \in Nat /\ cp \in Seq(CpRec)
  BY <1>2 DEF TypeOK
<1>7. t \in 1 .. Len(stack) /\ t - 1 \in 0 .. Len(stack) /\ t \in Nat
  BY <1>6
<1>8. /\ cp' = Saved(t).cp /\ cc' = Saved(t).prev
      /\ Leave(IF stack[t].kind = "try" THEN Saved(t).arena ELSE Below(t))
      /\ Expire(t) /\ stack' = SubSeq(stack, 1, t - 1)
      /\ lost' = (lost \/ CutsShort) /\ UNCHANGED << exc, err, panic >>
  BY <1>1, <1>4, <1>5 DEF Jump
<1>9. Saved(t) \in Cont
  BY <1>2, <1>4, <1>5, <1>7, FrameFields DEF TypeOK, Cont, Saved
<1>10. Saved(t).cp \in Seq(CpRec) /\ Saved(t).prev \in Addr \cup {Nil}
  BY <1>9 DEF Cont
<1>11. CutAt(Saved(t).cp, cp, t)
  BY <1>2, <1>4, <1>5, <1>7 DEF SavedInv
<1>12. PICK k \in 0 .. Len(cp) : k = Len(Saved(t).cp)
  BY <1>6, <1>10, <1>11 DEF CutAt
<1>13. cp' = SubSeq(cp, 1, k)
  <2>1. /\ SubSeq(cp, 1, k) \in Seq(CpRec) /\ Len(SubSeq(cp, 1, k)) = k
        /\ \A i \in 1 .. k : SubSeq(cp, 1, k)[i] = cp[i]
    BY <1>6, SubSeqProperties
  <2>2. \A i \in 1 .. k : cp'[i] = cp[i]
    BY <1>8, <1>11, <1>12 DEF CutAt
  <2>3. QED
    BY <1>8, <1>10, <1>12, <2>1, <2>2, SeqEqual
<1>14. /\ \A i \in 1 .. k : cp[i].frame <= t - 1
       /\ \A i \in k + 1 .. Len(cp) : cp[i].frame > t - 1
  <2>1. /\ \A i \in 1 .. k : cp[i].frame < t
        /\ \A i \in k + 1 .. Len(cp) : cp[i].frame >= t
    BY <1>11, <1>12 DEF CutAt
  <2>2. \A i \in 1 .. Len(cp) : cp[i].frame \in Nat
    BY <1>2, CpFields
  <2>3. \A i \in 1 .. k : i \in 1 .. Len(cp)
    BY <1>6
  <2>4. \A i \in k + 1 .. Len(cp) : i \in 1 .. Len(cp)
    BY <1>6
  <2>5. QED
    BY <1>7, <2>1, <2>2, <2>3, <2>4
<1>15. PICK m \in 0 .. Len(arena) : Leave(m) /\ \A f \in 1 .. t - 1 : stack[f].ai <= m
  <2>1. CASE stack[t].kind = "try"
    <3>1. Leave(Saved(t).arena)
      BY <1>8, <2>1
    <3>2. Saved(t).arena = stack[t].ai /\ stack[t].ai \in 0 .. Len(arena)
      BY <1>2, <1>4, <1>5, <1>6, <1>7 DEF ArenaInv
    <3>3. \A f \in 1 .. t - 1 : f \in 1 .. Len(stack) /\ f <= t
      BY <1>6, <1>7
    <3>4. \A f \in 1 .. t - 1 : stack[f].ai <= stack[t].ai
      BY <1>2, <1>7, <3>3 DEF ArenaInv
    <3>5. QED
      BY <3>1, <3>2, <3>4
  <2>2. CASE stack[t].kind # "try"
    <3>1. t \in 1 .. Len(stack) + 1
      BY <1>6
    <3>2. QED
      BY <1>2, <1>8, <2>2, <3>1, BelowBounds
  <2>3. QED
    BY <2>1, <2>2
<1>16. InnermostPoint(t - 1, cc')
  BY <1>2, <1>4, <1>5, <1>7, <1>8 DEF PointInv, ChainMatchesStack, Saved
<1>17. TypeOK'
  <2>1. stack' \in Seq(Frame) /\ arena' \in Seq(Addr) /\ cont' \in [Addr -> Cont]
    BY <1>2, <1>7, <1>8, <1>15, Truncates
  <2>2. held' \subseteq Token
    BY <1>2, <1>8, ExpireType
  <2>3. lost' \in BOOLEAN
    BY <1>2, <1>8, Zenon DEF TypeOK, CutsShort
  <2>4. QED
    BY <1>2, <1>8, <1>10, <2>1, <2>2, <2>3 DEF TypeOK, Cont
<1>18. ASSUME ~ lost', SettledInv
       PROVE  /\ \A i \in k + 1 .. Len(cp) : Outermost(k, i) => exc' = cp[i].old
              /\ \A g \in t .. Len(stack), h \in 1 .. t - 1 :
                   ~ (IsLoad(g) /\ IsPoint(h) /\ stack[h].addr = stack[g].token.addr)
  <2>1. \A i \in k + 1 .. Len(cp) : Outermost(k, i) => exc = cp[i].old
    BY <1>2, <1>3, <1>5, <1>12, <1>18, JumpOuts
  <2>2. ~ CutsShort
    BY <1>8, <1>18
  <2>3. QED
    BY <1>2, <1>3, <1>5, <1>8, <2>1, <2>2, JumpQuiet
<1>19. PICK n \in 0 .. Len(stack) : n = t - 1
  BY <1>7
<1>20. \A g \in n + 1 .. Len(stack) : g \in t .. Len(stack)
  BY <1>7, <1>19
<1>21. QED
  BY <1>1, <1>8, <1>13, <1>14, <1>15, <1>16, <1>17, <1>18, <1>19, <1>20, TruncateInv

-----------------------------------------------------------------------------
(* A step that enters a frame, on top of the others.  A point is one that  *)
(* pic_save_point has made; a bind and a try have a checkpoint that holds  *)
(* the handlers so far; a load has every checkpoint above its goal before  *)
(* it.                                                                     *)
Entered(fr) ==
  /\ stack' = Append(stack, fr)
  /\ UNCHANGED lost
  /\ IF fr.kind \in {"callcc", "try"}
       THEN SavePoint(fr.addr) /\ fr.ai = Len(arena')
       ELSE UNCHANGED << cc, cont, arena >> /\ fr.ai = Len(arena)
  /\ IF fr.kind \in {"try", "bind"}
       THEN \E rec \in CpRec : /\ cp' = Append(cp, rec)
                               /\ rec.frame = Len(stack) + 1 /\ rec.old = exc
       ELSE UNCHANGED << cp, exc >>
  /\ fr.kind = "wind" => fr.stage = "in"
  /\ fr.kind = "load" =>
       \E f \in 1 .. Len(stack) :
         /\ IsPoint(f) /\ stack[f].addr = fr.token.addr
         /\ Len(Saved(f).cp) + Len(fr.calls) = Len(cp)
         /\ \A i \in 1 .. Len(fr.calls) : fr.calls[i] = << "out", cp[Len(cp) + 1 - i] >>

LEMMA EnteredFrames ==
  ASSUME TypeOK, TypeOK', CpInv, ArenaInv, NEW fr \in Frame, Entered(fr)
  PROVE  /\ Len(stack) \in Nat /\ Len(cp) \in Nat /\ Len(arena) \in Nat
         /\ Len(stack') = Len(stack) + 1 /\ stack'[Len(stack) + 1] = fr
         /\ \A f \in 1 .. Len(stack) : Alike(f) /\ stack'[f] = stack[f]
         /\ Stays(Len(stack), Len(cp))
         /\ Len(arena) <= Len(arena') /\ Len(arena') \in Nat
         /\ \A i \in 1 .. Len(arena) : arena'[i] = arena[i]
<1>1. /\ stack \in Seq(Frame) /\ Len(stack) \in Nat /\ cp \in Seq(CpRec) /\ Len(cp) \in Nat
      /\ arena \in Seq(Addr) /\ Len(arena) \in Nat
      /\ arena' \in Seq(Addr) /\ Len(arena') \in Nat
  BY DEF TypeOK
<1>2. /\ Len(stack') = Len(stack) + 1 /\ stack'[Len(stack) + 1] = fr
      /\ \A f \in 1 .. Len(stack) : stack'[f] = stack[f]
  BY <1>1, AppendProperties DEF Entered
<1>3. /\ Len(arena) <= Len(arena')
      /\ \A i \in 1 .. Len(arena) : arena'[i] = arena[i]
      /\ \A f \in 1 .. Len(stack) : IsPoint(f) => cont'[stack[f].addr] = Saved(f)
  <2>1. CASE fr.kind \in {"callcc", "try"}
    <3>1. SavePoint(fr.addr) /\ fr.addr \in Addr
      BY <2>1 DEF Entered, Frame, PointFrame, WindFrame, BindFrame, LoadFrame, ThunkFrame
    <3>2. arena' = Append(arena, fr.addr) /\ fr.addr \notin ToSet(arena)
      BY <3>1 DEF SavePoint
    <3>3. /\ Len(arena') = Len(arena) + 1
          /\ \A i \in 1 .. Len(arena) : arena'[i] = arena[i]
      BY <1>1, <3>1, <3>2, AppendProperties
    <3>4. ASSUME NEW f \in 1 .. Len(stack), IsPoint(f)
          PROVE  cont'[stack[f].addr] = Saved(f)
      <4>1. stack[f].addr \in ToSet(arena)
        BY <3>4 DEF ArenaInv, ToSet
      <4>2. stack[f].addr # fr.addr /\ stack[f].addr \in Addr
        BY <3>2, <3>4, <4>1, FrameFields
      <4>3. cont \in [Addr -> Cont]
        BY DEF TypeOK, Cont
      <4>4. QED
        BY <3>1, <4>2, <4>3 DEF SavePoint, Saved
    <3>5. QED
      BY <1>1, <3>3, <3>4
  <2>2. CASE fr.kind \notin {"callcc", "try"}
    BY <1>1, <2>2 DEF Entered, Saved
  <2>3. QED
    BY <2>1, <2>2
<1>4. \A f \in 1 .. Len(stack) : Alike(f)
  BY <1>2, <1>3 DEF Alike
<1>5. /\ Len(cp) <= Len(cp') /\ \A i \in 1 .. Len(cp) : cp'[i] = cp[i]
      /\ \A i \in Len(cp) + 1 .. Len(cp') : cp'[i].frame = Len(stack) + 1
  <2>1. CASE fr.kind \in {"try", "bind"}
    <3>1. PICK rec \in CpRec : cp' = Append(cp, rec) /\ rec.frame = Len(stack) + 1
      BY <2>1 DEF Entered
    <3>2. /\ Len(cp') = Len(cp) + 1 /\ cp'[Len(cp) + 1] = rec
          /\ \A i \in 1 .. Len(cp) : cp'[i] = cp[i]
      BY <1>1, <3>1, AppendProperties
    <3>3. QED
      BY <1>1, <3>1, <3>2
  <2>2. CASE fr.kind \notin {"try", "bind"}
    BY <1>1, <2>2 DEF Entered
  <2>3. QED
    BY <2>1, <2>2
<1>6. \A i \in 1 .. Len(cp) : cp[i].frame <= Len(stack)
  BY <1>1, CpOrder
<1>7. Stays(Len(stack), Len(cp))
  <2>1. \A f \in 1 .. Len(stack) :
          /\ \A i \in Len(cp) + 1 .. Len(cp) : cp[i].frame >= f
          /\ \A i \in Len(cp) + 1 .. Len(cp') : cp'[i].frame >= f
    BY <1>1, <1>5
  <2>2. Len(stack) <= Len(stack') /\ Len(stack) \in 0 .. Len(stack) /\ Len(cp) \in 0 .. Len(cp)
    BY <1>1, <1>2
  <2>3. QED
    BY <1>4, <1>5, <1>6, <2>1, <2>2 DEF Stays
<1>8. QED
  BY <1>1, <1>2, <1>3, <1>4, <1>7

(* The goal of a load is the continuation of a point below it, and every   *)
(* checkpoint on top of the goal's is to be left.                          *)
LEMMA EnteredLoad ==
  ASSUME TypeOK, TypeOK', CpInv, ArenaInv, NEW fr \in Frame, Entered(fr), fr.kind = "load",
         NEW n \in Nat, n = Len(stack)
  PROVE  /\ LoadOk(n + 1)' /\ IsLoad(n + 1)'
         /\ Len(Goal(n + 1)'.cp) + Len(stack'[n + 1].calls) = Len(cp')
         /\ Len(Goal(n + 1)'.cp) \in Nat /\ Len(stack'[n + 1].calls) \in Nat
<1>1. /\ Len(cp) \in Nat /\ Len(stack') = n + 1 /\ stack'[n + 1] = fr
      /\ \A f \in 1 .. n : Alike(f) /\ stack'[f] = stack[f]
  BY EnteredFrames
<1>2. cp' = cp
  BY DEF Entered
<1>3. PICK f \in 1 .. n :
         /\ IsPoint(f) /\ stack[f].addr = fr.token.addr
         /\ Len(Saved(f).cp) + Len(fr.calls) = Len(cp)
         /\ \A i \in 1 .. Len(fr.calls) : fr.calls[i] = << "out", cp[Len(cp) + 1 - i] >>
  BY DEF Entered
<1>4. IsPoint(f)' /\ stack'[f].addr = stack'[n + 1].token.addr /\ Goal(n + 1)' = Saved(f)
  BY <1>1, <1>3 DEF IsPoint, Alike, Goal
<1>5. \A i \in 1 .. Len(cp) : cp[i].frame < n + 1
  BY <1>1, CpOrder
<1>6. Len(Saved(f).cp) \in Nat /\ Len(fr.calls) \in Nat
  <2>1. fr.calls \in Seq({"in", "out"} \X CpRec)
    BY DEF Frame, PointFrame, WindFrame, BindFrame, LoadFrame, ThunkFrame
  <2>2. Saved(f) \in Cont
    BY <1>3, FrameFields DEF TypeOK, Cont, Saved
  <2>3. Saved(f).cp \in Seq(CpRec)
    BY <2>2 DEF Cont
  <2>4. Len(fr.calls) \in Nat
    BY <2>1
  <2>5. QED
    BY <2>3, <2>4
<1>7. LoadOk(n + 1)'
  <2>1. f \in 1 .. (n + 1) - 1
    OBVIOUS
  <2> DEFINE p == Len(Saved(f).cp)
             c == Len(fr.calls)
  <2>2. /\ p + c <= Len(cp) /\ \A i \in 1 .. p + c : cp[i].frame < n + 1
        /\ \A i \in 1 .. c : fr.calls[i] = << "out", cp[p + c + 1 - i] >>
    <3>4. p \in Nat /\ c \in Nat /\ p + c = Len(cp)
      BY <1>3, <1>6
    <3>5. \A i \in 1 .. c : fr.calls[i] = << "out", cp[Len(cp) + 1 - i] >>
      BY <1>3
    <3> HIDE DEF p, c
    <3>6. p + c <= Len(cp) /\ \A i \in 1 .. p + c : cp[i].frame < n + 1
      BY <1>1, <1>5, <3>4
    <3>7. \A i \in 1 .. c : p + c + 1 - i = Len(cp) + 1 - i
      BY <3>4
    <3>8. QED
      BY <3>5, <3>6, <3>7
  <2>3. p = Len(Goal(n + 1)'.cp) /\ c = Len(stack'[n + 1].calls) /\ stack'[n + 1].calls = fr.calls
    BY <1>1, <1>4
  <2> HIDE DEF p, c
  <2>4. QED
    BY <1>2, <1>4, <2>1, <2>2, <2>3 DEF LoadOk
<1>8. QED
  BY <1>1, <1>2, <1>3, <1>4, <1>6, <1>7 DEF IsLoad

LEMMA EnterInv ==
  ASSUME IInv, TypeOK', NEW fr \in Frame, Entered(fr),
         AliveInv => TrysAmong(exc, Len(stack))' \/ UNCHANGED exc
  PROVE  IInv'
<1>1. TypeOK /\ CpInv /\ PointInv /\ ArenaInv /\ SavedInv /\ LoadInv /\ HandlerInv
  BY DEF IInv
<1>2. PICK n \in Nat, k \in Nat : n = Len(stack) /\ k = Len(cp)
  BY <1>1, EnteredFrames
<1>3. /\ Len(stack') = n + 1 /\ stack'[n + 1] = fr
      /\ \A f \in 1 .. n : Alike(f) /\ stack'[f] = stack[f]
      /\ Stays(n, k)
      /\ Len(arena) \in Nat /\ Len(arena) <= Len(arena') /\ Len(arena') \in Nat
      /\ \A i \in 1 .. Len(arena) : arena'[i] = arena[i]
  BY <1>1, <1>2, EnteredFrames
<1>4. \A f \in 1 .. Len(stack') : f \in 1 .. n \/ f = n + 1
  BY <1>3
<1>5. IsPoint(n + 1)' <=> fr.kind \in {"callcc", "try"}
  BY <1>3 DEF IsPoint
<1>6. fr.kind \in {"callcc", "try"} =>
        /\ SavePoint(fr.addr) /\ fr.addr \in Addr /\ fr.ai = Len(arena')
        /\ arena' = Append(arena, fr.addr)
        /\ Len(arena') = Len(arena) + 1 /\ arena'[Len(arena')] = fr.addr
        /\ cont'[fr.addr] = [cp |-> cp, arena |-> Len(arena'), prev |-> cc, exc |-> exc]
        /\ cc' = fr.addr
  <2>1. SUFFICES ASSUME fr.kind \in {"callcc", "try"}
                 PROVE  /\ SavePoint(fr.addr) /\ fr.addr \in Addr /\ fr.ai = Len(arena')
                        /\ arena' = Append(arena, fr.addr)
                        /\ Len(arena') = Len(arena) + 1 /\ arena'[Len(arena')] = fr.addr
                        /\ cont'[fr.addr] = [cp |-> cp, arena |-> Len(arena'), prev |-> cc, exc |-> exc]
                        /\ cc' = fr.addr
    OBVIOUS
  <2>2. SavePoint(fr.addr) /\ fr.addr \in Addr /\ fr.ai = Len(arena')
    BY <2>1 DEF Entered, Frame, PointFrame, WindFrame, BindFrame, LoadFrame, ThunkFrame
  <2>3. arena \in Seq(Addr) /\ cont \in [Addr -> Cont]
    BY <1>1 DEF TypeOK, Cont
  <2>4. QED
    BY <2>2, <2>3, AppendProperties DEF SavePoint
<1>7. CpInv'
  <2>1. \A f \in 1 .. n : stack'[f].kind = stack[f].kind /\ (Inside(f)' <=> Inside(f))
    BY <1>3 DEF Inside
  <2>2. /\ \A i \in 1 .. k : cp'[i] = cp[i] /\ cp[i].frame <= n
        /\ \A i \in k + 1 .. Len(cp) : cp[i].frame > n
        /\ n <= Len(stack) /\ n <= Len(stack') /\ k <= Len(cp) /\ k <= Len(cp')
    BY <1>2, <1>3 DEF Stays
  <2>3. \/ Len(cp') = k /\ \A f \in n + 1 .. Len(stack') : ~ Inside(f)'
        \/ /\ Len(stack') = n + 1 /\ Inside(n + 1)'
           /\ Len(cp') = k + 1 /\ cp'[k + 1].frame = n + 1
           /\ cp'[k + 1].old # Nil <=> stack'[n + 1].kind # "wind"
    <3>1. CASE fr.kind \in {"try", "bind"}
      <4>1. PICK rec \in CpRec :
              cp' = Append(cp, rec) /\ rec.frame = n + 1 /\ rec.old = exc
        BY <1>2, <3>1 DEF Entered
      <4>2. cp \in Seq(CpRec) /\ exc \in Seq(Handler)
        BY <1>1 DEF TypeOK
      <4>3. Len(cp') = k + 1 /\ cp'[k + 1] = rec
        BY <1>2, <4>1, <4>2, AppendProperties
      <4>4. exc # Nil
        BY <4>2, NilNotSeq, Zenon
      <4>5. Inside(n + 1)'
        BY <1>3, <3>1 DEF Inside
      <4>6. QED
        BY <1>3, <3>1, <4>1, <4>3, <4>4, <4>5
    <3>2. CASE fr.kind \notin {"try", "bind"}
      <4>1. cp' = cp /\ ~ Inside(n + 1)'
        BY <1>3, <3>2 DEF Entered, Inside
      <4>2. \A f \in n + 1 .. Len(stack') : f = n + 1
        BY <1>3
      <4>3. QED
        BY <1>2, <4>1, <4>2
    <3>3. QED
      BY <3>1, <3>2
  <2>4. QED
    BY <1>1, <2>1, <2>2, <2>3, CpKept
<1>8. PointInv'
  <2>1. CASE fr.kind \in {"callcc", "try"}
    <3>1. \A f \in 1 .. Len(stack) : IsPoint(f) => stack[f].addr # fr.addr
      BY <1>1, <1>6, <2>1 DEF ArenaInv, SavePoint, ToSet
    <3>2. /\ stack'[Len(stack')].addr = fr.addr /\ cc' = fr.addr
          /\ cont'[fr.addr].prev = cc /\ Len(stack') = Len(stack) + 1
      BY <1>2, <1>3, <1>6, <2>1
    <3>3. IsPoint(Len(stack))'
      BY <1>3, <2>1 DEF IsPoint
    <3>4. Stays(Len(stack), k)
      BY <1>2, <1>3
    <3>5. PICK a : a = fr.addr
      OBVIOUS
    <3>6. QED
      BY <1>1, <3>1, <3>2, <3>3, <3>4, <3>5, PointPushed
  <2>2. CASE fr.kind \notin {"callcc", "try"}
    <3>1. \A f \in n + 1 .. Len(stack') : ~ IsPoint(f)'
      <4>1. \A f \in n + 1 .. Len(stack') : f = n + 1
        BY <1>3
      <4>2. QED
        BY <1>5, <2>2, <4>1
    <3>2. InnermostPoint(n, cc')
      BY <1>1, <1>2, <2>2 DEF Entered, PointInv, ChainMatchesStack
    <3>3. QED
      BY <1>1, <1>3, <3>1, <3>2, PointsStay
  <2>3. QED
    BY <2>1, <2>2
<1>9. ArenaInv'
  <2>1. \A f \in 1 .. n : stack[f].ai <= Len(arena) /\ stack[f].ai \in Nat
    BY <1>1, <1>2, FrameFields DEF ArenaInv
  <2>2. /\ fr.ai <= Len(arena') /\ \A f \in 1 .. n : stack[f].ai <= fr.ai
        /\ IsPoint(n + 1)' => /\ fr.ai \in 1 .. Len(arena') /\ arena'[fr.ai] = fr.addr
                              /\ cont'[fr.addr].arena = fr.ai
    <3>1. CASE fr.kind \in {"callcc", "try"}
      BY <1>3, <1>6, <2>1, <3>1
    <3>2. CASE fr.kind \notin {"callcc", "try"}
      BY <1>3, <1>5, <2>1, <3>2 DEF Entered
    <3>3. QED
      BY <3>1, <3>2
  <2>3. Len(arena) \in 0 .. Len(arena) /\ Len(stack') <= n + 1
    BY <1>3
  <2>4. QED
    BY <1>1, <1>3, <2>1, <2>2, <2>3, ArenaKept
<1>10. SavedInv'
  <2>1. SUFFICES ASSUME NEW f \in 1 .. Len(stack'), IsPoint(f)'
                 PROVE  CutAt(Saved(f).cp, cp, f)'
    BY DEF SavedInv
  <2>2. CASE f \in 1 .. n
    <3>1. IsPoint(f)
      BY <1>3, <2>1, <2>2 DEF IsPoint
    <3>2. QED
      BY <1>1, <1>3, <2>2, <3>1, SavedStays
  <2>3. CASE f = n + 1
    <3>1. Saved(f)'.cp = cp
      BY <1>3, <1>5, <1>6, <2>1, <2>3 DEF Saved
    <3>2. /\ k <= Len(cp') /\ \A i \in 1 .. k : cp'[i] = cp[i] /\ cp[i].frame <= n
          /\ Len(cp') \in Nat
      BY <1>3, Lengths, <1>1 DEF Stays
    <3>3. \A i \in 1 .. k : cp[i].frame \in Nat
      BY <1>1, <1>2, CpFields
    <3>4. \A i \in k + 1 .. Len(cp') : cp'[i].frame >= f
      <4>1. CASE fr.kind = "try"
        <5>1. PICK rec \in CpRec : cp' = Append(cp, rec) /\ rec.frame = n + 1
          BY <1>2, <4>1 DEF Entered
        <5>2. cp \in Seq(CpRec)
          BY <1>1 DEF TypeOK
        <5>3. Len(cp') = k + 1 /\ cp'[k + 1] = rec
          BY <1>2, <5>1, <5>2, AppendProperties
        <5>4. QED
          BY <2>3, <5>1, <5>3
      <4>2. CASE fr.kind = "callcc"
        <5>1. cp' = cp
          BY <4>2 DEF Entered
        <5>2. QED
          BY <1>2, <5>1
      <4>3. QED
        BY <1>5, <2>1, <2>3, <4>1, <4>2
    <3>5. \A i \in 1 .. k : cp[i] = cp'[i] /\ cp'[i].frame < n + 1
      BY <3>2, <3>3
    <3>6. CutAt(cp, cp', f)
      BY <1>2, <2>3, <3>2, <3>4, <3>5 DEF CutAt
    <3>7. QED
      BY <3>1, <3>6 DEF CutAt
  <2>4. QED
    BY <1>4, <2>2, <2>3
<1>11. LoadInv'
  <2>1. SUFFICES ASSUME NEW g \in 1 .. Len(stack'), IsLoad(g)'
                 PROVE  LoadOk(g)'
    BY DEF LoadInv
  <2>2. CASE g \in 1 .. n
    <3>1. IsLoad(g) /\ stack'[g].calls = stack[g].calls
      BY <1>3, <2>1, <2>2 DEF IsLoad
    <3>2. QED
      BY <1>1, <1>3, <2>2, <3>1, LoadStays
  <2>3. CASE g = n + 1
    <3>1. fr.kind = "load"
      BY <1>3, <2>1, <2>3 DEF IsLoad
    <3>2. QED
      BY <1>1, <1>2, <2>3, <3>1, EnteredLoad
  <2>4. QED
    BY <1>4, <2>2, <2>3
<1>12. HandlerInv'
  <2>1. SUFFICES ASSUME ~ lost'
                 PROVE  AliveInv' /\ SettledInv'
    BY DEF HandlerInv
  <2>2. AliveInv /\ SettledInv
    BY <1>1, <2>1 DEF HandlerInv, Entered
  <2>3. AliveAt(n + 1)'
    <3>1. SUFFICES ASSUME IsPoint(n + 1)' PROVE TrysAmong(Saved(n + 1).exc, (n + 1) - 1)'
      BY DEF AliveAt
    <3>2. Saved(n + 1)'.exc = exc
      BY <1>3, <1>5, <1>6, <3>1 DEF Saved
    <3>3. PICK h : h = exc
      OBVIOUS
    <3>4. TrysAmong(h, n)
      BY <1>2, <2>2, <3>3 DEF AliveInv
    <3>5. TrysAmong(h, n)'
      BY <1>3, <3>4, TrysStay
    <3>6. (n + 1) - 1 = n
      OBVIOUS
    <3>7. QED
      BY <3>2, <3>3, <3>5, <3>6 DEF TrysAmong
  <2>4. SettledAt(n + 1)'
    <3>1. ASSUME IsPoint(n + 1)' PROVE Settled(n + 1, Saved(n + 1).exc)'
      <4>1. Saved(n + 1)'.exc = exc
        BY <1>3, <1>5, <1>6, <3>1 DEF Saved
      <4>2. \A i \in 1 .. k : cp'[i] = cp[i] /\ ~ (cp'[i].frame >= n + 1)
        <5>1. \A i \in 1 .. k : cp'[i] = cp[i] /\ cp[i].frame <= n
          BY <1>3 DEF Stays
        <5>2. \A i \in 1 .. k : cp[i].frame \in Nat
          BY <1>1, <1>2, CpFields
        <5>3. QED
          BY <5>1, <5>2
      <4>3. CASE fr.kind = "callcc"
        <5>1. cp' = cp /\ exc' = exc
          BY <4>3 DEF Entered
        <5>2. QED
          BY <1>2, <4>1, <4>2, <5>1 DEF Settled, FirstBinds
      <4>4. CASE fr.kind = "try"
        <5>1. PICK rec \in CpRec :
                cp' = Append(cp, rec) /\ rec.frame = n + 1 /\ rec.old = exc
          BY <1>2, <4>4 DEF Entered
        <5>2. cp \in Seq(CpRec) /\ exc \in Seq(Handler)
          BY <1>1 DEF TypeOK
        <5>3. Len(cp') = k + 1 /\ cp'[k + 1] = rec
          BY <1>2, <5>1, <5>2, AppendProperties
        <5>4. exc # Nil
          BY <5>2, NilNotSeq, Zenon
        <5>5. ~ NoBinds(n + 1)'
          <6>1. k + 1 \in 1 .. Len(cp') /\ Binds(k + 1)' /\ ~ (cp'[k + 1].frame < n + 1)
            BY <5>1, <5>3, <5>4 DEF Binds
          <6>2. QED
            BY <6>1 DEF NoBinds
        <5>6. \A i \in 1 .. Len(cp') : FirstBinds(n + 1, i)' => cp'[i].old = exc
          <6>1. \A i \in 1 .. Len(cp') : i \in 1 .. k \/ i = k + 1
            BY <5>3
          <6>2. QED
            BY <4>2, <5>1, <5>3, <6>1 DEF FirstBinds
        <5>7. QED
          BY <4>1, <5>5, <5>6 DEF Settled
      <4>5. QED
        BY <1>5, <3>1, <4>3, <4>4
    <3>2. ASSUME IsLoad(n + 1)', NEW i \in 1 .. Len(cp')
          PROVE  ~ PutBack(n + 1, i)'
      <4>1. fr.kind = "load"
        BY <1>3, <3>2 DEF IsLoad
      <4>2. Len(Goal(n + 1)'.cp) + Len(stack'[n + 1].calls) = Len(cp') /\ Len(cp') \in Nat
            /\ Len(Goal(n + 1)'.cp) \in Nat /\ Len(stack'[n + 1].calls) \in Nat
        BY <1>1, <1>2, <4>1, EnteredLoad, Lengths
      <4>3. PICK p \in Nat, c \in Nat :
              p = Len(Goal(n + 1)'.cp) /\ c = Len(stack'[n + 1].calls) /\ p + c = Len(cp')
        BY <4>2
      <4>4. i \in Nat /\ i <= p + c
        <5>1. i \in 1 .. Len(cp')
          OBVIOUS
        <5>2. i \in 1 .. (p + c)
          BY <4>3, <5>1
        <5>3. QED
          BY <5>2
      <4>5. QED
        <5>1. SUFFICES ASSUME PutBack(n + 1, i)' PROVE FALSE
          OBVIOUS
        <5>2. i > Len(Goal(n + 1)'.cp) + Len(stack'[n + 1].calls)
          BY <5>1 DEF PutBack
        <5>3. i > p + c
          BY <4>3, <5>2
        <5>4. QED
          BY <4>4, <5>3
    <3>3. QED
      BY <3>1, <3>2 DEF SettledAt
  <2>5. \A f \in n + 1 .. Len(stack') : AliveAt(f)' /\ SettledAt(f)'
    <3>1. \A f \in n + 1 .. Len(stack') : f = n + 1
      BY <1>3
    <3>2. QED
      BY <2>3, <2>4, <3>1
  <2>6. \A f \in 1 .. n : IsLoad(f) => stack'[f].calls = stack[f].calls
    BY <1>3
  <2>7. CASE fr.kind \in {"try", "bind"}
    <3>1. PICK rec \in CpRec :
            cp' = Append(cp, rec) /\ rec.frame = Len(stack) + 1 /\ rec.old = exc
      BY <2>7 DEF Entered
    <3>2. cp \in Seq(CpRec)
      BY <1>1 DEF TypeOK
    <3>3. Len(cp') = Len(cp) + 1 /\ cp'[Len(cp) + 1] = rec
      BY <3>1, <3>2, AppendProperties
    <3>4. Enters
      BY <1>2, <1>3, <3>1, <3>3 DEF Enters
    <3>5. TrysAmong(exc, Len(stack))'
      <4>1. CASE UNCHANGED exc
        <5>1. TrysAmong(exc, n)
          BY <1>2, <2>2 DEF AliveInv
        <5>2. PICK h : h = exc
          OBVIOUS
        <5>3. n + 1 \in Nat /\ n <= n + 1
          OBVIOUS
        <5>4. TrysAmong(h, n + 1)'
          BY <1>3, <5>1, <5>2, <5>3, TrysStay
        <5>5. QED
          BY <1>3, <4>1, <5>2, <5>4 DEF TrysAmong
      <4>2. QED
        BY <2>2, <4>1
    <3>6. QED
      BY <1>1, <1>2, <2>2, <2>5, <2>6, <3>4, <3>5, HandlersEnter
  <2>8. CASE fr.kind \notin {"try", "bind"}
    <3>1. cp' = cp /\ exc' = exc
      BY <2>8 DEF Entered
    <3>2. \A i \in k + 1 .. Len(cp') : FALSE
      BY <1>2, <3>1
    <3>3. \A i \in k + 1 .. Len(cp) : FALSE
      BY <1>2
    <3>4. \A g \in n + 1 .. Len(stack) : FALSE
      BY <1>2
    <3>5. Returns(n, k)
      BY <1>3, <3>1, <3>2, <3>3, <3>4 DEF Returns
    <3>6. QED
      BY <1>1, <2>2, <2>5, <2>6, <3>5, HandlersReturn
  <2>9. QED
    BY <2>7, <2>8
<1>13. QED
  BY <1>7, <1>8, <1>9, <1>10, <1>11, <1>12 DEF IInv

-----------------------------------------------------------------------------
(* A walk of the chain from pic->cc meets points on the stack only.        *)
LEMMA LinkSteps ==
  ASSUME TypeOK
  PROVE  /\ Link[0] = cc
         /\ \A k \in Nat : Link[k + 1] = IF Link[k] = Nil THEN Nil ELSE cont[Link[k]].prev
<1> DEFINE S == Addr \cup {Nil}
           g == [x \in S |-> IF x = Nil THEN Nil ELSE cont[x].prev]
           W == Walk(g, cc)
<1>1. cc \in S /\ g \in [S -> S]
  <2>1. \A a \in Addr : cont[a] \in Cont
    BY DEF TypeOK, Cont
  <2>2. \A a \in Addr : cont[a].prev \in S
    BY <2>1 DEF Cont
  <2>3. QED
    BY <2>2 DEF TypeOK
<1>2. /\ W \in [Nat -> S] /\ W[0] = cc
      /\ \A k \in Nat : W[k + 1] = g[W[k]]
  <2> HIDE DEF S, g
  <2>1. QED
    BY <1>1, WalkSteps
<1> DEFINE F(h) == [k \in Nat |-> IF k = 0 THEN cc
                                  ELSE IF h[k - 1] = Nil THEN Nil ELSE cont[h[k - 1]].prev]
<1>3. W = F(W)
  <2> HIDE DEF W
  <2>1. \A k \in Nat : W[k] = F(W)[k]
    <3>1. TAKE k \in Nat
    <3>2. CASE k = 0
      BY <1>2, <3>2
    <3>3. CASE k # 0
      <4>1. k - 1 \in Nat /\ (k - 1) + 1 = k
        BY <3>3
      <4>2. W[k] = g[W[k - 1]] /\ W[k - 1] \in S
        BY <1>2, <4>1
      <4>3. QED
        BY <3>3, <4>2
    <3>4. QED
      BY <3>2, <3>3
  <2>2. W = [k \in Nat |-> W[k]] /\ F(W) = [k \in Nat |-> F(W)[k]]
    BY <1>2
  <2> HIDE DEF F
  <2>3. QED
    BY <2>1, <2>2
<1> DEFINE c[k \in Nat] == IF k = 0 THEN cc
                           ELSE IF c[k - 1] = Nil THEN Nil ELSE cont[c[k - 1]].prev
<1>4. c = F(c)
  <2> HIDE DEF W
  <2>1. QED
    BY <1>3
<1>5. Link = c
  BY DEF Link, c
<1> HIDE DEF c
<1>6. c[0] = cc
  BY <1>4
<1>7. \A k \in Nat : c[k + 1] = IF c[k] = Nil THEN Nil ELSE cont[c[k]].prev
  <2>1. TAKE k \in Nat
  <2>2. k + 1 \in Nat /\ k + 1 # 0 /\ (k + 1) - 1 = k
    OBVIOUS
  <2>3. QED
    BY <1>4, <2>2
<1>8. QED
  BY <1>5, <1>6, <1>7

LEMMA AliveIsPoint ==
  ASSUME TypeOK, PointInv, NEW a \in Addr, Alive(a)
  PROVE  \E f \in 1 .. Len(stack) : IsPoint(f) /\ stack[f].addr = a
<1> DEFINE On(x) == x = Nil \/ \E f \in 1 .. Len(stack) : IsPoint(f) /\ stack[f].addr = x
           A == {k \in Nat : On(Link[k])}
<1>1. Len(stack) \in Nat
  BY DEF TypeOK
<1>2. \A n \in Nat : \A x : n <= Len(stack) /\ InnermostPoint(n, x) => On(x)
  <2>1. SUFFICES ASSUME NEW n \in Nat, NEW x, n <= Len(stack), InnermostPoint(n, x)
                 PROVE  On(x)
    OBVIOUS
  <2>2. \A f \in 1 .. n : f \in 1 .. Len(stack)
    BY <1>1, <2>1
  <2>3. QED
    BY <2>1, <2>2 DEF InnermostPoint
<1>3. 0 \in A
  <2>1. On(cc)
    BY <1>1, <1>2 DEF PointInv, ChainMatchesStack
  <2>2. QED
    BY <2>1, LinkSteps
<1>4. \A k \in A : k + 1 \in A
  <2>1. SUFFICES ASSUME NEW k \in A PROVE k + 1 \in A
    OBVIOUS
  <2>2. k \in Nat /\ On(Link[k]) /\ k + 1 \in Nat
    OBVIOUS
  <2>3. Link[k + 1] = IF Link[k] = Nil THEN Nil ELSE cont[Link[k]].prev
    BY <2>2, LinkSteps
  <2>4. CASE Link[k] = Nil
    BY <2>2, <2>3, <2>4
  <2>5. CASE Link[k] # Nil
    <3>1. PICK f \in 1 .. Len(stack) : IsPoint(f) /\ stack[f].addr = Link[k]
      BY <2>2, <2>5
    <3>2. InnermostPoint(f - 1, Link[k + 1])
      BY <2>3, <2>5, <3>1 DEF PointInv, ChainMatchesStack
    <3>3. f - 1 \in Nat /\ f - 1 <= Len(stack)
      BY <1>1
    <3>4. On(Link[k + 1])
      BY <1>2, <3>2, <3>3
    <3>5. QED
      BY <2>2, <3>4
  <2>6. QED
    BY <2>4, <2>5
<1>5. A = Nat
  <2>1. A \in SUBSET Nat
    OBVIOUS
  <2> HIDE DEF A
  <2>2. QED
    BY <1>3, <1>4, <2>1, NatInd
<1>6. PICK k \in 0 .. Cardinality(Addr) : Link[k] = a
  BY DEF Alive
<1>7. k \in Nat
  BY <1>6
<1>8. On(a)
  BY <1>5, <1>6, <1>7
<1>9. QED
  BY <1>8, NilNotSeq

(* pic_wind from here to what is left of it below frame f calls out only.  *)
LEMMA PrefixWind ==
  ASSUME NEW here \in Seq(CpRec), NEW there \in Seq(CpRec), NEW f, CutAt(there, here, f)
  PROVE  /\ pic_wind(here, there) \in Seq({"in", "out"} \X CpRec)
         /\ Len(there) + Len(pic_wind(here, there)) = Len(here)
         /\ \A i \in 1 .. Len(pic_wind(here, there)) :
              pic_wind(here, there)[i] = << "out", here[Len(here) + 1 - i] >>
<1> DEFINE P == CommonPrefixes({here, there})
           h == Len(here)
           t == Len(there)
<1>1. h \in Nat /\ t \in Nat /\ t <= h /\ \A i \in 1 .. t : there[i] = here[i]
  BY DEF CutAt
<1>2. there = SubSeq(there, 1, t) /\ there = SubSeq(here, 1, t)
  <2>1. there = SubSeq(there, 1, Len(there))
    BY SubSeqFull
  <2>2. /\ SubSeq(here, 1, t) \in Seq(CpRec) /\ Len(SubSeq(here, 1, t)) = t
        /\ \A i \in 1 .. t : SubSeq(here, 1, t)[i] = here[i]
    BY <1>1, SubSeqProperties
  <2>3. QED
    BY <1>1, <2>1, <2>2, SeqEqual
<1>3. there \in P
  <2>1. t \in 0 .. t
    BY <1>1
  <2>2. there \in Prefixes(there)
    BY <1>2, <2>1 DEF Prefixes
  <2>3. IsPrefix(there, here) /\ IsPrefix(there, there)
    BY <1>1, <1>2 DEF IsPrefix
  <2>4. QED
    BY <2>2, <2>3 DEF CommonPrefixes
<1>4. \A p \in P : Len(p) <= t
  BY DEF CommonPrefixes, IsPrefix
<1>5. \E p \in P : \A q \in P : Len(q) <= Len(p)
  BY <1>3, <1>4
<1> DEFINE l == LongestCommonPrefix({here, there})
<1>6. l \in P /\ \A q \in P : Len(q) <= Len(l)
  <2> HIDE DEF P
  <2>1. l = CHOOSE p \in P : \A q \in P : Len(q) <= Len(p)
    BY DEF LongestCommonPrefix, P
  <2> HIDE DEF l
  <2>2. QED
    BY <1>5, <2>1
<1>7. Len(l) = t
  <2>1. \A p \in P : Len(p) \in Nat
    <3>1. SUFFICES ASSUME NEW p \in P PROVE Len(p) \in Nat
      OBVIOUS
    <3>2. PICK s \in {here, there} : p \in Prefixes(s)
      BY DEF CommonPrefixes
    <3>3. PICK n \in 0 .. Len(s) : p = SubSeq(s, 1, n)
      BY <3>2 DEF Prefixes
    <3>4. s \in Seq(CpRec)
      BY <3>2
    <3>5. QED
      BY <3>3, <3>4, SubSeqProperties
  <2> HIDE DEF P, l, t
  <2>2. Len(l) <= t /\ t <= Len(l) /\ Len(l) \in Nat /\ t \in Nat
    BY <1>1, <1>3, <1>4, <1>6, <2>1 DEF t
  <2>3. QED
    BY <2>2
<1> DEFINE Outs == [i \in 1 .. h - t |-> << "out", here[h + 1 - i] >>]
<1>8. pic_wind(here, there) = Outs \o << >>
  <2>1. pic_wind(here, there)
          = [i \in 1 .. h - Len(l) |-> << "out", here[h + 1 - i] >>]
              \o [i \in 1 .. t - Len(l) |-> << "in", there[Len(l) + i] >>]
    BY DEF pic_wind
  <2> HIDE DEF l
  <2>2. pic_wind(here, there)
          = Outs \o [i \in 1 .. t - t |-> << "in", there[t + i] >>]
    BY <1>7, <2>1
  <2>3. [i \in 1 .. t - t |-> << "in", there[t + i] >>] = << >>
    BY <1>1
  <2>4. QED
    BY <2>2, <2>3
<1>9. Outs \in Seq({"in", "out"} \X CpRec) /\ Len(Outs) = h - t
  <2>1. h - t \in Nat /\ \A i \in 1 .. h - t : h + 1 - i \in 1 .. h
    BY <1>1
  <2>2. \A i \in 1 .. h : here[i] \in CpRec
    BY ElementOfSeq
  <2> HIDE DEF h, t
  <2>3. \A i \in 1 .. h - t : << "out", here[h + 1 - i] >> \in {"in", "out"} \X CpRec
    BY <2>1, <2>2
  <2>4. Outs \in [1 .. h - t -> {"in", "out"} \X CpRec]
    BY <2>3
  <2> HIDE DEF Outs
  <2>5. QED
    BY <2>1, <2>4, IsASeq, LenProperties
<1>10. Outs \o << >> = Outs
  <2> HIDE DEF Outs
  <2>1. QED
    BY <1>9, ConcatEmptySeq
<1>11. pic_wind(here, there) = Outs
  BY <1>8, <1>10
<1>12. QED
  BY <1>1, <1>9, <1>11

LEMMA EnterType ==
  ASSUME TypeOK, NEW fr \in Frame, Entered(fr), exc' \in Seq(Handler),
         held' \subseteq Token, err' \in Errors \cup {Nil}, panic' \in BOOLEAN
  PROVE  TypeOK'
<1>1. /\ stack \in Seq(Frame) /\ cp \in Seq(CpRec) /\ arena \in Seq(Addr)
      /\ cont \in [Addr -> Cont] /\ cc \in Addr \cup {Nil} /\ exc \in Seq(Handler)
  BY DEF TypeOK, Cont
<1>2. stack' \in Seq(Frame)
  BY <1>1, AppendProperties DEF Entered
<1>3. cp' \in Seq(CpRec)
  <2>1. CASE fr.kind \in {"try", "bind"}
    <3>1. PICK rec \in CpRec : cp' = Append(cp, rec)
      BY <2>1 DEF Entered
    <3>2. QED
      BY <1>1, <3>1, AppendProperties
  <2>2. CASE fr.kind \notin {"try", "bind"}
    BY <1>1, <2>2 DEF Entered
  <2>3. QED
    BY <2>1, <2>2
<1>4. arena' \in Seq(Addr) /\ cont' \in [Addr -> Cont] /\ cc' \in Addr \cup {Nil}
  <2>1. CASE fr.kind \in {"callcc", "try"}
    <3>1. SavePoint(fr.addr) /\ fr.addr \in Addr
      BY <2>1 DEF Entered, Frame, PointFrame, WindFrame, BindFrame, LoadFrame, ThunkFrame
    <3>2. arena' \in Seq(Addr)
      BY <1>1, <3>1, AppendProperties DEF SavePoint
    <3>3. Len(arena') \in Nat
      BY <3>2
    <3>4. [cp |-> cp, arena |-> Len(arena'), prev |-> cc, exc |-> exc] \in Cont
      BY <1>1, <3>3 DEF Cont
    <3>5. QED
      BY <1>1, <3>1, <3>2, <3>4 DEF SavePoint
  <2>2. CASE fr.kind \notin {"callcc", "try"}
    BY <1>1, <2>2 DEF Entered
  <2>3. QED
    BY <2>1, <2>2
<1>5. lost' \in BOOLEAN
  BY DEF TypeOK, Entered
<1>6. QED
  BY <1>2, <1>3, <1>4, <1>5 DEF TypeOK, Cont

LEMMA CallccKept ==
  ASSUME IInv, NEW a \in Addr, pic_callcc(a)
  PROVE  IInv'
<1> DEFINE fr == [kind |-> "callcc", addr |-> a, ai |-> Len(arena')]
<1>1. TypeOK /\ arena \in Seq(Addr)
  BY DEF IInv, TypeOK
<1>2. Len(arena') \in Nat
  <2>1. arena' \in Seq(Addr)
    BY <1>1, AppendProperties DEF pic_callcc, SavePoint
  <2>2. QED
    BY <2>1
<1>3. fr \in Frame
  BY <1>2 DEF Frame, PointFrame
<1>4. Entered(fr) /\ exc' = exc
  BY DEF Entered, pic_callcc, Push
<1>5. held' \subseteq Token
  <2>1. [addr |-> a, live |-> TRUE] \in Token
    BY DEF Token
  <2>2. QED
    BY <1>1, <2>1 DEF pic_callcc, TypeOK
<1> HIDE DEF fr
<1>6. TypeOK'
  BY <1>1, <1>3, <1>4, <1>5, EnterType DEF pic_callcc, TypeOK
<1>7. QED
  BY <1>3, <1>4, <1>6, EnterInv

LEMMA WindKept == IInv /\ pic_dynamic_wind => IInv'
<1> DEFINE fr == [kind |-> "wind", stage |-> "in", ai |-> Len(arena)]
<1>1. SUFFICES ASSUME IInv, pic_dynamic_wind PROVE IInv'
  OBVIOUS
<1>2. TypeOK /\ Len(arena) \in Nat
  BY <1>1 DEF IInv, TypeOK
<1>3. fr \in Frame
  BY <1>2 DEF Frame, WindFrame
<1>4. Entered(fr) /\ exc' = exc
  BY <1>1 DEF Entered, pic_dynamic_wind, Push
<1> HIDE DEF fr
<1>5. TypeOK'
  BY <1>1, <1>2, <1>3, <1>4, EnterType DEF pic_dynamic_wind, TypeOK
<1>6. QED
  BY <1>1, <1>3, <1>4, <1>5, EnterInv

(* New handlers that are handlers of the program, or were installed.       *)
LEMMA BindKept ==
  ASSUME IInv, NEW handlers \in Seq(Handler), NEW handler \in Handler,
         NEW e \in Errors \cup {Nil}, NEW then \in {"raise", "return"},
         Bind(handlers, handler, e, then),
         UNCHANGED << cc, cont, arena, held, panic, lost >>,
         err' \in Errors \cup {Nil},
         \A n \in Nat : TrysAmong(exc, n) => TrysAmong(handlers, n)
  PROVE  IInv'
<1> DEFINE fr == [kind |-> "bind", handler |-> handler,
                  error |-> IF handler = User THEN Nil ELSE e,
                  then |-> then, ai |-> Len(arena)]
<1>1. TypeOK /\ Len(arena) \in Nat /\ Len(stack) \in Nat /\ exc \in Seq(Handler)
  BY DEF IInv, TypeOK
<1>2. fr \in Frame
  BY <1>1 DEF Frame, BindFrame
<1>3. Entered(fr) /\ exc' = handlers
  <2>1. Checkpoint(handlers, exc) \in CpRec
    BY <1>1 DEF Checkpoint, CpRec
  <2>2. /\ cp' = Append(cp, Checkpoint(handlers, exc))
        /\ Checkpoint(handlers, exc).frame = Len(stack) + 1
        /\ Checkpoint(handlers, exc).old = exc
    BY DEF Bind, Checkpoint
  <2>3. QED
    BY <2>1, <2>2 DEF Entered, Bind, Push
<1>4. TypeOK'
  <2> HIDE DEF fr
  <2>1. QED
    BY <1>1, <1>2, <1>3, EnterType DEF TypeOK
<1>5. ASSUME AliveInv PROVE TrysAmong(exc, Len(stack))'
  <2>1. TrysAmong(handlers, Len(stack))
    BY <1>1, <1>5 DEF AliveInv
  <2>2. PICK n \in Nat, k \in Nat : n = Len(stack) /\ k = Len(cp) /\ Stays(n, k)
    <3> HIDE DEF fr
    <3>1. Len(cp) \in Nat /\ Stays(Len(stack), Len(cp))
      BY <1>1, <1>2, <1>3, <1>4, EnteredFrames DEF IInv
    <3>2. QED
      BY <1>1, <3>1
  <2>3. Len(stack') = n + 1
    <3> HIDE DEF fr
    <3>1. QED
      BY <1>2, <1>3, <1>4, <2>2, EnteredFrames DEF IInv
  <2>4. TrysAmong(handlers, n + 1)'
    <3>1. n + 1 \in Nat /\ n <= n + 1 /\ TrysAmong(handlers, n)
      BY <2>1, <2>2
    <3>2. QED
      BY <2>2, <3>1, TrysStay
  <2>5. QED
    BY <1>3, <2>3, <2>4 DEF TrysAmong
<1> HIDE DEF fr
<1>6. QED
  BY <1>2, <1>3, <1>4, <1>5, EnterInv

LEMMA PushedHandlers ==
  ASSUME NEW t \in Handler, exc \in Seq(Handler)
  PROVE  /\ << t >> \o exc \in Seq(Handler) /\ Len(<< t >> \o exc) = Len(exc) + 1
         /\ (<< t >> \o exc)[1] = t
         /\ \A i \in 2 .. Len(exc) + 1 : (<< t >> \o exc)[i] = exc[i - 1]
<1>1. << t >> \in Seq(Handler) /\ Len(<< t >>) = 1 /\ << t >>[1] = t
  OBVIOUS
<1>2. QED
  BY <1>1, ConcatProperties

LEMMA WithHandlerKept == IInv /\ with_exception_handler => IInv'
<1>1. SUFFICES ASSUME IInv, with_exception_handler PROVE IInv'
  OBVIOUS
<1>2. exc \in Seq(Handler) /\ User \in Handler /\ err \in Errors \cup {Nil}
  BY <1>1 DEF IInv, TypeOK, Handler
<1> DEFINE h == << User >> \o exc
<1>3. h \in Seq(Handler) /\ Len(h) = Len(exc) + 1 /\ h[1] = User
      /\ \A i \in 2 .. Len(exc) + 1 : h[i] = exc[i - 1]
  BY <1>2, PushedHandlers
<1> HIDE DEF h
<1>4. \A n \in Nat : TrysAmong(exc, n) => TrysAmong(h, n)
  <2>1. SUFFICES ASSUME NEW n \in Nat, TrysAmong(exc, n), NEW i \in 1 .. Len(h), h[i] # User
                 PROVE  \E f \in 1 .. n : stack[f].kind = "try" /\ stack[f].addr = h[i].addr
    BY DEF TrysAmong
  <2>2. Len(exc) \in Nat
    BY <1>2
  <2>3. i \in 2 .. Len(exc) + 1 /\ i - 1 \in 1 .. Len(exc)
    BY <1>3, <2>1, <2>2
  <2>4. QED
    BY <1>3, <2>1, <2>3 DEF TrysAmong
<1>5. Bind(h, User, Nil, "return") /\ UNCHANGED << cc, cont, arena, err, held, panic, lost >>
  BY <1>1 DEF with_exception_handler, h
<1>6. QED
  BY <1>1, <1>2, <1>3, <1>4, <1>5, BindKept

LEMMA RaiseKept ==
  ASSUME IInv, NEW e \in Errors, NEW then \in {"raise", "return"}, Raise(e, then),
         UNCHANGED << cc, cont, arena, held, lost >>, err' \in Errors \cup {Nil}
  PROVE  IInv'
<1>1. exc \in Seq(Handler) /\ TypeOK /\ Len(arena) \in Nat
  BY DEF IInv, TypeOK
<1>2. CASE exc = << >>
  <2>1. panic' = TRUE /\ UNCHANGED << stack, cp, exc >>
    BY <1>2 DEF Raise
  <2>2. TypeOK'
    BY <1>1, <2>1 DEF TypeOK
  <2>3. Len(arena) \in 0 .. Len(arena)
    BY <1>1
  <2>4. \A f \in 1 .. Len(stack) : stack[f].ai <= Len(arena)
    BY DEF IInv, ArenaInv
  <2>5. PICK m \in 0 .. Len(arena) : m = Len(arena)
    BY <2>3
  <2>6. QED
    BY <2>1, <2>2, <2>4, <2>5, NothingLeft
<1>3. CASE exc # << >>
  <2>1. Bind(Tail(exc), Head(exc), e, then) /\ UNCHANGED panic
    BY <1>3 DEF Raise
  <2>2. /\ Tail(exc) \in Seq(Handler) /\ Head(exc) \in Handler
        /\ Len(exc) \in Nat /\ Len(Tail(exc)) = Len(exc) - 1
        /\ \A i \in 1 .. Len(Tail(exc)) : Tail(exc)[i] = exc[i + 1]
    BY <1>1, <1>3, HeadTailProperties
  <2>3. \A n \in Nat : TrysAmong(exc, n) => TrysAmong(Tail(exc), n)
    <3>1. \A i \in 1 .. Len(Tail(exc)) : i + 1 \in 1 .. Len(exc)
      BY <2>2
    <3>2. QED
      BY <2>2, <3>1 DEF TrysAmong
  <2>4. QED
    BY <2>1, <2>2, <2>3, BindKept
<1>4. QED
  BY <1>2, <1>3

LEMMA StartTryKept ==
  ASSUME IInv, NEW a \in Addr, pic_start_try(a)
  PROVE  IInv'
<1> DEFINE fr == [kind |-> "try", addr |-> a, ai |-> Len(arena')]
           t == [addr |-> a, live |-> TRUE]
           h == << t >> \o exc
<1>1. TypeOK /\ arena \in Seq(Addr) /\ exc \in Seq(Handler) /\ Len(stack) \in Nat
  BY DEF IInv, TypeOK
<1>2. Len(arena') \in Nat
  <2>1. arena' \in Seq(Addr)
    BY <1>1, AppendProperties DEF pic_start_try, SavePoint
  <2>2. QED
    BY <2>1
<1>3. fr \in Frame
  BY <1>2 DEF Frame, PointFrame
<1>4. t \in Handler
  <2>1. t \in Token
    BY DEF Token
  <2>2. QED
    BY <2>1 DEF Handler
<1>5. /\ h \in Seq(Handler) /\ Len(h) = Len(exc) + 1 /\ h[1] = t
      /\ \A i \in 2 .. Len(exc) + 1 : h[i] = exc[i - 1]
  <2> HIDE DEF t
  <2>1. QED
    BY <1>1, <1>4, PushedHandlers
<1>6. exc' = h
  BY DEF pic_start_try
<1>7. Entered(fr)
  <2> DEFINE rec == Checkpoint(exc', exc)
  <2> HIDE DEF h
  <2>1. rec \in CpRec
    BY <1>1, <1>5, <1>6 DEF Checkpoint, CpRec
  <2>2. cp' = Append(cp, rec) /\ rec.frame = Len(stack) + 1 /\ rec.old = exc
    BY DEF pic_start_try, Checkpoint
  <2> HIDE DEF rec
  <2>3. SavePoint(a) /\ stack' = Append(stack, fr) /\ UNCHANGED lost
    BY DEF pic_start_try, Push
  <2>4. QED
    BY <2>1, <2>2, <2>3 DEF Entered
<1>8. TypeOK'
  <2> HIDE DEF fr, h
  <2>1. QED
    BY <1>1, <1>3, <1>5, <1>6, <1>7, EnterType DEF pic_start_try, TypeOK
<1>9. /\ Len(stack') = Len(stack) + 1 /\ stack'[Len(stack) + 1] = fr
      /\ Stays(Len(stack), Len(cp)) /\ Len(cp) \in Nat
  <2> HIDE DEF fr
  <2>1. QED
    BY <1>3, <1>7, <1>8, EnteredFrames DEF IInv
<1>10. ASSUME AliveInv PROVE TrysAmong(exc, Len(stack))'
  <2>1. PICK n \in Nat, k \in Nat : n = Len(stack) /\ k = Len(cp)
    BY <1>1, <1>9
  <2>2. TrysAmong(exc, n)
    BY <1>10, <2>1 DEF AliveInv
  <2>3. PICK e : e = exc
    OBVIOUS
  <2>4. TrysAmong(e, n + 1)'
    <3>1. n + 1 \in Nat /\ n <= n + 1 /\ Stays(n, k) /\ TrysAmong(e, n)
      BY <1>9, <2>1, <2>2, <2>3
    <3>2. QED
      BY <3>1, TrysStay
  <2>5. \A i \in 1 .. Len(h) : h[i] # User =>
          \E f \in 1 .. n + 1 : stack'[f].kind = "try" /\ stack'[f].addr = h[i].addr
    <3>1. SUFFICES ASSUME NEW i \in 1 .. Len(h), h[i] # User
                   PROVE  \E f \in 1 .. n + 1 : stack'[f].kind = "try" /\ stack'[f].addr = h[i].addr
      OBVIOUS
    <3>2. Len(exc) \in Nat
      BY <1>1
    <3>3. CASE i = 1
      <4>1. stack'[n + 1].kind = "try" /\ stack'[n + 1].addr = t.addr /\ n + 1 \in 1 .. n + 1
        BY <1>9, <2>1
      <4> HIDE DEF h, fr, t
      <4>2. h[i] = t
        BY <1>5, <3>3
      <4>3. QED
        BY <4>1, <4>2
    <3>4. CASE i # 1
      <4> HIDE DEF h, fr
      <4>1. i \in 2 .. Len(exc) + 1 /\ i - 1 \in 1 .. Len(e)
        BY <1>5, <2>3, <3>1, <3>2, <3>4
      <4>2. h[i] = e[i - 1]
        BY <1>5, <2>3, <4>1
      <4>3. QED
        BY <2>4, <3>1, <4>1, <4>2 DEF TrysAmong
    <3>5. QED
      BY <3>3, <3>4
  <2> HIDE DEF h, fr
  <2>6. QED
    BY <1>6, <1>9, <2>1, <2>5 DEF TrysAmong
<1> HIDE DEF fr
<1>11. QED
  BY <1>3, <1>7, <1>8, <1>10, EnterInv

-----------------------------------------------------------------------------
LEMMA ContCallKept ==
  ASSUME IInv, NEW t \in Token, NEW e \in Errors \cup {Nil}, cont_call(t, e),
         UNCHANGED << cc, cont, arena, held, lost >>, err' \in Errors \cup {Nil}
  PROVE  IInv'
<1>1. TypeOK /\ PointInv /\ SavedInv /\ Len(arena) \in Nat /\ cp \in Seq(CpRec)
      /\ t.addr \in Addr /\ exc \in Seq(Handler)
  BY DEF IInv, TypeOK, Token
<1>2. CASE ~ Alive(t.addr)
  <2>1. PICK dead \in Errors : Raise(dead, "raise")
    BY <1>2 DEF cont_call
  <2>2. QED
    BY <2>1, RaiseKept
<1>3. CASE Alive(t.addr)
  <2> DEFINE w == pic_wind(cp, cont[t.addr].cp)
             fr == [kind |-> "load", token |-> t, error |-> e, calls |-> w, ai |-> Len(arena)]
  <2>1. Push(fr) /\ UNCHANGED << cp, exc, panic >>
    BY <1>3 DEF cont_call
  <2>2. PICK f \in 1 .. Len(stack) : IsPoint(f) /\ stack[f].addr = t.addr
    BY <1>1, <1>3, AliveIsPoint
  <2>3. Saved(f) = cont[t.addr] /\ Saved(f) \in Cont
    BY <1>1, <2>2 DEF Saved, TypeOK, Cont
  <2>4. Saved(f).cp \in Seq(CpRec) /\ CutAt(Saved(f).cp, cp, f)
    BY <1>1, <2>2, <2>3 DEF SavedInv, Cont
  <2>5. /\ w \in Seq({"in", "out"} \X CpRec)
        /\ Len(Saved(f).cp) + Len(w) = Len(cp)
        /\ \A i \in 1 .. Len(w) : w[i] = << "out", cp[Len(cp) + 1 - i] >>
    BY <1>1, <2>3, <2>4, PrefixWind
  <2> HIDE DEF w
  <2>6. fr \in Frame
    BY <1>1, <2>5 DEF Frame, LoadFrame
  <2>7. Entered(fr)
    BY <2>1, <2>2, <2>5 DEF Entered, Push
  <2> HIDE DEF fr
  <2>8. TypeOK'
    BY <1>1, <2>1, <2>6, <2>7, EnterType DEF TypeOK
  <2>9. QED
    BY <2>1, <2>6, <2>7, <2>8, EnterInv
<1>4. QED
  BY <1>2, <1>3

LEMMA CallContinuationKept ==
  ASSUME IInv, NEW t \in held, CallContinuation(t)
  PROVE  IInv'
<1>1. t \in Token /\ err \in Errors \cup {Nil}
  BY DEF IInv, TypeOK
<1>2. QED
  BY <1>1, ContCallKept DEF CallContinuation

LEMMA NativeKept == IInv /\ native_exception_handler => IInv'
<1>1. SUFFICES ASSUME IInv, native_exception_handler PROVE IInv'
  OBVIOUS
<1>2. TypeOK /\ stack # << >> /\ Top.kind = "bind" /\ Top.handler # User
  BY <1>1 DEF IInv, native_exception_handler, CallsNative, TopIs
<1>3. Len(stack) \in 1 .. Len(stack)
  BY <1>2, EmptySeq DEF TypeOK
<1>4. Top \in BindFrame
  BY <1>2, <1>3, FrameFields DEF Top
<1>5. Top.handler \in Token /\ Top.error \in Errors \cup {Nil}
  BY <1>2, <1>4 DEF BindFrame, Handler
<1>6. QED
  BY <1>1, <1>5, ContCallKept DEF native_exception_handler

-----------------------------------------------------------------------------
(* pic_dynamic_wind goes on to its next stage.                             *)
LEMMA StageKept ==
  ASSUME IInv, stack # << >>, Top.kind = "wind", NEW s \in {"in", "thunk", "out"},
         stack' = [stack EXCEPT ![Len(stack)].stage = s],
         UNCHANGED << exc, cc, cont, arena, err, held, panic, lost >>,
         \/ s = "thunk" /\ ~ Inside(Len(stack)) /\ cp' = Append(cp, UserCp(Len(stack)))
         \/ s = "out" /\ Inside(Len(stack)) /\ cp' = Front(cp)
  PROVE  IInv'
<1>1. /\ TypeOK /\ CpInv /\ PointInv /\ ArenaInv /\ SavedInv /\ LoadInv /\ HandlerInv
      /\ stack \in Seq(Frame) /\ cp \in Seq(CpRec) /\ Len(cp) \in Nat
      /\ Len(arena) \in Nat
  BY DEF IInv, TypeOK
<1>2. PICK n \in Nat : Len(stack) = n + 1
  <2>1. Len(stack) \in Nat /\ Len(stack) # 0
    BY <1>1, EmptySeq
  <2>2. Len(stack) - 1 \in Nat /\ Len(stack) = (Len(stack) - 1) + 1
    BY <2>1
  <2>3. QED
    BY <2>2
<1>3. n + 1 \in 1 .. Len(stack) /\ stack[n + 1] \in WindFrame
  BY <1>1, <1>2, FrameFields DEF Top
<1>4. /\ Len(stack') = n + 1 /\ \A f \in 1 .. n : stack'[f] = stack[f]
      /\ stack'[n + 1] = [stack[n + 1] EXCEPT !.stage = s]
  BY <1>1, <1>2
<1>5. stack'[n + 1] \in WindFrame /\ stack'[n + 1].kind = "wind"
      /\ stack'[n + 1].ai = stack[n + 1].ai /\ stack'[n + 1].stage = s
  BY <1>3, <1>4 DEF WindFrame
<1>6. stack' \in Seq(Frame)
  <2>1. stack'[n + 1] \in Frame
    BY <1>5 DEF Frame
  <2>2. stack' = [stack EXCEPT ![n + 1] = stack'[n + 1]]
    BY <1>2, <1>3, <1>4
  <2>3. QED
    <3>1. PICK fr \in Frame : fr = stack'[n + 1]
      BY <2>1
    <3>2. [stack EXCEPT ![n + 1] = fr] \in Seq(Frame)
      BY <1>1, <1>3, ExceptSeq
    <3>3. QED
      BY <2>2, <3>1, <3>2
<1>7. PICK k \in Nat :
        /\ k <= Len(cp) /\ k <= Len(cp')
        /\ \A i \in 1 .. k : cp'[i] = cp[i] /\ cp[i].frame <= n
        /\ \A i \in k + 1 .. Len(cp) : cp[i].frame > n /\ ~ Binds(i)
        /\ \/ s = "out" /\ Len(cp') = k
           \/ s = "thunk" /\ Len(cp') = k + 1 /\ cp'[k + 1] = UserCp(Len(stack))
        /\ cp' \in Seq(CpRec)
  <2>1. CASE s = "thunk" /\ ~ Inside(Len(stack)) /\ cp' = Append(cp, UserCp(Len(stack)))
    <3>1. UserCp(Len(stack)) \in CpRec
      BY <1>2 DEF UserCp, CpRec
    <3>2. /\ Len(cp') = Len(cp) + 1 /\ cp'[Len(cp) + 1] = UserCp(Len(stack))
          /\ cp' \in Seq(CpRec) /\ \A i \in 1 .. Len(cp) : cp'[i] = cp[i]
      BY <1>1, <2>1, <3>1, AppendProperties
    <3>3. \A i \in 1 .. Len(cp) : cp[i].frame <= n
      BY <1>1, <1>2, <2>1, TopCp
    <3>4. \A i \in Len(cp) + 1 .. Len(cp) : FALSE
      BY <1>1
    <3>5. QED
      BY <1>1, <2>1, <3>2, <3>3, <3>4
  <2>2. CASE s = "out" /\ Inside(Len(stack)) /\ cp' = Front(cp)
    <3>1. /\ Len(cp) \in Nat \ {0} /\ Front(cp) = SubSeq(cp, 1, Len(cp) - 1)
          /\ cp[Len(cp)].frame = Len(stack) /\ ~ Binds(Len(cp))
          /\ \A i \in 1 .. Len(cp) - 1 : cp[i].frame <= Len(stack) - 1
      BY <1>1, <2>2, TopCp
    <3>2. PICK k \in Nat : Len(cp) = k + 1
      <4>1. Len(cp) - 1 \in Nat /\ Len(cp) = (Len(cp) - 1) + 1
        BY <3>1
      <4>2. QED
        BY <4>1
    <3>3. /\ cp' \in Seq(CpRec) /\ Len(cp') = k /\ \A i \in 1 .. k : cp'[i] = cp[i]
      BY <1>1, <2>2, <3>1, <3>2, SubSeqProperties
    <3>4. \A i \in k + 1 .. Len(cp) : i = Len(cp)
      BY <3>2
    <3>5. \A i \in 1 .. k : cp[i].frame <= n
      BY <1>2, <3>1, <3>2
    <3>6. \A i \in k + 1 .. Len(cp) : cp[i].frame > n /\ ~ Binds(i)
      BY <1>2, <3>1, <3>4
    <3>7. QED
      BY <2>2, <3>2, <3>3, <3>5, <3>6
  <2>3. QED
    BY <2>1, <2>2
<1>8. TypeOK'
  BY <1>1, <1>6, <1>7 DEF TypeOK
<1>9. \A f \in 1 .. n : Alike(f)
  BY <1>4 DEF Alike, Saved
<1>10. s = "thunk" => /\ cp'[k + 1].frame = n + 1 /\ cp'[k + 1].old = Nil
  BY <1>2, <1>7 DEF UserCp
<1>11. \A i \in k + 1 .. Len(cp') : /\ s = "thunk" /\ i = k + 1
                                    /\ cp'[i].frame = n + 1 /\ cp'[i].old = Nil
  <2>1. \A i \in k + 1 .. Len(cp') : s = "thunk" /\ i = k + 1
    BY <1>7
  <2>2. QED
    BY <1>10, <2>1
<1>12. Stays(n, k)
  <2>1. \A f \in 1 .. n, i \in k + 1 .. Len(cp) : cp[i].frame >= f
    <3>1. \A i \in k + 1 .. Len(cp) : i \in 1 .. Len(cp)
      BY <1>1
    <3>2. \A i \in k + 1 .. Len(cp) : cp[i].frame \in Nat /\ cp[i].frame > n
      BY <1>1, <1>7, <3>1, CpFields
    <3>3. QED
      BY <3>2
  <2>2. \A f \in 1 .. n, i \in k + 1 .. Len(cp') : cp'[i].frame >= f
    BY <1>11
  <2>3. /\ n \in 0 .. Len(stack) /\ n <= Len(stack') /\ k \in 0 .. Len(cp) /\ k <= Len(cp')
    BY <1>1, <1>2, <1>4, <1>7
  <2>4. QED
    BY <1>7, <1>9, <2>1, <2>2, <2>3 DEF Stays
<1>13. CpInv'
  <2>1. \A f \in 1 .. n : stack'[f].kind = stack[f].kind /\ (Inside(f)' <=> Inside(f))
    BY <1>4 DEF Inside
  <2>2. n <= Len(stack) /\ n <= Len(stack')
    BY <1>2, <1>4
  <2>3. Inside(n + 1)' <=> s = "thunk"
    BY <1>5 DEF Inside
  <2>4. \A f \in n + 1 .. Len(stack') : f = n + 1
    BY <1>4
  <2>5. \A i \in k + 1 .. Len(cp) : cp[i].frame > n
    BY <1>7
  <2>6. \A i \in 1 .. k : cp'[i] = cp[i] /\ cp[i].frame <= n
    BY <1>7
  <2>7. \/ Len(cp') = k /\ \A f \in n + 1 .. Len(stack') : ~ Inside(f)'
        \/ /\ Len(stack') = n + 1 /\ Inside(n + 1)'
           /\ Len(cp') = k + 1 /\ cp'[k + 1].frame = n + 1
           /\ cp'[k + 1].old # Nil <=> stack'[n + 1].kind # "wind"
    <3>1. CASE s = "out"
      <4>1. \A f \in n + 1 .. Len(stack') : ~ Inside(f)'
        <5>1. ~ Inside(n + 1)'
          BY <2>3, <3>1
        <5>2. QED
          BY <2>4, <5>1
      <4>2. QED
        BY <1>7, <3>1, <4>1
    <3>2. CASE s = "thunk"
      BY <1>4, <1>5, <1>7, <1>10, <2>3, <3>2
    <3>3. QED
      BY <1>7, <3>1, <3>2
  <2>8. QED
    BY <1>1, <1>7, <1>8, <2>1, <2>2, <2>5, <2>6, <2>7, CpKept
<1>14. \A f \in n + 1 .. Len(stack') : f = n + 1 /\ ~ IsPoint(f)' /\ ~ IsLoad(f)'
  <2>1. \A f \in n + 1 .. Len(stack') : f = n + 1
    BY <1>4
  <2>2. ~ IsPoint(n + 1)' /\ ~ IsLoad(n + 1)'
    BY <1>5 DEF IsPoint, IsLoad
  <2>3. QED
    BY <2>1, <2>2
<1>15. PointInv'
  <2>1. InnermostPoint(n + 1, cc) /\ ~ IsPoint(n + 1)
    BY <1>1, <1>2, <1>3 DEF PointInv, ChainMatchesStack, IsPoint, WindFrame
  <2>2. InnermostPoint(n, cc)
    <3>1. \A f \in 1 .. n + 1 : f = n + 1 \/ f \in 1 .. n
      OBVIOUS
    <3>2. \A f \in 1 .. n : \A g \in f + 1 .. n : f \in 1 .. n + 1 /\ g \in f + 1 .. n + 1
      OBVIOUS
    <3>3. QED
      BY <2>1, <3>1, <3>2 DEF InnermostPoint
  <2>3. QED
    BY <1>1, <1>8, <1>12, <1>14, <2>2, PointsStay
<1>16. ArenaInv'
  <2>1. \A f \in 1 .. n + 1 : stack[f].ai \in Nat /\ stack[f].ai <= Len(arena)
    BY <1>1, <1>2, FrameFields DEF ArenaInv
  <2>2. \A f \in 1 .. n : stack[f].ai <= stack[n + 1].ai
    BY <1>1, <1>2 DEF ArenaInv
  <2>3. ~ IsPoint(n + 1)'
    BY <1>4, <1>14
  <2>4. Len(arena) \in 0 .. Len(arena) /\ Len(stack') <= n + 1 /\ arena' = arena
    BY <1>1, <1>4
  <2>5. PICK m \in 0 .. Len(arena) : m = Len(arena)
    BY <2>4
  <2>6. /\ m <= Len(arena') /\ \A i \in 1 .. m : arena'[i] = arena[i]
        /\ \A f \in 1 .. n : stack[f].ai <= m
        /\ stack'[n + 1].ai <= Len(arena')
        /\ \A f \in 1 .. n : stack[f].ai <= stack'[n + 1].ai
    <3>1. n + 1 \in 1 .. n + 1 /\ \A f \in 1 .. n : f \in 1 .. n + 1
      OBVIOUS
    <3>2. QED
      BY <1>1, <1>5, <2>1, <2>2, <2>4, <2>5, <3>1
  <2>7. QED
    BY <1>1, <1>8, <1>12, <2>3, <2>4, <2>6, ArenaKept
<1>17. SavedInv'
  <2>1. SUFFICES ASSUME NEW f \in 1 .. Len(stack'), IsPoint(f)'
                 PROVE  CutAt(Saved(f).cp, cp, f)'
    BY DEF SavedInv
  <2>2. f \in 1 .. n
    BY <1>4, <1>14, <2>1
  <2>3. IsPoint(f)
    BY <1>4, <2>1, <2>2 DEF IsPoint
  <2>4. QED
    BY <1>1, <1>8, <1>12, <2>2, <2>3, SavedStays
<1>18. LoadInv'
  <2>1. SUFFICES ASSUME NEW g \in 1 .. Len(stack'), IsLoad(g)'
                 PROVE  LoadOk(g)'
    BY DEF LoadInv
  <2>2. g \in 1 .. n
    BY <1>4, <1>14, <2>1
  <2>3. IsLoad(g) /\ stack'[g].calls = stack[g].calls
    BY <1>4, <2>1, <2>2 DEF IsLoad
  <2>4. QED
    BY <1>1, <1>8, <1>12, <2>2, <2>3, LoadStays
<1>19. HandlerInv'
  <2>1. SUFFICES ASSUME ~ lost'
                 PROVE  AliveInv' /\ SettledInv'
    BY DEF HandlerInv
  <2>2. AliveInv /\ SettledInv
    BY <1>1, <2>1 DEF HandlerInv
  <2>3. \A g \in n + 1 .. Len(stack) : ~ IsLoad(g)
    <3>1. \A g \in n + 1 .. Len(stack) : g = n + 1
      BY <1>2
    <3>2. ~ IsLoad(n + 1)
      BY <1>2 DEF IsLoad, Top
    <3>3. QED
      BY <3>1, <3>2
  <2>4. Returns(n, k)
    <3>1. \A i \in k + 1 .. Len(cp') : ~ Binds(i)'
      BY <1>11 DEF Binds
    <3>2. \A i \in k + 1 .. Len(cp) : ~ Binds(i) /\ ~ Outermost(k, i)
      BY <1>7 DEF Outermost
    <3>3. QED
      BY <1>12, <2>3, <3>1, <3>2 DEF Returns
  <2>5. \A f \in n + 1 .. Len(stack') : AliveAt(f)' /\ SettledAt(f)'
    BY <1>14 DEF AliveAt, SettledAt
  <2>6. \A f \in 1 .. n : stack'[f].calls = stack[f].calls
    BY <1>4
  <2>7. QED
    BY <1>1, <1>8, <2>2, <2>4, <2>5, <2>6, HandlersReturn
<1>20. QED
  BY <1>8, <1>13, <1>15, <1>16, <1>17, <1>18, <1>19 DEF IInv

LEMMA WindStagesKept == IInv /\ (EnterThunk \/ LeaveThunk) => IInv'
<1>1. SUFFICES ASSUME IInv, EnterThunk \/ LeaveThunk PROVE IInv'
  OBVIOUS
<1>2. CASE EnterThunk
  <2>1. stack # << >> /\ Top.kind = "wind" /\ ~ Inside(Len(stack))
    BY <1>2 DEF EnterThunk, Winding, TopIs, Inside, Top
  <2>2. QED
    BY <1>1, <1>2, <2>1, StageKept DEF EnterThunk
<1>3. CASE LeaveThunk
  <2>1. stack # << >> /\ Top.kind = "wind" /\ Inside(Len(stack))
    BY <1>3 DEF LeaveThunk, Winding, TopIs, Inside, Top
  <2>2. QED
    BY <1>1, <1>3, <2>1, StageKept DEF LeaveThunk
<1>4. QED
  BY <1>1, <1>2, <1>3

-----------------------------------------------------------------------------
(* The next call of a load is the out of the innermost checkpoint that it  *)
(* has not left.                                                           *)
LEMMA NextOut ==
  ASSUME TypeOK, LoadInv, stack # << >>, IsLoad(Len(stack)), Top.calls # << >>
  PROVE  \E q \in 1 .. Len(cp), p \in Nat, c \in Nat :
           /\ Len(stack) \in Nat \ {0}
           /\ p = Len(Goal(Len(stack)).cp) /\ Len(Top.calls) = c + 1 /\ q = p + c + 1
           /\ NextCall = << "out", cp[q] >>
           /\ Tail(Top.calls) \in Seq({"in", "out"} \X CpRec) /\ Len(Tail(Top.calls)) = c
           /\ \A i \in 1 .. c : Tail(Top.calls)[i] = << "out", cp[p + c + 1 - i] >>
           /\ \A i \in 1 .. q : cp[i].frame < Len(stack)
<1>1. Len(stack) \in Nat \ {0} /\ Len(stack) \in 1 .. Len(stack) /\ Len(cp) \in Nat
  BY EmptySeq DEF TypeOK
<1>2. LoadOk(Len(stack)) /\ Top.calls \in Seq({"in", "out"} \X CpRec)
      /\ Top.token.addr \in Addr
  BY <1>1, FrameFields DEF LoadInv, Top
<1>3. Goal(Len(stack)) \in Cont
  BY <1>2 DEF Goal, Top, TypeOK, Cont
<1>4. Goal(Len(stack)).cp \in Seq(CpRec)
  BY <1>3 DEF Cont
<1>5. PICK p \in Nat : p = Len(Goal(Len(stack)).cp)
  BY <1>4
<1>6. PICK c \in Nat : Len(Top.calls) = c + 1
  <2>1. Len(Top.calls) \in Nat \ {0}
    BY <1>2, EmptySeq
  <2>2. Len(Top.calls) - 1 \in Nat /\ Len(Top.calls) = (Len(Top.calls) - 1) + 1
    BY <2>1
  <2>3. QED
    BY <2>2
<1>7. /\ p + (c + 1) <= Len(cp) /\ \A i \in 1 .. p + (c + 1) : cp[i].frame < Len(stack)
      /\ \A i \in 1 .. c + 1 : Top.calls[i] = << "out", cp[p + (c + 1) + 1 - i] >>
  BY <1>2, <1>5, <1>6 DEF LoadOk, Top
<1>8. /\ NextCall = Top.calls[1]
      /\ Tail(Top.calls) \in Seq({"in", "out"} \X CpRec) /\ Len(Tail(Top.calls)) = c
      /\ \A i \in 1 .. c : Tail(Top.calls)[i] = Top.calls[i + 1]
  <2>1. Head(Top.calls) = Top.calls[1]
    BY <1>2, HeadTailProperties
  <2>2. QED
    BY <1>2, <1>6, <2>1, HeadTailProperties DEF NextCall
<1>9. PICK q \in 1 .. Len(cp) : q = p + c + 1
  BY <1>1, <1>7
<1>10. NextCall = << "out", cp[q] >>
  <2>1. 1 \in 1 .. c + 1 /\ p + (c + 1) + 1 - 1 = q
    BY <1>9
  <2>2. Top.calls[1] = << "out", cp[q] >>
    BY <1>7, <2>1
  <2>3. QED
    BY <1>8, <2>2
<1>11. \A i \in 1 .. c : Tail(Top.calls)[i] = << "out", cp[p + c + 1 - i] >>
  <2>1. TAKE i \in 1 .. c
  <2>2. i + 1 \in 1 .. c + 1 /\ p + (c + 1) + 1 - (i + 1) = p + c + 1 - i
    OBVIOUS
  <2>3. QED
    BY <1>7, <1>8, <2>2
<1>12. \A i \in 1 .. q : cp[i].frame < Len(stack)
  <2>1. q = p + (c + 1)
    BY <1>9
  <2>2. QED
    BY <1>7, <2>1
<1>13. WITNESS q \in 1 .. Len(cp), p \in Nat, c \in Nat
<1>14. Len(stack) \in Nat \ {0} /\ p = Len(Goal(Len(stack)).cp) /\ q = p + c + 1
  BY <1>1, <1>5, <1>9
<1>15. QED
  BY <1>6, <1>8, <1>10, <1>11, <1>12, <1>14

(* A load makes its next call, in which a thunk may be entered.            *)
Called ==
  /\ stack # << >> /\ IsLoad(Len(stack)) /\ Top.calls # << >>
  /\ \/ stack' = Rest
     \/ \E fr \in ThunkFrame : stack' = Append(Rest, fr) /\ fr.ai = Len(arena)
  /\ UNCHANGED << cp, cc, cont, arena, err, held, panic, lost >>

LEMMA CalledFrames ==
  ASSUME TypeOK, LoadInv, Called
  PROVE  /\ stack' \in Seq(Frame)
         /\ Len(stack) \in Nat \ {0} /\ Len(stack') \in Len(stack) .. Len(stack) + 1
         /\ \A f \in 1 .. Len(stack) :
              /\ stack'[f].kind = stack[f].kind /\ stack'[f].ai = stack[f].ai
              /\ IsPoint(f) => stack'[f].addr = stack[f].addr
              /\ IsLoad(f) => stack'[f].token = stack[f].token
              /\ stack[f].kind = "wind" => stack'[f].stage = stack[f].stage
              /\ f # Len(stack) => stack'[f] = stack[f]
         /\ stack'[Len(stack)].calls = Tail(Top.calls)
         /\ Len(stack') = Len(stack) + 1 =>
              stack'[Len(stack) + 1].kind = "thunk" /\ stack'[Len(stack) + 1].ai = Len(arena)
<1>1. stack \in Seq(Frame) /\ Len(stack) \in Nat \ {0} /\ Len(stack) \in 1 .. Len(stack)
  BY EmptySeq DEF TypeOK, Called
<1>2. Tail(Top.calls) \in Seq({"in", "out"} \X CpRec)
  BY NextOut DEF Called
<1> DEFINE top == [stack[Len(stack)] EXCEPT !.calls = Tail(Top.calls)]
<1>3. stack[Len(stack)] \in LoadFrame
  BY <1>1, FrameFields DEF Called
<1>4. /\ top \in LoadFrame /\ top.kind = stack[Len(stack)].kind
      /\ top.ai = stack[Len(stack)].ai /\ top.token = stack[Len(stack)].token
      /\ top.calls = Tail(Top.calls) /\ top.kind = "load"
  BY <1>2, <1>3 DEF LoadFrame
<1>5. Rest = [stack EXCEPT ![Len(stack)] = top]
  BY DEF Rest, Top
<1> HIDE DEF top
<1>6. /\ Rest \in Seq(Frame) /\ Len(Rest) = Len(stack)
      /\ \A f \in 1 .. Len(stack) : Rest[f] = IF f = Len(stack) THEN top ELSE stack[f]
  <2>1. top \in Frame
    BY <1>4 DEF Frame
  <2>2. QED
    BY <1>1, <1>5, <2>1, ExceptSeq
<1>7. /\ stack' \in Seq(Frame) /\ Len(stack') \in Len(stack) .. Len(stack) + 1
      /\ \A f \in 1 .. Len(stack) : stack'[f] = Rest[f]
      /\ Len(stack') = Len(stack) + 1 =>
           stack'[Len(stack) + 1].kind = "thunk" /\ stack'[Len(stack) + 1].ai = Len(arena)
  <2>1. CASE stack' = Rest
    BY <1>1, <1>6, <2>1
  <2>2. CASE \E fr \in ThunkFrame : stack' = Append(Rest, fr) /\ fr.ai = Len(arena)
    <3>1. PICK fr \in ThunkFrame : stack' = Append(Rest, fr) /\ fr.ai = Len(arena)
      BY <2>2
    <3>2. fr \in Frame /\ fr.kind = "thunk"
      BY DEF Frame, ThunkFrame
    <3>3. /\ stack' \in Seq(Frame) /\ Len(stack') = Len(stack) + 1
          /\ stack'[Len(stack) + 1] = fr
          /\ \A f \in 1 .. Len(stack) : stack'[f] = Rest[f]
      BY <1>6, <3>1, <3>2, AppendProperties
    <3>4. QED
      BY <1>1, <3>1, <3>2, <3>3
  <2>3. QED
    BY <2>1, <2>2 DEF Called
<1>8. ASSUME NEW f \in 1 .. Len(stack)
      PROVE  /\ stack'[f].kind = stack[f].kind /\ stack'[f].ai = stack[f].ai
             /\ IsPoint(f) => stack'[f].addr = stack[f].addr
             /\ IsLoad(f) => stack'[f].token = stack[f].token
             /\ stack[f].kind = "wind" => stack'[f].stage = stack[f].stage
             /\ f # Len(stack) => stack'[f] = stack[f]
  <2>1. CASE f = Len(stack)
    <3>1. stack'[f] = top
      BY <1>1, <1>6, <1>7, <2>1
    <3>2. stack[f].kind = "load"
      BY <2>1 DEF Called, IsLoad
    <3>3. QED
      BY <1>4, <2>1, <3>1, <3>2 DEF IsPoint
  <2>2. CASE f # Len(stack)
    BY <1>6, <1>7, <2>2
  <2>3. QED
    BY <2>1, <2>2
<1>9. stack'[Len(stack)].calls = Tail(Top.calls)
  BY <1>1, <1>4, <1>6, <1>7
<1>10. QED
  BY <1>1, <1>7, <1>8, <1>9

LEMMA CalledParts ==
  ASSUME IInv, TypeOK', Called
  PROVE  /\ Stays(Len(stack), Len(cp))
         /\ CpInv' /\ PointInv' /\ ArenaInv' /\ SavedInv' /\ LoadInv'
<1>1. /\ TypeOK /\ CpInv /\ PointInv /\ ArenaInv /\ SavedInv /\ LoadInv
      /\ Len(cp) \in Nat /\ Len(arena) \in Nat
  BY DEF IInv, TypeOK
<1>2. PICK n \in Nat : n = Len(stack) /\ n # 0
  BY <1>1, CalledFrames
<1>3. PICK k \in Nat : k = Len(cp)
  BY <1>1
<1>4. /\ cp' = cp /\ cc' = cc /\ cont' = cont /\ arena' = arena
      /\ IsLoad(n) /\ Len(stack') \in n .. n + 1 /\ n \in 1 .. n
      /\ stack'[n].calls = Tail(Top.calls)
      /\ \A f \in 1 .. n :
           /\ stack'[f].kind = stack[f].kind /\ stack'[f].ai = stack[f].ai
           /\ IsPoint(f) => stack'[f].addr = stack[f].addr
           /\ IsLoad(f) => stack'[f].token = stack[f].token
           /\ stack[f].kind = "wind" => stack'[f].stage = stack[f].stage
           /\ f # n => stack'[f] = stack[f]
      /\ Len(stack') = n + 1 => stack'[n + 1].kind = "thunk" /\ stack'[n + 1].ai = Len(arena)
  BY <1>1, <1>2, CalledFrames DEF Called
<1>5. \A f \in 1 .. n : Alike(f)
  BY <1>4 DEF Alike, Saved
<1>6. \A i \in 1 .. k : cp[i].frame <= n
  BY <1>1, <1>2, <1>3, CpOrder
<1>7. Stays(n, k)
  <2>1. (\A i \in k + 1 .. Len(cp) : FALSE) /\ (\A i \in k + 1 .. Len(cp') : FALSE)
    BY <1>3, <1>4
  <2>2. /\ n \in 0 .. Len(stack) /\ n <= Len(stack')
        /\ k \in 0 .. Len(cp) /\ k <= Len(cp')
    BY <1>2, <1>3, <1>4
  <2>3. QED
    BY <1>4, <1>5, <1>6, <2>1, <2>2 DEF Stays
<1>8. \A f \in n + 1 .. Len(stack') : /\ f = n + 1 /\ Len(stack') = n + 1
                                      /\ ~ IsPoint(f)' /\ ~ IsLoad(f)' /\ ~ Inside(f)'
  <2>1. \A f \in n + 1 .. Len(stack') : f = n + 1 /\ Len(stack') = n + 1
    BY <1>4
  <2>2. QED
    BY <1>4, <2>1 DEF IsPoint, IsLoad, Inside
<1>9. \A f \in 1 .. Len(stack') : f \in 1 .. n \/ f \in n + 1 .. Len(stack')
  BY <1>4
<1>10. CpInv'
  <2>1. \A f \in 1 .. n : stack'[f].kind = stack[f].kind /\ (Inside(f)' <=> Inside(f))
    BY <1>4 DEF Inside
  <2>2. /\ n <= Len(stack) /\ n <= Len(stack') /\ k <= Len(cp) /\ k <= Len(cp')
        /\ Len(cp') = k /\ \A i \in k + 1 .. Len(cp) : cp[i].frame > n
    BY <1>2, <1>3, <1>4
  <2>3. \A f \in n + 1 .. Len(stack') : ~ Inside(f)'
    BY <1>8
  <2>4. QED
    BY <1>1, <1>4, <1>6, <2>1, <2>2, <2>3, CpKept
<1>11. PointInv'
  <2>1. InnermostPoint(n, cc')
    BY <1>1, <1>2, <1>4 DEF PointInv, ChainMatchesStack
  <2>2. QED
    BY <1>1, <1>7, <1>8, <2>1, PointsStay
<1>12. ArenaInv'
  <2>1. PICK m \in 0 .. Len(arena) : m = Len(arena)
    BY <1>1
  <2>2. /\ m <= Len(arena') /\ \A i \in 1 .. m : arena'[i] = arena[i]
        /\ \A f \in 1 .. n : stack[f].ai <= m
        /\ Len(stack') <= n + 1
    BY <1>1, <1>2, <1>4, <2>1 DEF ArenaInv
  <2>3. Len(stack') = n + 1 =>
          /\ stack'[n + 1].ai <= Len(arena')
          /\ \A f \in 1 .. n : stack[f].ai <= stack'[n + 1].ai
          /\ ~ IsPoint(n + 1)'
    <3>1. SUFFICES ASSUME Len(stack') = n + 1
                   PROVE  /\ stack'[n + 1].ai <= Len(arena')
                          /\ \A f \in 1 .. n : stack[f].ai <= stack'[n + 1].ai
                          /\ ~ IsPoint(n + 1)'
      OBVIOUS
    <3>2. n + 1 \in n + 1 .. Len(stack')
      BY <3>1
    <3>3. ~ IsPoint(n + 1)'
      BY <1>8, <3>2
    <3>4. QED
      BY <1>1, <1>4, <2>1, <2>2, <3>1, <3>3
  <2>4. QED
    BY <1>1, <1>7, <2>2, <2>3, ArenaKept
<1>13. SavedInv'
  <2>1. SUFFICES ASSUME NEW f \in 1 .. Len(stack'), IsPoint(f)'
                 PROVE  CutAt(Saved(f).cp, cp, f)'
    BY DEF SavedInv
  <2>2. f \in 1 .. n
    BY <1>8, <1>9, <2>1
  <2>3. IsPoint(f)
    BY <1>4, <2>1, <2>2 DEF IsPoint
  <2>4. QED
    BY <1>1, <1>7, <2>2, <2>3, SavedStays
<1>14. LoadInv'
  <2>1. SUFFICES ASSUME NEW g \in 1 .. Len(stack'), IsLoad(g)'
                 PROVE  LoadOk(g)'
    BY DEF LoadInv
  <2>2. g \in 1 .. n
    BY <1>8, <1>9, <2>1
  <2>3. IsLoad(g)
    BY <1>4, <2>1, <2>2 DEF IsLoad
  <2>4. CASE g # n
    BY <1>1, <1>4, <1>7, <2>2, <2>3, <2>4, LoadStays
  <2>5. CASE g = n
    <3>1. PICK q \in 1 .. Len(cp), p \in Nat, c \in Nat :
             /\ p = Len(Goal(n).cp) /\ q = p + c + 1
             /\ Len(Tail(Top.calls)) = c
             /\ \A i \in 1 .. c : Tail(Top.calls)[i] = << "out", cp[p + c + 1 - i] >>
             /\ \A i \in 1 .. q : cp[i].frame < n
      BY <1>1, <1>2, NextOut DEF Called
    <3>2. PICK f \in 1 .. n - 1 : IsPoint(f) /\ stack[f].addr = stack[n].token.addr
      BY <1>1, <1>2, <1>4 DEF LoadInv, LoadOk
    <3>3. f \in 1 .. n
      BY <1>2, <3>2
    <3>4. Goal(n)' = Goal(n) /\ stack'[n].token = stack[n].token
      BY <1>4 DEF Goal
    <3>5. IsPoint(f)' /\ stack'[f].addr = stack'[n].token.addr
      BY <1>4, <3>2, <3>3, <3>4 DEF IsPoint
    <3>6. p + c <= Len(cp) /\ \A i \in 1 .. p + c : cp[i].frame < n
      <4>1. Len(cp) \in Nat /\ p + c <= q /\ q <= Len(cp)
        BY <1>1, <3>1, Lengths
      <4>2. \A i \in 1 .. p + c : i \in 1 .. q
        BY <3>1
      <4>3. QED
        BY <3>1, <4>1, <4>2
    <3>7. p = Len(Goal(n)'.cp) /\ c = Len(stack'[n].calls) /\ stack'[n].calls = Tail(Top.calls)
      BY <1>4, <3>1, <3>4
    <3>8. \E h \in 1 .. n - 1 : IsPoint(h)' /\ stack'[h].addr = stack'[n].token.addr
      BY <3>2, <3>5
    <3>9. /\ \A i \in 1 .. p + c : cp'[i].frame < n
          /\ \A i \in 1 .. c : stack'[n].calls[i] = << "out", cp'[p + c + 1 - i] >>
          /\ p + c <= Len(cp')
      BY <1>4, <3>1, <3>6, <3>7
    <3>10. QED
      BY <2>5, <3>7, <3>8, <3>9 DEF LoadOk
  <2>6. QED
    BY <2>4, <2>5
<1>15. QED
  BY <1>2, <1>3, <1>7, <1>10, <1>11, <1>12, <1>13, <1>14

LEMMA CallThunkKept == IInv /\ CallThunk => IInv'
<1>1. SUFFICES ASSUME IInv, CallThunk PROVE IInv'
  OBVIOUS
<1>2. /\ TypeOK /\ CpInv /\ LoadInv /\ HandlerInv /\ Len(cp) \in Nat /\ Len(arena) \in Nat
  BY <1>1 DEF IInv, TypeOK
<1>3. Called
  <2>1. [kind |-> "thunk", ai |-> Len(arena)] \in ThunkFrame
    BY <1>2 DEF ThunkFrame
  <2>2. stack # << >> /\ IsLoad(Len(stack)) /\ Top.calls # << >>
    BY <1>1 DEF CallThunk, Loading, TopIs, Top, IsLoad
  <2>3. /\ stack' = Append(Rest, [kind |-> "thunk", ai |-> Len(arena)])
        /\ UNCHANGED << cp, cc, cont, arena, err, held, panic, lost >>
    BY <1>1 DEF CallThunk
  <2>4. QED
    BY <2>1, <2>2, <2>3 DEF Called
<1>4. TypeOK'
  BY <1>1, <1>2, <1>3, CalledFrames DEF CallThunk, TypeOK
<1>5. Stays(Len(stack), Len(cp)) /\ CpInv' /\ PointInv' /\ ArenaInv' /\ SavedInv' /\ LoadInv'
  BY <1>1, <1>3, <1>4, CalledParts
<1>6. HandlerInv'
  <2>1. SUFFICES ASSUME ~ lost'
                 PROVE  AliveInv' /\ SettledInv'
    BY DEF HandlerInv
  <2>2. AliveInv /\ SettledInv
    BY <1>2, <1>3, <2>1 DEF HandlerInv, Called
  <2>3. PICK n \in Nat, k \in Nat : n = Len(stack) /\ k = Len(cp) /\ n # 0
    BY <1>2, <1>3, CalledFrames
  <2>4. Stays(n, k) /\ cp' = cp /\ exc' = exc /\ cont' = cont
    BY <1>1, <1>5, <2>3 DEF CallThunk
  <2>5. /\ IsLoad(n) /\ n \in 1 .. n /\ Len(stack') \in n .. n + 1
        /\ stack'[n].calls = Tail(Top.calls) /\ stack'[n].token = stack[n].token
        /\ stack'[n].kind = "load"
        /\ \A f \in 1 .. n : f # n => stack'[f] = stack[f]
        /\ Len(stack') = n + 1 => stack'[n + 1].kind = "thunk"
    <3>1. IsLoad(n) /\ n \in 1 .. n
      BY <1>3, <2>3 DEF Called
    <3>2. QED
      BY <1>2, <1>3, <2>3, <3>1, CalledFrames DEF IsLoad
  <2>6. Returns(n, k)
    <3>1. /\ \A i \in k + 1 .. Len(cp') : FALSE
          /\ \A i \in k + 1 .. Len(cp) : FALSE
          /\ \A g \in n + 1 .. Len(stack) : FALSE
      BY <2>3, <2>4
    <3>2. QED
      BY <2>4, <3>1 DEF Returns
  <2>7. SettledAt(n)'
    <3>1. PICK q \in 1 .. Len(cp), p \in Nat, c \in Nat :
             /\ p = Len(Goal(n).cp) /\ Len(Top.calls) = c + 1 /\ q = p + c + 1
             /\ NextCall = << "out", cp[q] >>
             /\ Len(Tail(Top.calls)) = c
      BY <1>2, <1>3, <2>3, NextOut DEF Called
    <3>2. ~ Binds(q)
      BY <1>1, <3>1 DEF CallThunk, Binds
    <3>3. SUFFICES ASSUME NEW i \in 1 .. Len(cp'), PutBack(n, i)'
                   PROVE  Settled(n, cp[i].old)'
      BY <2>5 DEF SettledAt, IsPoint, IsLoad
    <3>4. Goal(n)' = Goal(n) /\ Len(stack'[n].calls) = c /\ i \in Nat
      BY <2>4, <2>5, <3>1 DEF Goal
    <3>5. /\ Binds(i) /\ cp[i].frame < n /\ i > p + c
          /\ \A j \in p + 1 .. i - 1 : ~ Binds(j)
      <4>1. i > Len(Goal(n)'.cp) + Len(stack'[n].calls)
        BY <3>3 DEF PutBack
      <4>2. i > p + c
        BY <3>1, <3>4, <4>1
      <4>3. Binds(i) /\ cp[i].frame < n
        BY <2>4, <3>3 DEF PutBack, Binds
      <4>4. \A j \in Len(Goal(n)'.cp) + 1 .. i - 1 : ~ Binds(j)
        BY <2>4, <3>3 DEF PutBack, Binds
      <4>5. \A j \in p + 1 .. i - 1 : ~ Binds(j)
        BY <3>1, <3>4, <4>4
      <4>6. QED
        BY <4>2, <4>3, <4>5
    <3>6. PutBack(n, i)
      <4>1. i # q
        BY <3>2, <3>5
      <4>2. i > p + (c + 1)
        <5>1. i \in Nat /\ i > p + c /\ q = p + c + 1
          BY <3>1, <3>4, <3>5
        <5>2. QED
          BY <4>1, <5>1
      <4>3. p = Len(Goal(n).cp) /\ c + 1 = Len(stack[n].calls)
        BY <2>3, <3>1 DEF Top
      <4>4. QED
        BY <3>5, <4>2, <4>3 DEF PutBack
    <3>7. PICK e : e = cp[i].old
      OBVIOUS
    <3>8. Settled(n, e)
      BY <2>2, <2>3, <2>4, <2>5, <3>6, <3>7 DEF SettledInv, SettledAt
    <3>9. Settled(n, e)'
      BY <1>2, <1>4, <2>5, <2>6, <3>8, SettledReturns
    <3>10. cp'[i].old = e
      BY <2>4, <3>7
    <3>11. QED
      BY <3>9, <3>10 DEF Settled
  <2>8. \A f \in n + 1 .. Len(stack') : AliveAt(f)' /\ SettledAt(f)'
    <3>1. \A f \in n + 1 .. Len(stack') : f = n + 1 /\ stack'[n + 1].kind = "thunk"
      BY <2>5
    <3>2. \A f \in n + 1 .. Len(stack') : ~ IsPoint(f)' /\ ~ IsLoad(f)'
      BY <3>1 DEF IsPoint, IsLoad
    <3>3. QED
      BY <3>2 DEF AliveAt, SettledAt
  <2>9. \A f \in 1 .. n : IsLoad(f) => stack'[f].calls = stack[f].calls \/ SettledAt(f)'
    BY <2>5, <2>7
  <2>10. QED
    BY <1>2, <1>4, <2>2, <2>6, <2>8, <2>9, HandlersReturn
<1>7. QED
  BY <1>4, <1>5, <1>6 DEF IInv

LEMMA CallDynamicSetKept == IInv /\ CallDynamicSet => IInv'
<1>1. SUFFICES ASSUME IInv, CallDynamicSet PROVE IInv'
  OBVIOUS
<1>2. /\ TypeOK /\ CpInv /\ PointInv /\ SavedInv /\ LoadInv /\ HandlerInv /\ Len(cp) \in Nat
  BY <1>1 DEF IInv, TypeOK
<1>3. Called
  <2>1. stack # << >> /\ IsLoad(Len(stack)) /\ Top.calls # << >>
    BY <1>1 DEF CallDynamicSet, Loading, TopIs, Top, IsLoad
  <2>2. QED
    BY <1>1, <2>1 DEF Called, CallDynamicSet
<1>4. PICK n \in Nat, k \in Nat : n = Len(stack) /\ k = Len(cp) /\ n # 0
  BY <1>2, <1>3, CalledFrames
<1>5. PICK q \in 1 .. k, p \in Nat, c \in Nat :
         /\ p = Len(Goal(n).cp) /\ Len(Top.calls) = c + 1 /\ q = p + c + 1
         /\ NextCall = << "out", cp[q] >>
         /\ Len(Tail(Top.calls)) = c
         /\ \A i \in 1 .. q : cp[i].frame < n
  BY <1>2, <1>3, <1>4, NextOut DEF Called
<1>6. Binds(q) /\ exc' = cp[q].old /\ cp[q].old \in Seq(Handler) /\ q \in 1 .. Len(cp)
  <2>1. Binds(q) /\ exc' = cp[q].old
    BY <1>1, <1>5 DEF CallDynamicSet, Binds
  <2>2. QED
    BY <1>2, <1>4, <2>1, CpFields
<1>7. /\ stack' \in Seq(Frame) /\ Len(stack') = n /\ IsLoad(n) /\ n \in 1 .. n
      /\ stack'[n].calls = Tail(Top.calls) /\ stack'[n].token = stack[n].token
      /\ stack'[n].kind = "load"
      /\ \A f \in 1 .. n : f # n => stack'[f] = stack[f]
      /\ cp' = cp /\ cont' = cont
  <2>1. IsLoad(n) /\ n \in 1 .. n /\ cp' = cp /\ cont' = cont
    BY <1>3, <1>4 DEF Called
  <2>2. Len(stack') = n
    BY <1>1, <1>2, <1>4 DEF CallDynamicSet, Rest, TypeOK
  <2>3. QED
    BY <1>2, <1>3, <1>4, <2>1, <2>2, CalledFrames DEF IsLoad
<1>8. TypeOK'
  BY <1>1, <1>2, <1>6, <1>7 DEF CallDynamicSet, TypeOK
<1>9. Stays(n, k) /\ CpInv' /\ PointInv' /\ ArenaInv' /\ SavedInv' /\ LoadInv'
  BY <1>1, <1>3, <1>4, <1>8, CalledParts
<1>10. PICK h \in 1 .. n - 1 : IsPoint(h) /\ stack[h].addr = stack[n].token.addr
  BY <1>2, <1>4, <1>7 DEF LoadInv, LoadOk
<1>11. h \in 1 .. n /\ Goal(n) = Saved(h)
  BY <1>10 DEF Goal, Saved
<1>12. cp[q].frame >= h
  <2>1. CutAt(Saved(h).cp, cp, h)
    BY <1>2, <1>4, <1>10, <1>11 DEF SavedInv
  <2>2. q \in Len(Saved(h).cp) + 1 .. Len(cp)
    BY <1>2, <1>5, <1>6, <1>11
  <2>3. QED
    BY <2>1, <2>2 DEF CutAt
<1>13. ASSUME NEW f \in 1 .. n, f # n, NEW e, Settled(f, e)
       PROVE  Settled(f, e)'
  <2>1. ~ (NoBinds(f)' /\ Quiet(f, Len(stack) + 1)')
    <3>1. SUFFICES ASSUME NoBinds(f)', Quiet(f, Len(stack) + 1)' PROVE FALSE
      OBVIOUS
    <3>2. cp[q].frame \in Nat /\ cp[q].frame < f
      BY <1>2, <1>6, <1>7, <3>1, CpFields DEF NoBinds, Binds
    <3>3. h \in 1 .. f - 1 /\ n \in f + 1 .. (Len(stack') + 1) - 1
      BY <1>7, <1>12, <1>13, <3>2
    <3>4. IsLoad(n)' /\ IsPoint(h)' /\ stack'[h].addr = stack'[n].token.addr
      BY <1>7, <1>10, <1>11 DEF IsLoad, IsPoint
    <3>5. QED
      BY <3>1, <3>3, <3>4 DEF Quiet
  <2>2. ASSUME NEW i \in 1 .. Len(cp'), FirstBinds(f, i)', Quiet(f, cp[i].frame)'
        PROVE  cp'[i].old = e
    <3>1. FirstBinds(f, i) /\ i \in 1 .. Len(cp)
      BY <1>7, <2>2 DEF FirstBinds, Binds
    <3>2. PICK d \in Nat : d = cp[i].frame /\ d <= n + 1
      <4>1. cp[i].frame \in 1 .. Len(stack)
        BY <1>2, <3>1, CpOrder
      <4>2. cp[i].frame \in Nat /\ cp[i].frame <= n + 1
        BY <1>4, <4>1
      <4>3. QED
        BY <4>2
    <3>3. Quiet(f, d)'
      BY <1>7, <2>2, <3>2 DEF Quiet
    <3>4. Quiet(f, d)
      BY <1>4, <1>9, <3>2, <3>3, QuietStays
    <3>5. QED
      BY <1>7, <1>13, <3>1, <3>2, <3>4 DEF Settled
  <2>3. QED
    BY <2>1, <2>2 DEF Settled
<1>14. SettledAt(n)'
  <2>1. SUFFICES ASSUME NEW i \in 1 .. Len(cp'), PutBack(n, i)'
                 PROVE  Settled(n, cp[i].old)'
    BY <1>7 DEF SettledAt, IsPoint, IsLoad
  <2>2. Goal(n)' = Goal(n) /\ Len(stack'[n].calls) = c /\ i \in Nat
    BY <1>5, <1>7 DEF Goal
  <2>3. i = q
    <3>1. i > Len(Goal(n)'.cp) + Len(stack'[n].calls)
      BY <2>1 DEF PutBack
    <3>2. i > p + c
      BY <1>5, <2>2, <3>1
    <3>3. \A j \in Len(Goal(n)'.cp) + 1 .. i - 1 : ~ Binds(j)
      BY <1>7, <2>1 DEF PutBack, Binds
    <3>4. \A j \in p + 1 .. i - 1 : ~ Binds(j)
      BY <1>5, <2>2, <3>3
    <3>5. q \notin p + 1 .. i - 1
      BY <1>6, <3>4
    <3>6. i \in Nat /\ q = p + c + 1
      BY <1>5, <2>2
    <3>7. QED
      BY <3>2, <3>5, <3>6
  <2>4. exc' = cp'[i].old
    BY <1>6, <1>7, <2>3
  <2>5. \A j \in 1 .. Len(cp') : ~ FirstBinds(n, j)'
    <3>1. ~ Inside(Len(stack)) /\ stack # << >>
      BY <1>3, <1>4, <1>7 DEF Inside, IsLoad, Called
    <3>2. \A j \in 1 .. Len(cp) : cp[j].frame <= n - 1 /\ cp[j].frame \in Nat
      BY <1>2, <1>4, <3>1, TopCp, CpFields
    <3>3. \A j \in 1 .. Len(cp') : ~ (cp'[j].frame >= n)
      BY <1>7, <3>2
    <3>4. QED
      BY <3>3 DEF FirstBinds
  <2>6. QED
    BY <2>4, <2>5 DEF Settled
<1>15. HandlerInv'
  <2>1. SUFFICES ASSUME ~ lost'
                 PROVE  AliveInv' /\ SettledInv'
    BY DEF HandlerInv
  <2>2. AliveInv /\ SettledInv
    BY <1>2, <1>3, <2>1 DEF HandlerInv, Called
  <2>3. SettledInv'
    <3>1. SUFFICES ASSUME NEW f \in 1 .. Len(stack') PROVE SettledAt(f)'
      BY DEF SettledInv
    <3>2. CASE f # n
      <4>1. f \in 1 .. n /\ stack'[f].calls = stack[f].calls
        BY <1>7, <3>1, <3>2
      <4>2. \A e : (IsPoint(f) \/ IsLoad(f)) /\ Settled(f, e) => Settled(f, e)'
        BY <1>13, <3>2, <4>1
      <4>3. QED
        BY <1>2, <1>8, <1>9, <2>2, <4>1, <4>2, SettledAtStays
    <3>3. QED
      BY <1>14, <3>2
  <2>4. \A f \in 1 .. Len(stack') : AliveAt(f)'
    BY <1>2, <1>4, <1>7, <1>9, <2>2, AliveAtStays DEF AliveInv
  <2>5. \A i \in 1 .. Len(cp') : Binds(i)' => TrysAmong(cp[i].old, cp[i].frame - 1)'
    <3>1. SUFFICES ASSUME NEW i \in 1 .. Len(cp'), Binds(i)'
                   PROVE  TrysAmong(cp[i].old, cp[i].frame - 1)'
      OBVIOUS
    <3>2. i \in 1 .. Len(cp) /\ Binds(i) /\ cp'[i] = cp[i]
      BY <1>7, <3>1 DEF Binds
    <3>3. cp[i].frame \in 1 .. n
      BY <1>2, <1>4, <3>2, CpOrder
    <3>4. PICK d \in Nat : d = cp[i].frame - 1 /\ d <= n
      BY <3>3
    <3>5. PICK e : e = cp[i].old
      OBVIOUS
    <3>6. TrysAmong(e, d)
      BY <2>2, <3>2, <3>4, <3>5 DEF AliveInv
    <3>7. TrysAmong(e, d)'
      BY <1>9, <3>4, <3>6, TrysStay
    <3>8. QED
      BY <3>2, <3>4, <3>7, <3>5 DEF TrysAmong
  <2>6. TrysAmong(exc, Len(stack))'
    <3>1. cp[q].frame \in 1 .. n
      BY <1>2, <1>4, <1>6, CpOrder
    <3>2. PICK d \in Nat : d = cp[q].frame - 1 /\ d <= n
      BY <3>1
    <3>3. PICK e : e = cp[q].old
      OBVIOUS
    <3>4. TrysAmong(e, d)
      BY <1>6, <2>2, <3>2, <3>3 DEF AliveInv
    <3>5. TrysAmong(e, n)'
      BY <1>9, <3>2, <3>4, TrysStay
    <3>6. QED
      BY <1>6, <1>7, <3>5, <3>3 DEF TrysAmong
  <2>7. QED
    BY <2>3, <2>4, <2>5, <2>6 DEF AliveInv
<1>16. QED
  BY <1>8, <1>9, <1>15 DEF IInv

-----------------------------------------------------------------------------
LEMMA InitInv == Init => IInv
<1>1. SUFFICES ASSUME Init PROVE IInv
  OBVIOUS
<1>2. stack = << >> /\ cp = << >> /\ exc = << >> /\ arena = << >> /\ cc = Nil
  BY <1>1 DEF Init
<1>3. \A i \in 1 .. 0 : FALSE
  OBVIOUS
<1>4. Len(stack) = 0 /\ Len(cp) = 0 /\ Len(exc) = 0 /\ Len(arena) = 0
  BY <1>2
<1>5. TypeOK
  <2>1. << >> \in Seq(CpRec) /\ << >> \in Seq(Handler) /\ << >> \in Seq(Frame) /\ << >> \in Seq(Addr)
    OBVIOUS
  <2>2. cont \in [Addr -> Cont]
    BY <1>1, <2>1 DEF Init, Cont
  <2>3. QED
    BY <1>1, <2>1, <2>2 DEF Init, TypeOK, Cont
<1>6. CpInv
  BY <1>3, <1>4 DEF CpInv, CpMatchesStack
<1>7. PointInv
  BY <1>2, <1>3, <1>4 DEF PointInv, ChainMatchesStack, InnermostPoint
<1>8. ArenaInv /\ SavedInv /\ LoadInv
  BY <1>3, <1>4 DEF ArenaInv, SavedInv, LoadInv
<1>9. HandlerInv
  BY <1>3, <1>4 DEF HandlerInv, AliveInv, SettledInv, TrysAmong
<1>10. QED
  BY <1>5, <1>6, <1>7, <1>8, <1>9 DEF IInv

LEMMA StepInv == IInv /\ [Next]_vars => IInv'
<1>1. SUFFICES ASSUME IInv, [Next]_vars PROVE IInv'
  OBVIOUS
<1>2. CASE \E a \in Addr : pic_callcc(a) \/ pic_start_try(a)
  BY <1>1, <1>2, CallccKept, StartTryKept
<1>3. CASE CallccReturn \/ pic_end_try \/ WindReturn \/ BindReturn \/ ThunkReturn
  BY <1>1, <1>3, ReturnKept
<1>4. CASE pic_dynamic_wind
  BY <1>1, <1>4, WindKept
<1>5. CASE EnterThunk \/ LeaveThunk
  BY <1>1, <1>5, WindStagesKept
<1>6. CASE with_exception_handler
  BY <1>1, <1>6, WithHandlerKept
<1>7. CASE pic_raise
  <2>1. err' \in Errors \cup {Nil} /\ UNCHANGED << cc, cont, arena, held, lost >>
    BY <1>1, <1>7 DEF pic_raise, IInv, TypeOK
  <2>2. QED
    BY <1>1, <1>7, <2>1, RaiseKept DEF pic_raise
<1>8. CASE \E t \in held : CallContinuation(t)
  BY <1>1, <1>8, CallContinuationKept
<1>9. CASE native_exception_handler
  BY <1>1, <1>9, NativeKept
<1>10. CASE CallDynamicSet
  BY <1>1, <1>10, CallDynamicSetKept
<1>11. CASE CallThunk
  BY <1>1, <1>11, CallThunkKept
<1>12. CASE Jump
  BY <1>1, <1>12, JumpKept
<1>13. CASE pic_leave
  BY <1>1, <1>13, LeaveKept
<1>14. CASE UNCHANGED vars
  <2>1. UNCHANGED << stack, cp, exc, cc, cont, arena, err, held, panic, lost >>
    BY <1>14 DEF vars
  <2>2. TypeOK'
    BY <1>1, <2>1 DEF IInv, TypeOK
  <2>3. Len(arena) \in Nat /\ \A f \in 1 .. Len(stack) : stack[f].ai <= Len(arena)
    BY <1>1 DEF IInv, TypeOK, ArenaInv
  <2>4. PICK m \in 0 .. Len(arena) : m = Len(arena)
    BY <2>3
  <2>5. QED
    BY <1>1, <2>1, <2>2, <2>3, <2>4, NothingLeft
<1>15. QED
  BY <1>1, <1>2, <1>3, <1>4, <1>5, <1>6, <1>7, <1>8, <1>9, <1>10, <1>11, <1>12, <1>13, <1>14
     DEF Next

(* The invariant of escapes is inductive.                                  *)
THEOREM Invariant == Spec => []IInv
BY InitInv, StepInv, PTL DEF Spec

(* The frames, the checkpoints, the continuations and the handlers are     *)
(* what they are declared to be, at any depth.                             *)
THEOREM TypeCorrect == Spec => []TypeOK
BY Invariant, PTL DEF IInv

(* pic->cp is the innermost extent the C stack is in.                      *)
THEOREM CpMatches == Spec => []CpMatchesStack
<1>1. IInv => CpMatchesStack
  BY DEF IInv, CpInv
<1>2. QED
  BY <1>1, Invariant, PTL

(* longjmp never lands in a frame that has returned.                       *)
THEOREM ChainMatches == Spec => []ChainMatchesStack
<1>1. IInv => ChainMatchesStack
  BY DEF IInv, PointInv
<1>2. QED
  BY <1>1, Invariant, PTL

(* The continuations that can be entered are protected from a collection.  *)
THEOREM Protected == Spec => []ContsProtected
<1>1. IInv => ContsProtected
  <2>1. SUFFICES ASSUME IInv, NEW i \in 1 .. Len(stack), IsPoint(i)
                 PROVE  stack[i].addr \in ToSet(arena)
    BY DEF ContsProtected, Activations
  <2>2. QED
    BY <2>1 DEF IInv, ArenaInv, ToSet
<1>2. QED
  BY <1>1, Invariant, PTL

(* An escape calls out thunks and no in thunk.                             *)
THEOREM Unwinds == Spec => []OnlyUnwinds
<1>1. IInv => OnlyUnwinds
  <2>1. SUFFICES ASSUME IInv, NEW f \in 1 .. Len(stack), stack[f].kind = "load",
                        NEW i \in 1 .. Len(stack[f].calls)
                 PROVE  stack[f].calls[i][1] = "out"
    BY DEF OnlyUnwinds
  <2>2. LoadOk(f)
    BY <2>1 DEF IInv, LoadInv, IsLoad
  <2>3. PICK c : stack[f].calls[i] = << "out", c >>
    BY <2>1, <2>2 DEF LoadOk
  <2>4. QED
    BY <2>3
<1>2. QED
  BY <1>1, Invariant, PTL

(* An escape that is not cut short ends with the handlers of the           *)
(* continuation it enters, and no native handler outlives its pic_try.     *)
THEOREM HandlersFollowControl == Spec => []HandlersFollow
<1>1. ASSUME IInv, ~ lost, AboutToJump, ~ CutsShort
      PROVE  HandlersRestored
  <2>1. /\ TypeOK /\ CpInv /\ PointInv /\ LoadInv /\ SavedInv /\ SettledInv
        /\ Len(stack) \in Nat /\ Len(cp) \in Nat
    BY <1>1 DEF IInv, HandlerInv, TypeOK
  <2>2. stack # << >> /\ IsLoad(Len(stack)) /\ Top.calls = << >>
    BY <1>1 DEF AboutToJump, Loading, TopIs, IsLoad, Top
  <2>3. /\ Target \in 1 .. Len(stack) - 1 /\ IsPoint(Target)
        /\ cont[Top.token.addr] = Saved(Target)
    BY <2>1, <2>2, TargetPoint
  <2>4. PICK t \in 1 .. Len(stack) - 1 : t = Target
    BY <2>3
  <2>5. t \in 1 .. Len(stack) /\ t \in Nat
    BY <2>1
  <2>6. CutAt(Saved(t).cp, cp, t) /\ Settled(t, Saved(t).exc)
    BY <2>1, <2>3, <2>4, <2>5 DEF SavedInv, SettledInv, SettledAt
  <2>7. PICK k \in 0 .. Len(cp) : k = Len(Saved(t).cp)
    <3>1. Saved(t) \in Cont
      BY <2>1, <2>3, <2>4, <2>5, FrameFields DEF TypeOK, Cont, Saved
    <3>2. Saved(t).cp \in Seq(CpRec)
      BY <3>1 DEF Cont
    <3>3. QED
      BY <2>6, <3>2 DEF CutAt
  <2>8. \A d \in 1 .. Len(stack) + 1 : Quiet(t, d)
    <3>1. \A g \in t .. Len(stack), h \in 1 .. t - 1 :
            ~ (IsLoad(g) /\ IsPoint(h) /\ stack[h].addr = stack[g].token.addr)
      BY <1>1, <2>1, <2>2, <2>4, JumpQuiet
    <3>2. \A d \in 1 .. Len(stack) + 1 : \A g \in t + 1 .. d - 1 : g \in t .. Len(stack)
      BY <2>1, <2>5
    <3>3. QED
      BY <3>1, <3>2 DEF Quiet
  <2>9. /\ \A i \in 1 .. k : cp[i].frame < t
        /\ \A i \in k + 1 .. Len(cp) : cp[i].frame >= t
    BY <2>6, <2>7 DEF CutAt
  <2>10. exc = Saved(t).exc
    <3>1. CASE \E i \in k + 1 .. Len(cp) : Binds(i)
      <4>1. PICK i \in k + 1 .. Len(cp) : Outermost(k, i)
        BY <2>1, <3>1, SomeOutermost
      <4>2. exc = cp[i].old /\ cp[i].frame <= Len(stack) - 1
        BY <2>1, <2>2, <2>4, <2>7, <4>1, JumpOuts
      <4>3. i \in 1 .. Len(cp) /\ cp[i].frame >= t
        BY <2>1, <2>9
      <4>4. cp[i].frame \in Nat
        BY <2>1, <4>3, CpFields
      <4>5. FirstBinds(t, i)
        <5>1. \A j \in 1 .. i - 1 : j \in 1 .. k \/ j \in k + 1 .. i - 1
          BY <2>1
        <5>2. Binds(i) /\ \A j \in k + 1 .. i - 1 : ~ Binds(j)
          BY <4>1 DEF Outermost
        <5>3. QED
          BY <2>9, <4>3, <5>1, <5>2 DEF FirstBinds
      <4>6. Quiet(t, cp[i].frame)
        <5>1. cp[i].frame \in 1 .. Len(stack) + 1
          BY <2>1, <2>5, <4>2, <4>3, <4>4
        <5>2. QED
          BY <2>8, <5>1
      <4>7. QED
        BY <2>6, <4>2, <4>3, <4>5, <4>6 DEF Settled
    <3>2. CASE \A i \in k + 1 .. Len(cp) : ~ Binds(i)
      <4>1. \A i \in 1 .. Len(cp) : i \in 1 .. k \/ i \in k + 1 .. Len(cp)
        BY <2>1
      <4>2. NoBinds(t)
        BY <2>9, <3>2, <4>1 DEF NoBinds
      <4>3. Len(stack) + 1 \in 1 .. Len(stack) + 1
        BY <2>1
      <4>4. QED
        BY <2>6, <2>8, <4>2, <4>3 DEF Settled
    <3>3. QED
      BY <3>1, <3>2
  <2>11. QED
    BY <2>3, <2>4, <2>10 DEF HandlersRestored
<1>2. ASSUME IInv, ~ lost PROVE HandlersAlive
  BY <1>2 DEF IInv, HandlerInv, AliveInv, TrysAmong, HandlersAlive
<1>3. IInv => HandlersFollow
  BY <1>1, <1>2 DEF HandlersFollow
<1>4. QED
  BY <1>3, Invariant, PTL
=============================================================================
