--------------------------------- MODULE Objects ---------------------------------
(***************************************************************************)
(* Data as the reader, the writer, equal? and the procedures on lists see  *)
(* it: pairs, vectors and dictionaries at addresses, which may share and   *)
(* contain each other in any way, and atoms that have no parts.            *)
(***************************************************************************)
EXTENDS Integers, Sequences, FiniteSets, FiniteSetsExt, SequencesExt, TLC

CONSTANTS
  Nil,        \* the empty list
  NoValue     \* what is in memory before anything is stored there

(* A pair is its car and its cdr; a dictionary is the values in it.        *)
Object(type, of) == [type |-> type, of |-> of]

(* mem maps addresses, which are 1, 2, ..., to objects.                    *)
IsObject(mem, v) == v \in DOMAIN mem
Is(mem, type, v) == IsObject(mem, v) /\ mem[v].type = type
IsPair(mem, v) == Is(mem, "pair", v)
Car(mem, v) == mem[v].of[1]
Cdr(mem, v) == mem[v].of[2]

Fresh(mem) == Len(mem) + 1

(* The elements of a list that ends, and what it ends with.                *)
RECURSIVE ListToSeq(_, _)
ListToSeq(mem, l) ==
  IF IsPair(mem, l) THEN << Car(mem, l) >> \o ListToSeq(mem, Cdr(mem, l)) ELSE << >>

RECURSIVE ListEnd(_, _)
ListEnd(mem, l) == IF IsPair(mem, l) THEN ListEnd(mem, Cdr(mem, l)) ELSE l

Proper(mem, l) == ListEnd(mem, l) = Nil

(* As many cdrs as there are objects do not lead to the end of v.          *)
RECURSIVE AfterCdrs(_, _, _)
AfterCdrs(mem, v, n) == IF n > 0 /\ IsPair(mem, v) THEN AfterCdrs(mem, Cdr(mem, v), n - 1) ELSE v

Circular(mem, v) == IsPair(mem, AfterCdrs(mem, v, Len(mem)))

-----------------------------------------------------------------------------
(* What is in them.                                                        *)

RECURSIVE Closure(_, _)
Closure(mem, seen) ==
  LET more == seen \union UNION {Range(mem[v].of) : v \in {x \in seen : IsObject(mem, x)}}
  IN  IF more = seen THEN seen ELSE Closure(mem, more)

(* Everything a value leads to, itself included, and all but itself unless *)
(* it contains itself.                                                     *)
Within(mem, v) == Closure(mem, {v})
Inside(mem, v) == IF IsObject(mem, v) THEN Closure(mem, Range(mem[v].of)) ELSE {}

Acyclic(mem, v) == \A x \in Within(mem, v) : x \notin Inside(mem, x)

Alike(mem, x, y) ==
  IF IsObject(mem, x) /\ IsObject(mem, y)
    THEN mem[x].type = mem[y].type /\ Len(mem[x].of) = Len(mem[y].of)
    ELSE x = y

RECURSIVE Pairing(_, _)
Pairing(mem, seen) ==
  LET more == seen \union UNION {
        {<< mem[p[1]].of[i], mem[p[2]].of[i] >> : i \in DOMAIN mem[p[1]].of} :
          p \in {q \in seen : IsObject(mem, q[1]) /\ Alike(mem, q[1], q[2])}}
  IN  IF more = seen THEN seen ELSE Pairing(mem, more)

(* The values found at the same places in x and y.                         *)
Paired(mem, x, y) == Pairing(mem, {<< x, y >>})

(* Nothing that looks at the contents can tell x from y: unfolded, they    *)
(* are the same, possibly infinite, tree.                                  *)
SameTree(mem, x, y) == \A p \in Paired(mem, x, y) : Alike(mem, p[1], p[2])

(* x and y also share the same parts.                                      *)
SameGraph(mem, x, y) ==
  /\ SameTree(mem, x, y)
  /\ \A p, q \in {r \in Paired(mem, x, y) : IsObject(mem, r[1])} :
       p[1] = q[1] <=> p[2] = q[2]
=============================================================================
