---------------------------------- MODULE Equal ----------------------------------
(***************************************************************************)
(* equal? (bool.c).  The recursion goes down cars and the elements of      *)
(* vectors; the loop goes along cdrs with one slower pointer on each list. *)
(***************************************************************************)
EXTENDS Objects

CONSTANTS
  SeenDepth,     \* nesting from which objects are remembered: 10
  ErrorDepth     \* nesting that is an error: 200

INT_MIN == -2147483647 - 1

(* An answer, and the table of objects seen.                               *)
Answer(ans, seen) == [ans |-> ans, seen |-> seen]

(* The slower pointer of a list after a step: it goes at every other step, *)
(* and when it stands where the loop is, the list is circular.             *)
Step(mem, f, old, new) ==
  LET start == IF f.at = Nil THEN old ELSE f.at
  IN  IF f.count + 1 # 2 THEN [at |-> start, count |-> f.count + 1, met |-> FALSE]
      ELSE [at |-> Cdr(mem, start), count |-> 0, met |-> Cdr(mem, start) = new]

Met(f) == IF f.met THEN [f EXCEPT !.count = INT_MIN] ELSE f

RECURSIVE internal_equal_p(_, _, _, _, _)
RECURSIVE Loop(_, _, _, _, _, _, _)

RECURSIVE VectorElements(_, _, _, _, _, _)
VectorElements(mem, x, y, i, depth, seen) ==
  IF i > Len(mem[x].of) THEN Answer("true", seen)
  ELSE LET a == internal_equal_p(mem, mem[x].of[i], mem[y].of[i], depth + 1, seen)
       IN  IF a.ans # "true" THEN a ELSE VectorElements(mem, x, y, i + 1, depth, a.seen)

(* Mutant: a circular list equals any other.                               *)
BothCircular_Either(fx, fy) == fx.met \/ fy.met

(* The pointer on x is looked at first.                                    *)
BothCircular(fx, fy) ==
  \/ fx.met /\ fy.count < 0
  \/ fy.met /\ Met(fx).count < 0

Loop(mem, x, y, fx, fy, depth, seen) ==
  IF x = y THEN Answer("true", seen)
  ELSE IF ~(IsObject(mem, x) /\ IsObject(mem, y)) \/ mem[x].type # mem[y].type
         THEN Answer("false", seen)
  ELSE IF mem[x].type = "vector"
         THEN IF Len(mem[x].of) # Len(mem[y].of) THEN Answer("false", seen)
              ELSE VectorElements(mem, x, y, 1, depth, seen)
  ELSE IF mem[x].type # "pair" THEN Answer("false", seen)
  ELSE LET a == internal_equal_p(mem, Car(mem, x), Car(mem, y), depth + 1, seen)
           nx == Cdr(mem, x)
           ny == Cdr(mem, y)
           gx == Step(mem, fx, x, nx)
           gy == Step(mem, fy, y, ny)
       IN  IF a.ans # "true" THEN a
           ELSE IF BothCircular(gx, gy) THEN Answer("true", a.seen)
           ELSE Loop(mem, nx, ny, Met(gx), Met(gy), depth, a.seen)

(* Deep down an object not seen before counts as equal.                    *)
internal_equal_p(mem, x, y, depth, seen) ==
  LET f == [at |-> Nil, count |-> 0, met |-> FALSE]
      put == IF depth > SeenDepth /\ IsObject(mem, x) /\ mem[x].type # "dict"
               THEN seen \union {x} ELSE seen
  IN  IF depth > SeenDepth /\ depth > ErrorDepth THEN Answer("error", seen)
      ELSE IF put # seen THEN Answer("true", put)
      ELSE Loop(mem, x, y, f, f, depth, put)

pic_equal_p(mem, x, y) == internal_equal_p(mem, x, y, 0, {}).ans
=============================================================================
