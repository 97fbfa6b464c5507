---------------------------------- MODULE Writer ----------------------------------
(***************************************************************************)
(* write, write-shared and write-simple (write.c).  A text is a sequence   *)
(* of tokens; names of atoms, spaces and line ends are left out.  shared   *)
(* and labels are the weak tables of struct writer_control.                *)
(***************************************************************************)
EXTENDS Objects

CONSTANTS
  Quoting,     \* the symbols quote, quasiquote, unquote ... with abbreviations
  MaxDepth     \* bound: the recursion of the writer the C stack has room for

Open == <<"(">>
Close == <<")">>
Point == <<".">>
OpenVector == <<"#(">>
OpenDict == <<"#.(">>
Abbreviation(sym) == <<"'", sym>>
Atom(a) == <<"atom", a>>
LabelSet(n) == <<"=", n>>
LabelRef(n) == <<"#", n>>

Without(f, x) == [y \in DOMAIN f \ {x} |-> f[y]]

(* Objects met twice get 1; with OP_WRITE the others are forgotten when    *)
(* their parts are done, so that only cycles are marked.                   *)
RECURSIVE traverse(_, _, _, _)
traverse(mem, op, shared, v) ==
  IF op = "write-simple" \/ ~IsObject(mem, v) THEN shared
  ELSE IF v \in DOMAIN shared THEN [shared EXCEPT ![v] = 1]
  ELSE LET s == FoldLeft(LAMBDA t, x : traverse(mem, op, t, x), (v :> 0) @@ shared, mem[v].of)
       IN  IF op = "write" /\ s[v] = 0 THEN Without(s, v) ELSE s

is_shared_object(w, v) == v \in DOMAIN w.shared /\ w.shared[v] > 0

Emit(w, tokens) == [w EXCEPT !.out = @ \o tokens]

(* What write_pair abbreviates: a list of two with such a symbol first.    *)
Abbreviated(mem, v) ==
  /\ IsPair(mem, v) /\ Car(mem, v) \in Quoting
  /\ IsPair(mem, Cdr(mem, v)) /\ Cdr(mem, Cdr(mem, v)) = Nil

(* After its object a label is forgotten by OP_WRITE.                      *)
Forget(op, w, v) ==
  IF op = "write" /\ is_shared_object(w, v) THEN [w EXCEPT !.labels = Without(@, v)] ELSE w

(* write_core, write_pair_help and the parts of a vector or dictionary.    *)
(* depth counts the calls in progress; past MaxDepth the writer is lost.   *)
RECURSIVE write_core(_, _, _, _, _)
RECURSIVE write_pair_help(_, _, _, _, _)

write_parts(mem, op, w, v, depth) ==
  FoldLeft(LAMBDA u, x : write_core(mem, op, u, x, depth), w, mem[v].of)

write_pair(mem, op, w, v, depth) ==
  IF Abbreviated(mem, v)
    THEN write_core(mem, op, Emit(w, << Abbreviation(Car(mem, v)) >>), Car(mem, Cdr(mem, v)), depth)
    ELSE Emit(write_pair_help(mem, op, Emit(w, << Open >>), v, depth), << Close >>)

Body(mem, op, w, v, depth) ==
  IF v = Nil THEN Emit(w, << Open, Close >>)
  ELSE IF ~IsObject(mem, v) THEN Emit(w, << Atom(v) >>)
  ELSE CASE mem[v].type = "pair"   -> write_pair(mem, op, w, v, depth)
         [] mem[v].type = "vector" ->
              Emit(write_parts(mem, op, Emit(w, << OpenVector >>), v, depth), << Close >>)
         [] mem[v].type = "dict"   ->
              Emit(write_parts(mem, op, Emit(w, << OpenDict >>), v, depth), << Close >>)

(* Mutant: a label is shown again for each visit of its object.            *)
write_core_NoRef(mem, op, w, v, depth) ==
  IF depth > MaxDepth \/ w.lost THEN [w EXCEPT !.lost = TRUE]
  ELSE IF ~is_shared_object(w, v) THEN Body(mem, op, w, v, depth + 1)
  ELSE Forget(op, Body(mem, op,
         [Emit(w, << LabelSet(w.cnt) >>) EXCEPT !.cnt = @ + 1, !.labels = (v :> w.cnt) @@ @],
         v, depth + 1), v)

write_core(mem, op, w, v, depth) ==
  IF depth > MaxDepth \/ w.lost THEN [w EXCEPT !.lost = TRUE]
  ELSE IF ~is_shared_object(w, v) THEN Body(mem, op, w, v, depth + 1)
  ELSE IF v \in DOMAIN w.labels THEN Emit(w, << LabelRef(w.labels[v]) >>)
  ELSE Forget(op, Body(mem, op,
         [Emit(w, << LabelSet(w.cnt) >>) EXCEPT !.cnt = @ + 1, !.labels = (v :> w.cnt) @@ @],
         v, depth + 1), v)

write_pair_help(mem, op, w0, v, depth) ==
  LET w == write_core(mem, op, w0, Car(mem, v), depth)
      cdr == Cdr(mem, v)
  IN  IF cdr = Nil \/ w.lost THEN w
      ELSE IF IsPair(mem, cdr) /\ ~is_shared_object(w, cdr)
             THEN write_pair_help(mem, op, w, cdr, depth + 1)
             ELSE write_core(mem, op, Emit(w, << Point >>), cdr, depth)

(* The tokens written, and whether the writer came to its end.             *)
write(mem, op, v) ==
  write_core(mem, op, [out |-> << >>, cnt |-> 0, shared |-> traverse(mem, op, << >>, v),
                       labels |-> << >>, lost |-> FALSE], v, 0)
=============================================================================
