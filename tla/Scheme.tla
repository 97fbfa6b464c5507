-------------------------------- MODULE Scheme --------------------------------
(***************************************************************************)
(* What an expression means, as R7RS has it: each variable is a location   *)
(* of its own, a procedure keeps the locations around it, call/cc gives    *)
(* an escape.  Operands are evaluated from left to right, and a context    *)
(* for one value takes the first of several.                               *)
(*                                                                         *)
(* The expressions are those of Compiler.                                  *)
(***************************************************************************)
EXTENDS Integers, Sequences, SequencesExt, TLC

CONSTANT Fuel    \* bound: depth of an evaluation

Datum(c) == [t |-> "const", c |-> c]
List(vs) == [t |-> "list", vs |-> vs]
Primitive(f) == [t |-> "native", f |-> f]

Undef == Datum("undef")
False == Datum("#f")
Invalid == Datum("uninitialized")

Primitives == {"values", "call-with-values", "call/cc"}

(* Outcomes: values, an escape to continuation k with values, or no        *)
(* meaning ("error"), or none that Fuel lets us see ("loop").  sto is the  *)
(* contents of the locations, and env gives each variable its location.    *)
Value(v, sto) == [k |-> "value", vs |-> <<v>>, sto |-> sto]
Values(vs, sto) == [k |-> "value", vs |-> vs, sto |-> sto]
Error == [k |-> "error"]
Loop == [k |-> "loop"]
Escape(id, vs, sto) == [k |-> "escape", id |-> id, vs |-> vs, sto |-> sto]

IsProc(v) == v.t \in {"proc", "native", "cont"}

First(vs) == IF vs = << >> THEN Undef ELSE vs[1]

(* New locations for the names xs. *)
Bind(env, sto, xs) ==
  [x \in Range(xs) |-> Len(sto) + (CHOOSE i \in DOMAIN xs : xs[i] = x)] @@ env

RECURSIVE Names(_)
Names(e) ==
  LET below == FlattenSeq([i \in DOMAIN e.kids |-> Names(e.kids[i])])
  IN IF e.op = "define" THEN <<e.x>> \o below ELSE below

(* conts: the continuations whose extent we are in. *)
RECURSIVE Eval(_, _, _, _, _), Apply(_, _, _, _, _), EvalList(_, _, _, _, _, _)

EvalList(es, done, env, sto, conts, n) ==
  IF es = << >> THEN Values(done, sto)
  ELSE LET one == Eval(Head(es), env, sto, conts, n) IN
       IF one.k # "value" THEN one
       ELSE EvalList(Tail(es), Append(done, First(one.vs)), env, one.sto, conts, n)

Apply(f, args, sto, conts, n) ==
  IF n = 0 THEN Loop
  ELSE CASE f.t = "proc" ->
              LET lam == f.lam
                  argc == Len(lam.args)
                  locals == SelectSeq(Names(lam.body),
                              LAMBDA x : x \notin Range(lam.args \o lam.rest))
                  env == Bind(f.env, sto, lam.args \o lam.rest \o locals)
                  rest == IF lam.rest = << >> THEN << >>
                          ELSE << List(SubSeq(args, argc + 1, Len(args))) >>
                  new == SubSeq(args, 1, argc) \o rest \o [i \in DOMAIN locals |-> Undef]
              IN IF Len(args) < argc \/ (lam.rest = << >> /\ Len(args) > argc)
                   THEN Error
                   ELSE Eval(lam.body, env, sto \o new, conts, n - 1)
         [] f.t = "native" /\ f.f = "values" -> Values(args, sto)
         [] f.t = "native" /\ f.f = "call-with-values" ->
              IF Len(args) # 2 \/ \E i \in DOMAIN args : ~IsProc(args[i]) THEN Error
              ELSE LET made == Apply(args[1], << >>, sto, conts, n - 1) IN
                   IF made.k # "value" THEN made
                   ELSE Apply(args[2], made.vs, made.sto, conts, n - 1)
         [] f.t = "native" /\ f.f = "call/cc" ->
              IF Len(args) # 1 \/ ~IsProc(args[1]) THEN Error
              ELSE LET id == Len(sto) + 1
                       k == [t |-> "cont", id |-> id]
                       result == Apply(args[1], <<k>>, Append(sto, k), conts \cup {id}, n - 1)
                   IN IF result.k = "escape" /\ result.id = id
                        THEN Values(result.vs, result.sto) ELSE result
         [] f.t = "cont" ->
              IF f.id \in conts THEN Escape(f.id, args, sto) ELSE Error
         [] OTHER -> Error

Eval(e, env, sto, conts, n) ==
  LET sub(i, s) == Eval(e.kids[i], env, s, conts, n) IN
  CASE n = 0 -> Loop
    [] n > 0 /\ e.op = "quote" -> Value(Datum(e.c), sto)
    [] n > 0 /\ e.op = "var" ->
         IF e.x \notin DOMAIN env \/ sto[env[e.x]] = Invalid THEN Error
         ELSE Value(sto[env[e.x]], sto)
    [] n > 0 /\ e.op = "lambda" -> Value([t |-> "proc", lam |-> e, env |-> env], sto)
    [] n > 0 /\ e.op \in {"set!", "define"} ->
         LET new == sub(1, sto) IN
         IF new.k # "value" THEN new
         ELSE IF e.x \notin DOMAIN env THEN Error
         ELSE Value(Undef, [new.sto EXCEPT ![env[e.x]] = First(new.vs)])
    [] n > 0 /\ e.op = "begin" ->
         LET one == sub(1, sto) IN IF one.k # "value" THEN one ELSE sub(2, one.sto)
    [] n > 0 /\ e.op = "if" ->
         LET test == sub(1, sto) IN
         IF test.k # "value" THEN test
         ELSE IF First(test.vs) # False THEN sub(2, test.sto) ELSE sub(3, test.sto)
    [] OTHER ->
         LET all == EvalList(e.kids, << >>, env, sto, conts, n) IN
         IF all.k # "value" THEN all
         ELSE Apply(all.vs[1], Tail(all.vs), all.sto, conts, n - 1)

(* A value as it prints. *)
RECURSIVE Shown(_)
Shown(v) ==
  CASE v.t = "const" -> v
    [] v.t = "list" -> List([i \in DOMAIN v.vs |-> Shown(v.vs[i])])
    [] OTHER -> Datum("procedure")

(* The meaning of a program. *)
Meaning(e) ==
  LET natives == SetToSeq(Primitives)
      names == natives \o Names(e)
      sto == [i \in DOMAIN names |->
                IF i <= Len(natives) THEN Primitive(names[i]) ELSE Invalid]
      outcome == Eval(e, Bind([x \in {} |-> 0], << >>, names), sto, {}, Fuel)
  IN IF outcome.k = "value" THEN Shown(First(outcome.vs)) ELSE Datum(outcome.k)
=============================================================================
