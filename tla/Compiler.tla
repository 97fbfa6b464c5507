------------------------------- MODULE Compiler -------------------------------
(***************************************************************************)
(* From a program to the code of the virtual machine (eval.c): variables   *)
(* get unique names, applications of lambda expressions become             *)
(* definitions, each reference becomes one to a global variable, a slot of *)
(* the frame or a slot of a context, and code is generated.                *)
(*                                                                         *)
(* Macros, the inlined primitives (+, car and the like) and the pools of   *)
(* constants are left out.                                                 *)
(***************************************************************************)
EXTENDS Integers, Sequences, FiniteSets, SequencesExt, TLC

(* Expressions.  The operands of a form are in kids; of a lambda           *)
(* expression, args are its formals and rest has at most one.              *)
Quote(c) == [op |-> "quote", c |-> c, kids |-> << >>]
Var(x) == [op |-> "var", x |-> x, kids |-> << >>]
Lambda(args, rest, body) ==
  [op |-> "lambda", args |-> args, rest |-> rest, body |-> body, kids |-> << >>]
Form(op, kids) == [op |-> op, kids |-> kids]
Assign(op, x, e) == [op |-> op, x |-> x, kids |-> <<e>>]

Call(f, es) == Form("call", <<f>> \o es)
Begin(a, b) == Form("begin", <<a, b>>)
If(a, b, c) == Form("if", <<a, b, c>>)
Define(x, e) == Assign("define", x, e)
SetBang(x, e) == Assign("set!", x, e)

(* What the definitions in e define, but not those in lambda expressions   *)
(* in e, in order.                                                         *)
RECURSIVE Defines(_)
Defines(e) ==
  LET inner == FlattenSeq([i \in DOMAIN e.kids |-> Defines(e.kids[i])])
  IN IF e.op = "define" THEN <<e.x>> \o inner ELSE inner

-----------------------------------------------------------------------------
(* pic_expand: a variable is named by where it is bound, at << >> if it is *)
(* global.                                                                 *)

pic_find_identifier(x, env) == IF x \in DOMAIN env THEN env[x] ELSE << x, << >> >>

pic_add_identifier(xs, env, at) ==
  [x \in Range(xs) |-> IF at = << >> THEN << x, << >> >> ELSE << x, at >>] @@ env

(* at is the lambda expression that binds, env what is bound so far, and   *)
(* all what is bound when its body is expanded, and the lambda expressions *)
(* in it are.                                                              *)
RECURSIVE expand(_, _, _, _, _)
expand(e, env, all, at, path) ==
  LET kid(i, bound) == expand(e.kids[i], bound, all, at, Append(path, i))
      before(i) == FlattenSeq([j \in 1 .. i - 1 |-> Defines(e.kids[j])])
      kids == [i \in DOMAIN e.kids |->
                 kid(i, pic_add_identifier(before(i), env, at))]
  IN CASE e.op = "quote" -> e
       [] e.op = "var" -> Var(pic_find_identifier(e.x, env))
       [] e.op = "define" ->
            LET bound == pic_add_identifier(<<e.x>>, env, at)
            IN Define(bound[e.x], kid(1, bound))
       [] e.op = "set!" -> SetBang(pic_find_identifier(e.x, env), kids[1])
       [] e.op = "lambda" ->
            LET in == pic_add_identifier(e.args \o e.rest, all, path)
                name(x) == in[x]
            IN Lambda([i \in DOMAIN e.args |-> name(e.args[i])],
                      [i \in DOMAIN e.rest |-> name(e.rest[i])],
                      expand(e.body, in, pic_add_identifier(Defines(e.body), in, path),
                             path, Append(path, 0)))
       [] OTHER -> Form(e.op, kids)

pic_expand(e) ==
  LET all == pic_add_identifier(Defines(e), << >>, << >>)
  IN expand(e, << >>, all, << >>, <<0>>)

-----------------------------------------------------------------------------
(* pic_optimize: ((lambda (x ...) body) arg ...) is body after the         *)
(* definitions of x ... in the scope around.                               *)

RECURSIVE optimize_beta(_)
optimize_beta(e) ==
  LET kids == [i \in DOMAIN e.kids |-> optimize_beta(e.kids[i])]
      beta == /\ e.op = "call"
              /\ kids[1].op = "lambda"
              /\ kids[1].rest = << >>
              /\ Len(kids[1].args) = Len(kids) - 1
      def(i) == Define(kids[1].args[i], kids[i + 1])
  IN CASE e.op = "lambda" -> Lambda(e.args, e.rest, optimize_beta(e.body))
       [] beta -> FoldRight(Begin, [i \in DOMAIN kids[1].args |-> def(i)], kids[1].body)
       [] ~beta /\ e.op # "lambda" -> [e EXCEPT !.kids = kids]

(* optimize_beta asks for the name of what a procedure expression in       *)
(* parentheses begins with (273), after an assertion (object.h:139) that   *)
(* it is a symbol.                                                         *)
RECURSIVE HeadsAreSymbols(_)
HeadsAreSymbols(e) ==
  LET below == \A i \in DOMAIN e.kids : HeadsAreSymbols(e.kids[i])
      head == optimize_beta(e.kids[1])
  IN CASE e.op = "lambda" -> HeadsAreSymbols(e.body)
       [] e.op = "call" -> below /\ (head.op = "call" => head.kids[1].op = "var")
       [] OTHER -> below

-----------------------------------------------------------------------------
(* pic_analyze: scopes, and the variables of each that inner lambda        *)
(* expressions refer to.                                                   *)

Distinct(xs) == FoldLeft(LAMBDA s, x : IF x \in Range(s) THEN s ELSE Append(s, x),
                         << >>, xs)

(* The rest variable comes first among the locals. *)
Locals(lam) ==
  lam.rest \o SelectSeq(Distinct(Defines(lam.body)),
                        LAMBDA x : x \notin Range(lam.args) \cup Range(lam.rest))

RECURSIVE Free(_)
Free(e) ==
  LET named == IF e.op \in {"var", "define", "set!"} THEN {e.x} ELSE {}
      below == UNION {Free(e.kids[i]) : i \in DOMAIN e.kids}
  IN IF e.op = "lambda" THEN Free(e.body) \ (Range(e.args) \cup Range(Locals(e)))
     ELSE named \cup below

(* What the lambda expressions in e refer to. *)
RECURSIVE Inner(_)
Inner(e) ==
  IF e.op = "lambda" THEN Free(e)
  ELSE UNION {Inner(e.kids[i]) : i \in DOMAIN e.kids}

analyze_lambda(lam) ==
  LET locals == Locals(lam) IN
  [args |-> lam.args, rest |-> lam.rest, locals |-> locals,
   captures |-> SetToSeq(Inner(lam.body) \cap (Range(lam.args) \cup Range(locals)))]

Toplevel == [args |-> << >>, rest |-> << >>, locals |-> << >>, captures |-> << >>]

(* Scopes are listed from the innermost; the last is the top level, which  *)
(* has all that no other has.                                              *)
find_var(scopes, x) ==
  CHOOSE d \in DOMAIN scopes :
    LET has(i) == i = Len(scopes)
                    \/ x \in Range(scopes[i].args) \cup Range(scopes[i].locals)
    IN has(d) /\ \A i \in 1 .. d - 1 : ~has(i)

-----------------------------------------------------------------------------
(* pic_codegen. *)

(* Instructions, with a number, a constant or an irep, or a global.        *)
Insn(insn) == [insn |-> insn]
InsnN(insn, n) == [insn |-> insn, n |-> n]
InsnX(insn, x) == [insn |-> insn, x |-> x]

Index(xs, x) == CHOOSE i \in DOMAIN xs : xs[i] = x

(* Mutant: the slot of the procedure is forgotten.                         *)
index_local_FromZero(scope, x) == Index(scope.args \o scope.locals, x) - 1

(* The slot of a frame, which starts with the procedure: arguments,        *)
(* locals, then the captured ones.                                         *)
index_local(scope, x) == Index(scope.args \o scope.locals, x)

Slot(scope, x) ==
  IF x \in Range(scope.captures)
    THEN Len(scope.args) + Len(scope.locals) + Index(scope.captures, x)
    ELSE index_local(scope, x)

(* Access to x: op is "REF" or "SET". *)
Access(op, scopes, x) ==
  LET d == find_var(scopes, x) IN
  CASE d = Len(scopes) -> InsnX("G" \o op, x)
    [] d = 1 /\ d # Len(scopes) -> InsnN("L" \o op, Slot(scopes[1], x))
    [] OTHER -> [insn |-> "C" \o op, depth |-> d - 1,
                   index |-> Index(scopes[d].captures, x) - 1]

(* Mutant: they are not. *)
create_activation_NoCopy(scope) ==
  [i \in DOMAIN scope.captures |-> [insn |-> "PUSH", c |-> "undef"]]

(* Captured arguments are copied to the capture area. *)
create_activation(scope) ==
  [i \in DOMAIN scope.captures |->
     LET x == scope.captures[i] IN
     IF x \in Range(scope.args) \cup Range(scope.rest)
       THEN InsnN("LREF", index_local(scope, x))
       ELSE [insn |-> "PUSH", c |-> "undef"]]

RECURSIVE codegen(_, _, _)
codegen(scopes, e, tailpos) ==
  LET kid(i, tail) == codegen(scopes, e.kids[i], tail)
      ret(code) == IF tailpos THEN Append(code, Insn("RET")) ELSE code
  IN CASE e.op = "quote" -> ret(<< [insn |-> "PUSH", c |-> e.c] >>)
       [] e.op = "var" -> ret(<< Access("REF", scopes, e.x) >>)
       [] e.op \in {"define", "set!"} ->
            ret(Append(kid(1, FALSE), Access("SET", scopes, e.x)))
       [] e.op = "lambda" ->
            LET inner == analyze_lambda(e)
                code == create_activation(inner)
                          \o codegen(<<inner>> \o scopes, e.body, TRUE)
            IN ret(<< [insn |-> "LAMBDA", irep |->
                 [argc |-> Len(inner.args) + 1, localc |-> Len(inner.locals),
                  capturec |-> Len(inner.captures), varg |-> inner.rest # << >>,
                  code |-> code]] >>)
       [] e.op = "if" ->
            LET true == kid(2, tailpos)
                false == kid(3, tailpos)
            IN kid(1, FALSE) \o << InsnN("JMPIF", Len(false) + 2) >>
                 \o false \o << InsnN("JMP", Len(true) + 1) >> \o true
       [] e.op = "begin" ->
            Append(kid(1, FALSE), Insn("POP")) \o kid(2, tailpos)
       [] e.op = "call" ->
            Append(FlattenSeq([i \in DOMAIN e.kids |-> kid(i, FALSE)]),
                   InsnN(IF tailpos THEN "TAILCALL" ELSE "CALL", Len(e.kids)))

(* pic_compile, after pic_expand: the irep of the program, and the globals *)
(* it defines.                                                             *)
pic_compile(e) ==
  LET optimized == optimize_beta(e) IN
  [irep |-> [argc |-> 1, localc |-> 0, capturec |-> 0, varg |-> FALSE,
             code |-> codegen(<<Toplevel>>, optimized, TRUE)],
   globals |-> Range(Defines(optimized))]
=============================================================================
