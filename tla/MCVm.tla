--------------------------------- MODULE MCVm ---------------------------------
(* Programs that make closures over a frame that lives, over one that is   *)
(* left, and over each other; several values; errors; escapes.             *)
EXTENDS Vm

One == Quote("1")
Two == Quote("2")
Fn(x, body) == Lambda(<<x>>, << >>, body)
Thunk(body) == Lambda(<< >>, << >>, body)
Ap(f, e) == Call(Var(f), <<e>>)

CallCC(f) == Call(Var("call/cc"), <<f>>)

(* Of these the compiler removes the first and calls the second. *)
Let(x, e, body) == Call(Fn(x, body), <<e>>)
Proc(x, e, body) == Call(If(Quote("#t"), Fn(x, body), One), <<e>>)

Atoms(V) == {Two} \cup {Var(x) : x \in V}

Bodies(V) ==
  Atoms(V)
    \cup {SetBang(x, a) : x \in V, a \in Atoms(V)}
    \cup {Fn("z", b) : b \in {Var("z")} \cup Atoms(V)}
    \cup {Ap(x, a) : x \in V, a \in Atoms(V)}

(* f has x of a frame that lives, while x, f are assigned and f is called. *)
Living ==
  {Proc("x", One, Let("f", Fn("y", b), Begin(a, c))) :
     b \in Bodies({"x", "y"}),
     a \in {SetBang("x", Two), Ap("f", Two), Ap("f", Var("x")), Ap("f", Var("f"))},
     c \in {Var("x"), Ap("f", Var("x")), Ap("f", Quote("3"))}}

(* The same around an escape, from a frame that made no procedure. *)
Around ==
  {Proc("x", One, Let("f", Fn("y", b),
     Begin(CallCC(Fn("k", Begin(a, Begin(Ap("k", Var("x")), One)))), c))) :
     b \in Bodies({"x", "y"}), a \in {SetBang("x", Two), Ap("f", Var("k"))},
     c \in {Var("x"), Ap("f", Var("x"))}}

(* f and g share x of a frame that is left. *)
Left ==
  {Call(Var("call-with-values"),
     << Thunk(Proc("x", One, Call(Var("values"), <<Fn("y", b), Fn("w", c)>>))),
        Lambda(<<"f", "g">>, << >>, Begin(Ap("f", Quote("3")), Ap("g", Quote("4")))) >>) :
     b \in Bodies({"x", "y"}),
     c \in Bodies({"x", "w"}) \cup {Begin(SetBang("x", Var("w")), Var("x"))}}

(* Procedures of procedures, called at once or after the frames are left.  *)
Nested ==
  {Let("f", Fn("x", Fn("y", Fn("z", Begin(SetBang(v, Quote("3")), b)))),
       Let("g", Ap("f", One), Let("h", Ap("g", Two), Begin(Ap("h", One), Ap("h", a))))) :
     v \in {"x", "y", "z"}, a \in {Var("f"), Quote("4")},
     b \in Atoms({"x", "y", "z"}) \cup {Begin(SetBang("y", Var("z")), Var("y"))}}

Rest ==
  {Let("f", Lambda(xs, <<"r">>, b), Call(Var("f"), es)) :
     xs \in {<< >>, <<"x">>, <<"x", "y">>},
     es \in {<< >>, <<One>>, <<One, Two>>, <<One, Two, Quote("3")>>},
     b \in {Var("r"), Begin(Define("l", Var("r")), Var("l")),
            Let("g", Thunk(Begin(SetBang("r", Two), Var("r"))), Call(Var("g"), << >>)),
            Begin(Define("l", One), Begin(Define("g", Thunk(Var("l"))),
              Begin(SetBang("l", Var("r")), Call(Var("g"), << >>))))}}

Results ==
  LET all == {<< >>, <<One>>, <<One, Two>>}
      vals(es) == Call(Var("values"), es)
  IN {Call(Var("call-with-values"), << Thunk(p), Lambda(<< >>, <<"r">>, Var("r")) >>) :
        p \in {vals(es) : es \in all}
                \cup {Begin(vals(es), One) : es \in all}
                \cup {If(vals(es), vals(es), Two) : es \in all}
                \cup {Let("x", vals(es), Var("x")) : es \in all}}
     \cup {Proc("x", If(c, One, Two), Call(Var("values"), <<Var("x"), Two>>)) :
             c \in {Quote("#f"), Two}}

Failing ==
  { Ap("g", One), Var("x"), SetBang("x", One), Call(One, <<Two>>),
    Call(Var("call/cc"), << >>), Call(Var("call-with-values"), << One >>),
    CallCC(One), Call(Var("call-with-values"), << One, Var("values") >>),
    CallCC(Fn("k", Call(Var("call-with-values"), << Thunk(Ap("k", One)), Two >>))),
    Begin(Ap("f", One), Define("f", One)) }

(* Recursion without end. *)
Endless ==
  { Begin(Define("f", Fn("x", Begin(Ap("f", Var("x")), One))), Ap("f", One)),
    Begin(Define("f", Fn("x", Let("y", Ap("f", Var("x")), Var("y")))), Ap("f", One)),
    Begin(Define("f", Fn("x", Begin(CallCC(Var("f")), One))), Ap("f", One)) }

Globals ==
  {Begin(Define("f", Fn("x", b)), Begin(Define("x", Two), Ap("f", e))) :
     b \in Bodies({"x", "f"}) \ {Ap("f", a) : a \in Atoms({"x", "f"})},
     e \in {One, Var("f")}}

Escapes ==
  {CallCC(Fn("k", b)) : b \in Bodies({"k"}) \cup {Begin(Ap("k", One), Two),
     CallCC(Fn("k", Ap("k", Two))), Let("x", Ap("k", One), Two),
     Proc("x", One, Begin(Ap("k", Var("x")), Two))}}
  \cup {Call(Var("call-with-values"),
          << Thunk(CallCC(Fn("k", Call(Var("k"), es)))), Lambda(<< >>, <<"r">>, Var("r")) >>) :
          es \in {<< >>, <<One>>, <<One, Two>>}}
  \cup {Proc("x", CallCC(Fn("k", Var("k"))), b) : b \in Bodies({"x"})}

(* Without what loops by tail calls. *)
MCPrograms ==
  {e \in Living \cup Around \cup Left \cup Nested \cup Rest \cup Results \cup Failing
           \cup Globals \cup Escapes : S!Meaning(e) # S!Datum("loop")}
    \cup Endless

(* A procedure made in a frame that an escape drops is called.             *)
MCEscaping ==
  {Let("f", One,
       Begin(CallCC(Fn("k", Proc("x", One, Begin(SetBang("f", Thunk(Var("x"))),
                                                 Begin(Ap("k", Two), One))))),
             Call(If(Quote("#t"), Lambda(xs, << >>, Begin(Call(Var("f"), << >>),
                                                         Call(Var("f"), << >>))), One),
                  [i \in DOMAIN xs |-> Two]))) :
     xs \in {<<"y">>, <<"y", "z", "u", "v", "w">>}}

(* A procedure is called with its arguments one by one.                    *)
MCCurried ==
  {Begin(Define("f", Fn("x", Fn("y", Fn("z", Var("x"))))),
         Call(Call(Call(Var("f"), <<One>>), <<Two>>), <<e>>)) : e \in {One, Two}}
=============================================================================
