-------------------------------- MODULE Unwind --------------------------------
(***************************************************************************)
(* Escape continuations, dynamic-wind, exception handlers and pic_try:     *)
(* cont.c, error.c and var.c.                                              *)
(*                                                                         *)
(* stack is the C stack: one frame for every pic_callcc, pic_dynamic_wind, *)
(* pic_dynamic_bind, pic_try and pic_load_point entered and not left.  The *)
(* program runs on top of it, and may there do any of these again, in a    *)
(* thunk as in a handler.  A continuation is a struct cont in C memory,    *)
(* which pic_alloca ties to an object of the arena; the procedure that the *)
(* program calls holds its bare address.                                   *)
(*                                                                         *)
(* Abstracted: the VM stack and the values passed to a continuation.  In a *)
(* list of handlers User is any procedure of the program, and a token with *)
(* an address is the native handler of a pic_try.                          *)
(***************************************************************************)
EXTENDS Integers, Sequences, FiniteSets, SequencesExt

CONSTANTS
  Addr,       \* addresses malloc can give to a struct cont
  Nil,        \* NULL
  Errors,     \* objects raised
  MaxStack,   \* bound: C frames
  MaxExc      \* bound: handlers installed at a time

ASSUME NilAssumption ==
  /\ Nil \notin Addr /\ Nil \notin Errors
  /\ Nil \notin Seq([addr : Addr \cup {Nil}, live : BOOLEAN])
ASSUME BoundAssumption == MaxStack \in Nat /\ MaxExc \in Nat

VARIABLES
  stack,   \* the C frames
  cp,      \* pic->cp: the checkpoints from the root block to it
  exc,     \* value of the parameter current-exception-handlers
  cc,      \* pic->cc
  cont,    \* the struct cont at each address
  arena,   \* pic->arena: the owners on it, by address
  err,     \* pic->err
  held,    \* the continuations the program has got hold of
  panic,   \* no exception handler was left
  lost     \* history: an escape was cut short (see CutsShort)

control == << stack, cp, exc, cc, held >>
vars == << stack, cp, exc, cc, cont, arena, err, held, panic, lost >>

User == [addr |-> Nil, live |-> TRUE]

Top == stack[Len(stack)]
TopIs(kind) == stack # << >> /\ Top.kind = kind
Pop == SubSeq(stack, 1, Len(stack) - 1)
IsPoint(f) == stack[f].kind \in {"callcc", "try"}
Below(f) == IF f = 1 THEN 0 ELSE stack[f - 1].ai

(* The program's code runs on top of any frame but these two. *)
CallsNative == TopIs("bind") /\ Top.handler # User
Running == ~panic /\ ~TopIs("load") /\ ~CallsNative

Push(frame) ==
  /\ Len(stack) < MaxStack
  /\ stack' = Append(stack, frame)

(* A checkpoint made by dynamic-wind has the program's thunks; the thunks  *)
(* of any other set current-exception-handlers, to new and back to old.    *)
Checkpoint(in, out) == [frame |-> Len(stack) + 1, new |-> in, old |-> out]
UserCp(f) == [frame |-> f, new |-> Nil, old |-> Nil]

-----------------------------------------------------------------------------
(* struct cont and the chain of them from pic->cc. *)

Free == [cp |-> << >>, arena |-> 0, prev |-> Nil, exc |-> << >>]

(* pic->arena_idx goes back to n.  Any later allocation may collect, and   *)
(* free the continuations whose owners were above.                         *)
Leave(n) ==
  /\ arena' = SubSeq(arena, 1, n)
  /\ cont' = [a \in Addr |-> IF a \in ToSet(arena') THEN cont[a] ELSE Free]

Link == LET c[k \in Nat] ==
              IF k = 0 THEN cc
              ELSE IF c[k - 1] = Nil THEN Nil ELSE cont[c[k - 1]].prev
        IN c
Alive(a) == \E k \in 0 .. Cardinality(Addr) : Link[k] = a

(* pic_alloca_cont and pic_save_point; exc is not saved in the code.       *)
SavePoint(a) ==
  /\ a \notin ToSet(arena)
  /\ arena' = Append(arena, a)
  /\ cont' = [cont EXCEPT ![a] =
                [cp |-> cp, arena |-> Len(arena'), prev |-> cc, exc |-> exc]]
  /\ cc' = a

pic_exit_point == cc' = cont[cc].prev

(* The continuations of the frames from f on become dead. *)
Activations(f) ==
  {stack[i].addr : i \in {j \in f .. Len(stack) : IsPoint(j)}}
Expire(f) ==
  held' = {IF t.addr \in Activations(f) THEN [t EXCEPT !.live = FALSE] ELSE t :
             t \in held}

pic_callcc(a) ==
  /\ Running
  /\ SavePoint(a)
  /\ Push([kind |-> "callcc", addr |-> a, ai |-> Len(arena')])
  /\ held' = held \cup {[addr |-> a, live |-> TRUE]}
  /\ UNCHANGED << cp, exc, err, panic, lost >>

CallccReturn ==
  /\ Running /\ TopIs("callcc")
  /\ pic_exit_point
  /\ stack' = Pop
  /\ Leave(Below(Len(stack)))
  /\ Expire(Len(stack))
  /\ UNCHANGED << cp, exc, err, panic, lost >>

-----------------------------------------------------------------------------
(* pic_dynamic_wind, called by the program: in, thunk and out are its own  *)
(* procedures.                                                             *)

pic_dynamic_wind ==
  /\ Running
  /\ Push([kind |-> "wind", stage |-> "in", ai |-> Len(arena)])
  /\ UNCHANGED << cp, exc, cc, cont, arena, err, held, panic, lost >>

Winding(stage) == Running /\ TopIs("wind") /\ Top.stage = stage

EnterThunk ==
  /\ Winding("in")
  /\ cp' = Append(cp, UserCp(Len(stack)))
  /\ stack' = [stack EXCEPT ![Len(stack)].stage = "thunk"]
  /\ UNCHANGED << exc, cc, cont, arena, err, held, panic, lost >>

(* Mutant: out is called with the checkpoint still in place.               *)
LeaveThunk_KeepsCp ==
  /\ Winding("thunk")
  /\ stack' = [stack EXCEPT ![Len(stack)].stage = "out"]
  /\ UNCHANGED << cp, exc, cc, cont, arena, err, held, panic, lost >>

(* pic->cp goes back before out is called. *)
LeaveThunk ==
  /\ Winding("thunk")
  /\ cp' = Front(cp)
  /\ stack' = [stack EXCEPT ![Len(stack)].stage = "out"]
  /\ UNCHANGED << exc, cc, cont, arena, err, held, panic, lost >>

WindReturn ==
  /\ Winding("out")
  /\ stack' = Pop
  /\ Leave(Below(Len(stack)))
  /\ UNCHANGED << cp, exc, cc, err, held, panic, lost >>

-----------------------------------------------------------------------------
(* pic_dynamic_bind of current-exception-handlers: a dynamic-wind whose in *)
(* and out are dynamic_set, which the program cannot interrupt.  then says *)
(* what follows when the handler, or thunk, returns.                       *)

Bind(handlers, handler, e, then) ==
  /\ Push([kind |-> "bind", handler |-> handler, error |-> IF handler = User THEN Nil ELSE e,
           then |-> then,
           ai |-> Len(arena)])
  /\ cp' = Append(cp, Checkpoint(handlers, exc))
  /\ exc' = handlers

with_exception_handler ==
  /\ Running /\ Len(exc) < MaxExc
  /\ Bind(<< User >> \o exc, User, Nil, "return")
  /\ UNCHANGED << cc, cont, arena, err, held, panic, lost >>

(* pic_raise ("raise": the handler must not return, and "handler returned" *)
(* is raised in its place) and pic_raise_continuable ("return").           *)
Raise(e, then) ==
  IF exc = << >>
    THEN panic' = TRUE /\ UNCHANGED << stack, cp, exc >>
    ELSE Bind(Tail(exc), Head(exc), e, then) /\ UNCHANGED panic

pic_raise ==
  /\ Running
  /\ \E e \in Errors, then \in {"raise", "return"} : Raise(e, then)
  /\ UNCHANGED << cc, cont, arena, err, held, lost >>

BindReturn ==
  /\ Running /\ TopIs("bind") /\ Top.then = "return"
  /\ stack' = Pop
  /\ cp' = Front(cp) /\ exc' = Last(cp).old
  /\ Leave(Below(Len(stack)))
  /\ UNCHANGED << cc, err, held, panic, lost >>

-----------------------------------------------------------------------------
(* pic_try: call/cc, with-exception-handler and dynamic-wind in one.       *)

pic_start_try(a) ==
  /\ Running /\ Len(exc) < MaxExc
  /\ SavePoint(a)
  /\ Push([kind |-> "try", addr |-> a, ai |-> Len(arena')])
  /\ exc' = << [addr |-> a, live |-> TRUE] >> \o exc
  /\ cp' = Append(cp, Checkpoint(exc', exc))
  /\ UNCHANGED << err, held, panic, lost >>

(* Mutant: out is not called.                                              *)
pic_end_try_NoOut ==
  /\ Running /\ TopIs("try")
  /\ cp' = Front(cp)
  /\ pic_exit_point
  /\ stack' = Pop
  /\ Expire(Len(stack))
  /\ UNCHANGED << exc, cont, arena, err, panic, lost >>

pic_end_try ==
  /\ Running /\ TopIs("try")
  /\ cp' = Front(cp) /\ exc' = Last(cp).old
  /\ pic_exit_point
  /\ stack' = Pop
  /\ Expire(Len(stack))
  /\ UNCHANGED << cont, arena, err, panic, lost >>

-----------------------------------------------------------------------------
(* Calling a continuation. *)

(* Mutant: out of every checkpoint up to the root block, and back in.      *)
pic_wind_FromRoot(here, there) ==
  [i \in 1 .. Len(here) |-> << "out", here[Len(here) + 1 - i] >>]
    \o [i \in 1 .. Len(there) |-> << "in", there[i] >>]

(* The calls pic_wind makes: out of every checkpoint here and not there,   *)
(* innermost first, then in of every one there and not here.               *)
pic_wind(here, there) ==
  LET n == Len(LongestCommonPrefix({here, there})) IN
  [i \in 1 .. Len(here) - n |-> << "out", here[Len(here) + 1 - i] >>]
    \o [i \in 1 .. Len(there) - n |-> << "in", there[n + i] >>]

(* cont_call: if the continuation is in the chain go to it by way of       *)
(* pic_load_point, else raise an error.                                    *)
cont_call(t, e) ==
  IF Alive(t.addr)
    THEN /\ Push([kind |-> "load", token |-> t, error |-> e,
                  calls |-> pic_wind(cp, cont[t.addr].cp), ai |-> Len(arena)])
         /\ UNCHANGED << cp, exc, panic >>
    ELSE \E dead \in Errors : Raise(dead, "raise")

CallContinuation(t) ==
  /\ Running
  /\ cont_call(t, Nil)
  /\ UNCHANGED << cc, cont, arena, err, held, lost >>

native_exception_handler ==
  /\ ~panic /\ CallsNative
  /\ err' = Top.error
  /\ cont_call(Top.handler, Top.error)
  /\ UNCHANGED << cc, cont, arena, held, lost >>

Loading == ~panic /\ TopIs("load")
NextCall == Head(Top.calls)
Rest == [stack EXCEPT ![Len(stack)].calls = Tail(@)]

CallDynamicSet ==
  /\ Loading /\ Top.calls # << >> /\ NextCall[2].old # Nil
  /\ exc' = IF NextCall[1] = "out" THEN NextCall[2].old ELSE NextCall[2].new
  /\ stack' = Rest
  /\ UNCHANGED << cp, cc, cont, arena, err, held, panic, lost >>

(* pic->cp stays where it was while a thunk runs. *)
CallThunk ==
  /\ Loading /\ Top.calls # << >> /\ NextCall[2].old = Nil
  /\ Len(stack) < MaxStack
  /\ stack' = Append(Rest, [kind |-> "thunk", ai |-> Len(arena)])
  /\ UNCHANGED << cp, exc, cc, cont, arena, err, held, panic, lost >>

ThunkReturn ==
  /\ Running /\ TopIs("thunk")
  /\ stack' = Pop
  /\ Leave(Below(Len(stack)))
  /\ UNCHANGED << cp, exc, cc, err, held, panic, lost >>

AboutToJump == Loading /\ Top.calls = << >>
Target ==
  CHOOSE f \in 1 .. Len(stack) : IsPoint(f) /\ stack[f].addr = Top.token.addr

(* An out thunk that an escape runs escapes itself, to a continuation that *)
(* the first escape was on its way out of: that one is never finished.     *)
CutsShort ==
  \E g \in Target + 1 .. Len(stack) - 1, f \in 1 .. Target - 1 :
    stack[g].kind = "load" /\ IsPoint(f) /\ stack[f].addr = stack[g].token.addr

(* Mutant: pic->cc is left alone.                                          *)
Jump_KeepsChain ==
  /\ AboutToJump
  /\ LET to == cont[Top.token.addr] IN
       /\ cp' = to.cp
       /\ Leave(IF stack[Target].kind = "try" THEN to.arena ELSE Below(Target))
  /\ Expire(Target)
  /\ stack' = SubSeq(stack, 1, Target - 1)
  /\ lost' = (lost \/ CutsShort)
  /\ UNCHANGED << exc, cc, err, panic >>

(* The end of pic_load_point, and longjmp.  pic_callcc returns; what       *)
(* follows a pic_catch goes on with the continuation still on the arena.   *)
Jump ==
  /\ AboutToJump
  /\ LET to == cont[Top.token.addr] IN
       /\ cp' = to.cp /\ cc' = to.prev
       /\ Leave(IF stack[Target].kind = "try" THEN to.arena ELSE Below(Target))
  /\ Expire(Target)
  /\ stack' = SubSeq(stack, 1, Target - 1)
  /\ lost' = (lost \/ CutsShort)
  /\ UNCHANGED << exc, err, panic >>

-----------------------------------------------------------------------------
(* The interpreter goes back to its arena after each call. *)

(* Mutant: the arena is emptied.                                           *)
pic_leave_All ==
  /\ Running /\ arena # << >>
  /\ Leave(0)
  /\ UNCHANGED << control, err, panic, lost >>

pic_leave ==
  /\ Running /\ Len(arena) > Below(Len(stack) + 1)
  /\ Leave(Below(Len(stack) + 1))
  /\ UNCHANGED << control, err, panic, lost >>

Init ==
  /\ stack = << >> /\ cp = << >> /\ exc = << >>
  /\ cc = Nil
  /\ cont = [a \in Addr |-> [cp |-> << >>, arena |-> 0, prev |-> Nil, exc |-> << >>]]
  /\ arena = << >>
  /\ err = Nil /\ held = {} /\ panic = FALSE /\ lost = FALSE

Next ==
  \/ \E a \in Addr : pic_callcc(a) \/ pic_start_try(a)
  \/ CallccReturn \/ pic_end_try
  \/ pic_dynamic_wind \/ EnterThunk \/ LeaveThunk \/ WindReturn
  \/ with_exception_handler \/ pic_raise \/ BindReturn
  \/ \E t \in held : CallContinuation(t)
  \/ native_exception_handler
  \/ CallDynamicSet \/ CallThunk \/ ThunkReturn \/ Jump
  \/ pic_leave

Spec == Init /\ [][Next]_vars

-----------------------------------------------------------------------------
Inside(f) ==
  \/ stack[f].kind \in {"try", "bind"}
  \/ stack[f].kind = "wind" /\ stack[f].stage = "thunk"

(* pic->cp is the innermost extent the C stack is in, after any number of  *)
(* returns, errors and escapes (pic_load_point, pic_end_try and            *)
(* pic_dynamic_wind each put it back).                                     *)
CpMatchesStack ==
  /\ \A i, j \in 1 .. Len(cp) : i < j => cp[i].frame < cp[j].frame
  /\ {cp[i].frame : i \in 1 .. Len(cp)} = {f \in 1 .. Len(stack) : Inside(f)}

(* The chain from pic->cc holds the continuations whose setjmp is still on *)
(* the C stack, innermost first: longjmp never lands in a frame that has   *)
(* returned (the walk of cont_call, 115-123).                              *)
InnermostPoint(n, a) ==
  \/ a = Nil /\ \A f \in 1 .. n : ~ IsPoint(f)
  \/ \E f \in 1 .. n : /\ IsPoint(f) /\ stack[f].addr = a
                       /\ \A g \in f + 1 .. n : ~ IsPoint(g)

ChainMatchesStack ==
  /\ InnermostPoint(Len(stack), cc)
  /\ \A f \in 1 .. Len(stack) :
       IsPoint(f) => InnermostPoint(f - 1, cont[stack[f].addr].prev)

(* When a continuation is entered the handlers are those of its own        *)
(* extent, however the escape got there.                                   *)
HandlersRestored == AboutToJump => exc = cont[Top.token.addr].exc

(* The native handlers installed belong to pic_trys that are still on the  *)
(* stack: an error is never sent to a point that is gone.                  *)
HandlersAlive ==
  \A i \in 1 .. Len(exc) :
    exc[i] # User =>
      \E f \in 1 .. Len(stack) : stack[f].kind = "try" /\ stack[f].addr = exc[i].addr

(* Handlers follow control: both of these, across returns, errors inside   *)
(* handlers and escapes through several bindings (error.c:179), as long as *)
(* no escape is cut short.  pic_load_point leaves pic->cp where it was     *)
(* until the last out has returned, so the escape that cuts it short does  *)
(* not know how far the handlers have been put back already.               *)
HandlersFollow ==
  ~ lost => /\ AboutToJump /\ ~ CutsShort => HandlersRestored
            /\ HandlersAlive

(* Only escapes are supported (README.md, "call/cc"): going to a live      *)
(* continuation never enters an extent again.                              *)
OnlyUnwinds ==
  \A f \in 1 .. Len(stack) :
    stack[f].kind = "load" =>
      \A i \in 1 .. Len(stack[f].calls) : stack[f].calls[i][1] = "out"

(* The memory of every continuation in the chain is owned by an object on  *)
(* the arena: a collection cannot free it (pic_alloca, pic_leave).         *)
ContsProtected == Activations(1) \subseteq ToSet(arena)

(* "check if continuation is alive" (cont.c:115): the continuation that is *)
(* entered is one whose extent has not been left.                          *)
OnlyLiveEntered ==
  \A f \in 1 .. Len(stack) : stack[f].kind = "load" => stack[f].token.live

(* "raised error object" (state.c:239): what a pic_catch finds in pic->err *)
(* is the error that was raised to it.                                     *)
CatchSeesItsError == AboutToJump /\ Top.error # Nil => err = Top.error
=============================================================================
