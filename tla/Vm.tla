---------------------------------- MODULE Vm ----------------------------------
(***************************************************************************)
(* The virtual machine (proc.c), with the native procedures that call back *)
(* into it (cont.c): values, call-with-values, call/cc.                    *)
(*                                                                         *)
(* pic is struct pic_state; calls the C functions that wait for a pic_call,*)
(* each of which runs pic_apply anew.  Each step is one instruction; a     *)
(* native procedure runs within the instruction that calls it, up to its   *)
(* return or its own pic_call.  Objects are never collected here, and a    *)
(* continuation that has ended is known by its number (see Unwind).        *)
(***************************************************************************)
EXTENDS Compiler

CONSTANTS
  Programs,    \* expressions to run
  Fuel,        \* bound of Scheme
  StackSize,   \* PIC_STACK_SIZE
  Slack        \* bound: slots a frame may use past the stack's end

ASSUME SizeAssumption == StackSize \in Nat /\ Slack \in Nat /\ Fuel \in Nat

VARIABLES program, pic, calls, result

vars == << program, pic, calls, result >>

S == INSTANCE Scheme

None == [t |-> "none"]
NoIrep == [argc |-> 0, localc |-> 0, capturec |-> 0, varg |-> FALSE, code |-> << >>]

Global(x) == << x, << >> >>

Push(p, v) == [p EXCEPT !.stack[p.sp] = v, !.sp = @ + 1]
Pop(p) == [p EXCEPT !.sp = @ - 1]
Top(p) == p.stack[p.sp - 1]
Skip(p, n) == [p EXCEPT !.ip.pc = @ + n]
ci(p) == p.cis[p.ci]

(* Slots from .. from + Len(vs) - 1 hold vs. *)
Store(p, from, vs) ==
  [p EXCEPT !.stack = [i \in from .. from + Len(vs) - 1 |-> vs[i - from + 1]] @@ @]

Slots(p, from, n) == [i \in 1 .. n |-> p.stack[from + i - 1]]

-----------------------------------------------------------------------------
(* Contexts: the captured variables of a frame, on the stack while it      *)
(* lives (regs), in storage once torn off.                                 *)

Torn == -1

vm_push_cxt(p) ==
  LET frame == ci(p) IN
  IF frame.cxt # 0 THEN p
  ELSE [p EXCEPT !.cis[p.ci].cxt = Len(p.cxts) + 1,
                 !.cxts = Append(@, [up |-> frame.up, regs |-> frame.regs,
                                     regc |-> frame.irep.capturec, storage |-> << >>])]

(* Mutant: a frame leaves its context behind.                              *)
vm_tear_off_Never(p) == p

vm_tear_off(p) ==
  LET id == ci(p).cxt IN
  IF id = 0 \/ p.cxts[id].regs = Torn THEN p
  ELSE LET cxt == p.cxts[id] IN
       [p EXCEPT !.cxts[id].storage = Slots(p, cxt.regs, cxt.regc),
                 !.cxts[id].regs = Torn]

Reg(p, id, i) ==
  LET cxt == p.cxts[id] IN
  IF cxt.regs = Torn THEN cxt.storage[i + 1] ELSE p.stack[cxt.regs + i]

SetReg(p, id, i, v) ==
  IF p.cxts[id].regs = Torn THEN [p EXCEPT !.cxts[id].storage[i + 1] = v]
  ELSE [p EXCEPT !.stack[p.cxts[id].regs + i] = v]

RECURSIVE Up(_, _, _)
Up(p, id, n) == IF n = 0 THEN id ELSE Up(p, p.cxts[id].up, n - 1)

(* A variable of the running frame lies in its context once that is torn   *)
(* off, if the slot is one of the captured.                                *)
InContext(p, a) ==
  LET frame == ci(p) IN
  /\ frame.cxt # 0
  /\ p.cxts[frame.cxt].regs = Torn
  /\ a >= frame.irep.argc + frame.irep.localc

lref(p, a) ==
  IF InContext(p, a)
    THEN Reg(p, ci(p).cxt, a - ci(p).irep.argc - ci(p).irep.localc)
    ELSE p.stack[ci(p).fp + a]

lset(p, a, v) ==
  IF InContext(p, a)
    THEN SetReg(p, ci(p).cxt, a - ci(p).irep.argc - ci(p).irep.localc, v)
    ELSE [p EXCEPT !.stack[ci(p).fp + a] = v]

-----------------------------------------------------------------------------
(* Calls and returns. *)

PushFrame(p, frame) == [p EXCEPT !.ci = @ + 1, !.cis[p.ci + 1] = frame]

(* L_RET: results go to where the procedure was; all but the first lie     *)
(* above sp.                                                               *)
Return(p) ==
  LET frame == ci(p)
      copied == IF frame.retc = 0 THEN 1 ELSE frame.retc
      q == Store(p, frame.fp, Slots(p, p.sp - frame.retc, copied))
  IN Skip([q EXCEPT !.ci = @ - 1, !.sp = frame.fp + 1, !.ip = frame.ip], 1)

Becomes(p) == pic' = p

(* The end of a native procedure: v and what else retc counts is at sp. *)
Finish(p, v) ==
  \E q \in {[p EXCEPT !.stack[p.sp] = v, !.sp = @ + ci(p).retc]} : Becomes(Return(q))

(* The beginning of pic_apply: code to call and stop. *)
pic_apply(p, proc, args) ==
  [Store(p, p.sp, <<proc>> \o args) EXCEPT
     !.sp = @ + 1 + Len(args),
     !.ip = [code |-> << InsnN("CALL", Len(args) + 1), Insn("STOP") >>, pc |-> 1]]

pic_valuesk(p, args) ==
  \E q \in {[Store(p, p.sp, args) EXCEPT !.cis[p.ci].retc = Len(args)]} :
    Finish(q, S!First(args))

(* A tail call of proc by the frame of the native procedure, through code  *)
(* that takes the arguments from above sp.                                 *)
pic_applyk(p, proc, args) ==
  LET q == Store(p, p.sp, <<proc>> \o args)
      frame == [argc |-> 0, retc |-> Len(args), fp |-> p.sp + 1, irep |-> NoIrep,
                ip |-> [code |-> << Insn("NOP"), InsnN("TAILCALL", -1) >>, pc |-> 1],
                cxt |-> 0, regs |-> 0, up |-> 0]
  IN \E all \in {PushFrame([q EXCEPT !.sp = @ + 1], frame)} :
       Finish(all, S!First(args))

(* Values left by the frame that was popped last. *)
pic_receive(p) == LET frame == p.cis[p.ci + 1] IN Slots(p, frame.fp, frame.retc)

(* Mutant: a frame begins after the procedure.                             *)
NewFrame_AfterProc(p, n) ==
  PushFrame(p, [argc |-> n, retc |-> 1, ip |-> p.ip, fp |-> p.sp - n + 1,
                irep |-> NoIrep, cxt |-> 0, regs |-> 0, up |-> 0])

NewFrame(p, n) ==
  PushFrame(p, [argc |-> n, retc |-> 1, ip |-> p.ip, fp |-> p.sp - n,
                irep |-> NoIrep, cxt |-> 0, regs |-> 0, up |-> 0])

(* The slots of a Scheme procedure after its n values: what is left over   *)
(* of them becomes a list, then locals; captured ones its code pushes.     *)
EnterLambda(p, n, proc) ==
  LET irep == proc.irep
      extra == IF irep.varg THEN n - irep.argc ELSE 0
      rest == IF irep.varg THEN << S!List(Slots(p, p.sp - extra, extra)) >> ELSE << >>
      slots == rest \o [i \in 1 .. irep.localc - Len(rest) |-> S!Undef]
      q == Store(NewFrame(p, n), p.sp - extra, slots)
  IN [q EXCEPT !.sp = @ - extra + irep.localc,
               !.cis[q.ci].irep = irep,
               !.cis[q.ci].up = proc.cxt,
               !.cis[q.ci].regs = p.sp - n + irep.argc + irep.localc,
               !.ip = [code |-> irep.code, pc |-> 1]]

ArityOK(irep, n) == n = irep.argc \/ (irep.varg /\ n >= irep.argc)

Goes(p) == Becomes(p) /\ UNCHANGED << program, calls, result >>

Ends(v) == result' = v /\ UNCHANGED << program, pic, calls >>

(* L_CALL with n values, the procedure among them, on top of the stack. *)
InvokeLambda(p, n) ==
  LET proc == p.stack[p.sp - n] IN
  /\ proc.t = "proc" /\ p.sp < StackSize
  /\ IF ArityOK(proc.irep, n) THEN Goes(EnterLambda(p, n, proc))
     ELSE Ends(S!Datum("error"))

InvokeValues(p, n) ==
  /\ p.stack[p.sp - n] = S!Primitive("values") /\ p.sp < StackSize
  /\ \E q \in {NewFrame(p, n)} : pic_valuesk(q, Slots(p, p.sp - n + 1, n - 1))
  /\ UNCHANGED << program, calls, result >>

(* pic_call of another procedure by the native procedure; wait is what C   *)
(* remembers meanwhile.                                                    *)
Waits(p, wait, proc, args) ==
  /\ Becomes(pic_apply(p, proc, args))
  /\ calls' = Append(calls, wait)
  /\ UNCHANGED << program, result >>

(* What pic_get_args takes for an "l", and a native procedure whose        *)
(* arguments are count of these.                                           *)
IsProc(v) == v.t \in {"proc", "native", "cont"}
TakesProcs(p, n, count) ==
  n = count + 1 /\ \A i \in 1 .. count : IsProc(p.stack[p.sp - i])

InvokeCallWithValues(p, n) ==
  /\ p.stack[p.sp - n] = S!Primitive("call-with-values") /\ p.sp < StackSize
  /\ TakesProcs(p, n, 2)
  /\ \E q \in {NewFrame(p, n)} :
       Waits(q, [f |-> "call-with-values", consumer |-> p.stack[p.sp - 1]],
             p.stack[p.sp - 2], << >>)

(* pic_callcc: struct cont, with pic_save_point. *)
InvokeCallCC(p, n) ==
  /\ p.stack[p.sp - n] = S!Primitive("call/cc") /\ p.sp < StackSize
  /\ TakesProcs(p, n, 1)
  /\ \E q \in {[NewFrame(p, n) EXCEPT !.made = @ + 1]} :
       Waits(q, [f |-> "call/cc", id |-> q.made, sp |-> q.sp, ci |-> q.ci],
             p.stack[p.sp - 1], << [t |-> "cont", id |-> q.made] >>)

(* cont_call: to the C function that made the continuation, whose results  *)
(* are the arguments.  Frames are dropped as they are.                     *)
InvokeCont(p, n) ==
  LET proc == p.stack[p.sp - n]
      target == {i \in DOMAIN calls : calls[i].f = "call/cc" /\ calls[i].id = proc.id}
  IN /\ proc.t = "cont" /\ p.sp < StackSize
     /\ IF target = {} THEN Ends(S!Datum("error"))
        ELSE \E i \in target :
          /\ \E q \in {[p EXCEPT !.sp = calls[i].sp, !.ci = calls[i].ci]} :
               pic_valuesk(q, Slots(p, p.sp - n + 1, n - 1))
          /\ calls' = SubSeq(calls, 1, i - 1)
          /\ UNCHANGED << program, result >>

InvokeFails(p, n) ==
  LET proc == p.stack[p.sp - n] IN
  \/ /\ \/ ~IsProc(proc)
        \/ proc = S!Primitive("call-with-values") /\ ~TakesProcs(p, n, 2)
        \/ proc = S!Primitive("call/cc") /\ ~TakesProcs(p, n, 1)
     /\ p.sp < StackSize \/ ~IsProc(proc)
     /\ Ends(S!Datum("error"))
  \/ /\ IsProc(proc) /\ p.sp >= StackSize
     /\ Ends(S!Datum("VM stack overflow"))

Invoke(p, n) ==
  \/ InvokeLambda(p, n)
  \/ InvokeValues(p, n)
  \/ InvokeCallWithValues(p, n)
  \/ InvokeCallCC(p, n)
  \/ InvokeCont(p, n)
  \/ InvokeFails(p, n)

-----------------------------------------------------------------------------
(* The instructions. *)

Code == pic.ip.code[pic.ip.pc]
At(insn) == result = None /\ Code.insn = insn

OP_POP == At("POP") /\ Goes(Skip(Pop(pic), 1))
OP_PUSH == At("PUSH") /\ Goes(Skip(Push(pic, S!Datum(Code.c)), 1))

vm_gref(x) ==
  IF x \in DOMAIN pic.globals /\ pic.globals[x] # S!Invalid
    THEN Goes(Skip(Push(pic, pic.globals[x]), 1))
    ELSE Ends(S!Datum("error"))

OP_GREF == At("GREF") /\ vm_gref(Code.x)

OP_GSET ==
  /\ At("GSET")
  /\ IF Code.x \notin DOMAIN pic.globals THEN Ends(S!Datum("error"))
     ELSE Goes(Skip(Push([Pop(pic) EXCEPT !.globals[Code.x] = Top(pic)], S!Undef), 1))

OP_LREF == At("LREF") /\ Goes(Skip(Push(pic, lref(pic, Code.n)), 1))

OP_LSET ==
  At("LSET") /\ Goes(Skip(Push(lset(Pop(pic), Code.n, Top(pic)), S!Undef), 1))

OP_CREF ==
  /\ At("CREF")
  /\ LET id == Up(pic, ci(pic).up, Code.depth - 1) IN
     Goes(Skip(Push(pic, Reg(pic, id, Code.index)), 1))

OP_CSET ==
  /\ At("CSET")
  /\ LET id == Up(pic, ci(pic).up, Code.depth - 1) IN
     Goes(Skip(Push(SetReg(Pop(pic), id, Code.index, Top(pic)), S!Undef), 1))

OP_JMP == At("JMP") /\ Goes(Skip(pic, Code.n))

OP_JMPIF ==
  At("JMPIF") /\ Goes(Skip(Pop(pic), IF Top(pic) # S!False THEN Code.n ELSE 1))

OP_CALL == At("CALL") /\ Invoke(pic, Code.n)

(* The frame goes before the procedure is called: the values take its      *)
(* place.  -1 is for all that the last frame returned.                     *)
TailCall(p, n) ==
  \E q \in {vm_tear_off(p)} :
  \E r \in {[Store(q, ci(q).fp, Slots(q, q.sp - n, n)) EXCEPT
                !.ci = @ - 1, !.sp = ci(q).fp + n, !.ip = ci(q).ip]} :
    Invoke(r, n)

OP_TAILCALL ==
  /\ At("TAILCALL")
  /\ IF Code.n # -1 THEN TailCall(pic, Code.n)
     ELSE \E retc \in {pic.cis[pic.ci + 1].retc} :
            TailCall([pic EXCEPT !.sp = @ + retc - 1], retc + 1)

OP_RET == At("RET") /\ \E p \in {vm_tear_off(pic)} : Goes(Return(p))

OP_LAMBDA ==
  /\ At("LAMBDA")
  /\ \E p \in {vm_push_cxt(pic)} : Goes(Skip(Push(p, [t |-> "proc", irep |-> Code.irep, cxt |-> ci(p).cxt]), 1))

(* The end of a pic_apply: back to the C function that waits for it. *)
Resume(wait, v) ==
  /\ calls' = SubSeq(calls, 1, Len(calls) - 1)
  /\ \E p \in {Pop(pic)} :
       IF wait.f = "call/cc" THEN Finish(p, v)
       ELSE \E vs \in {pic_receive(p)} : pic_applyk(p, wait.consumer, vs)
  /\ UNCHANGED << program, result >>

OP_STOP ==
  /\ At("STOP")
  /\ IF calls = << >> THEN Ends(S!Shown(Top(pic)))
     ELSE Resume(calls[Len(calls)], Top(pic))

Next ==
  \/ OP_POP \/ OP_PUSH \/ OP_GREF \/ OP_GSET \/ OP_LREF \/ OP_LSET
  \/ OP_CREF \/ OP_CSET \/ OP_JMP \/ OP_JMPIF \/ OP_CALL \/ OP_TAILCALL
  \/ OP_RET \/ OP_LAMBDA \/ OP_STOP
  \/ result # None /\ UNCHANGED vars

(* pic_open, and pic_eval of the program: its code is called. *)
Machine(e) ==
  LET compiled == pic_compile(pic_expand(e))
      natives == [x \in {Global(f) : f \in S!Primitives} |-> S!Primitive(x[1])]
      empty == [stack |-> [i \in 0 .. StackSize + Slack |-> S!Undef],
                sp |-> 0, ci |-> 0, cxts |-> << >>, made |-> 0,
                cis |-> [i \in 1 .. StackSize |-> None],
                ip |-> [code |-> << >>, pc |-> 1],
                globals |-> [x \in compiled.globals |-> S!Invalid] @@ natives]
  IN pic_apply(empty, [t |-> "proc", irep |-> compiled.irep, cxt |-> 0], << >>)

Init ==
  /\ program \in Programs
  /\ pic = Machine(program)     \* if the compiler gets so far
  /\ calls = << >>
  /\ result = IF HeadsAreSymbols(pic_expand(program)) THEN None
              ELSE S!Datum("assertion")

Spec == Init /\ [][Next]_vars /\ WF_vars(Next)

-----------------------------------------------------------------------------
(* A program gives what it means; one that recurs without end fills the    *)
(* stack (proc.c:508).                                                     *)
RunsAsMeant ==
  result \notin {None, S!Datum("assertion")} =>
    LET meaning == S!Meaning(program) IN
    result = IF meaning = S!Datum("loop") THEN S!Datum("VM stack overflow")
             ELSE meaning

(* object.h:139 asserts, of what the compiler takes for a symbol, that it  *)
(* is one; it never fails.                                                 *)
NoAssertionFails == result # S!Datum("assertion")

(* A context that is not torn off has its variables in the frame it was    *)
(* made for, which is still there (proc.c:576, 602): no procedure reads    *)
(* slots of another frame.                                                 *)
ContextsOnFrames ==
  \A id \in DOMAIN pic.cxts : pic.cxts[id].regs # Torn =>
    \E i \in 1 .. pic.ci :
      pic.cis[i].cxt = id /\ pic.cis[i].regs = pic.cxts[id].regs

(* Each frame has a slot below the next, so that the check of the value    *)
(* stack (proc.c:508) covers the stack of frames, which has as many and    *)
(* is not checked.                                                         *)
FramesHaveSlots ==
  /\ \A i \in 1 .. pic.ci - 1 : pic.cis[i].fp < pic.cis[i + 1].fp
  /\ pic.ci > 0 => pic.cis[pic.ci].fp < pic.sp
  /\ pic.ci <= StackSize

(* The machine comes to an end: each program of the run has a meaning or   *)
(* overflows.                                                              *)
Halts == <>(result # None)
=============================================================================
