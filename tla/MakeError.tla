------------------------------- MODULE MakeError -------------------------------
(***************************************************************************)
(* The heap of Gc with pic_make_error, the one constructor that allocates  *)
(* between pic_obj_alloc and the last of its stores: e->msg is a string    *)
(* made when msg, irrs and stack still hold what the memory held before,   *)
(* and e is on the arena.  Uninitialised fields are any addresses at all.  *)
(***************************************************************************)
EXTENDS Gc

VARIABLE making  \* the error whose fields are not all stored, or Null

errorVars == << vars, making >>

ErrorInit == Init /\ making = Null

Ask(t, n) == req' = [tt |-> t, str |-> Null, name |-> n] /\ phase' = "alloc"

RequestError ==
  /\ Running /\ making = Null
  /\ Len(arena) + 1 < MaxArena
  /\ Ask("ERROR", Null)
  /\ UNCHANGED << heap, tt, mutVars, gcEnable, stage, gcVars, making >>

(* The error is allocated and its type stored; its message is asked for.   *)
GrantError(e) ==
  /\ phase = "alloc" /\ req.tt = "ERROR"
  /\ e \in heap \ Allocated
  /\ tt' = [tt EXCEPT ![e] = "ERROR"]
  /\ \E msg, irrs, stack \in Obj \cup {Null} :
       slot' = [slot EXCEPT ![e] = [NullFields EXCEPT
                  !["msg"] = msg, !["irrs"] = irrs, !["stack"] = stack]]
  /\ gc_protect(e)
  /\ making' = e
  /\ stage' = 0
  /\ \E n \in Names : Ask("STRING", n)
  /\ UNCHANGED << heap, name, weak, oblist, root, gcEnable, gcVars >>

(* The message is there, and the other fields are stored. *)
FillError(s) ==
  /\ phase = "alloc" /\ making # Null
  /\ s \in heap \ Allocated
  /\ tt' = [tt EXCEPT ![s] = "STRING"]
  /\ name' = [name EXCEPT ![s] = req.name]
  /\ slot' = [slot EXCEPT ![making] = [NullFields EXCEPT !["msg"] = s],
                          ![s] = NullFields]
  /\ gc_protect(s)
  /\ making' = Null
  /\ phase' = "run" /\ req' = NoReq /\ stage' = 0
  /\ UNCHANGED << heap, weak, oblist, root, gcEnable, gcVars >>

Alloc ==
  /\ phase = "alloc" /\ making = Null /\ req.tt # "ERROR"
  /\ \E o \in Obj : Grant(o)
  /\ UNCHANGED making

ErrorNext ==
  \/ RequestError
  \/ \E o \in Obj : GrantError(o) \/ FillError(o)
  \/ Alloc
  \/ (Mutate \/ GcDisabled \/ Grow \/ pic_panic \/ Collect) /\ UNCHANGED making

ErrorSpec == ErrorInit /\ [][ErrorNext]_errorVars

(* "default: PIC_UNREACHABLE()" (gc.c:406): gc_mark_object is never given  *)
(* the address of something that is not an object.                         *)
MarksObjects == mark \subseteq Allocated
=============================================================================
