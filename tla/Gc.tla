---------------------------------- MODULE Gc ----------------------------------
(***************************************************************************)
(* The object heap of picrin: gc.c with the structures of object.h, the    *)
(* weak tables of weak.c and the symbol table of symbol.c.                 *)
(*                                                                         *)
(* The mutator (C code and the VM) reads and writes objects it can reach,  *)
(* keeps what it is using on the arena, and asks for new objects.  An      *)
(* allocation that finds no room runs the collector: the mark phase        *)
(* follows the roots and then passes over the weak tables until no entry   *)
(* with a live key has an unmarked value; the sweep phase drops weak       *)
(* entries and symbol table entries of dead keys and frees every object    *)
(* that is not marked.                                                     *)
(*                                                                         *)
(* Abstracted: an object is an address of Obj with a type and one slot for *)
(* each field of its struct (an array field, as the elements of a vector,  *)
(* is one slot); the order in which gc_mark_object recurses, in which the  *)
(* weak chain is walked and in which pages are swept is left open.         *)
(***************************************************************************)
EXTENDS Naturals, Sequences, FiniteSets

CONSTANTS
  Obj,        \* addresses an object can have
  Null,       \* the null pointer, and every immediate value
  Free,       \* the type of an address that holds no object
  NoReq,      \* no allocation is waiting
  Roots,      \* the roots other than the arena (411-472 of gc.c)
  Names,      \* contents of strings
  Types,      \* the object types a run uses
  Pages,      \* the sets of addresses heap_morecore can add
  MaxArena,   \* bound: the arena, which grows on demand in the code
  MaxWeak     \* bound: entries in the weak tables together

(* The pointer fields of each struct of object.h. *)
FieldsOf ==
  [ PAIR   |-> {"car", "cdr"},          CXT    |-> {"regs", "up"},
    FUNC   |-> {"locals"},              IREP   |-> {"cxt"},
    ERROR  |-> {"type", "msg", "irrs", "stack"},
    VECTOR |-> {"data"},                ID     |-> {"id", "env"},
    ENV    |-> {"keys", "vals", "up"},  DATA   |-> {"data"},
    DICT   |-> {"keys", "vals"},        RECORD |-> {"type", "datum"},
    SYMBOL |-> {"str"},                 CP     |-> {"prev", "in", "out"},
    STRING |-> {}, BLOB |-> {}, PORT |-> {}, WEAK |-> {} ]

(* Mutant: a closure's context is not followed. *)
MarkedFields_NoContext(t) == IF t = "IREP" THEN {} ELSE FieldsOf[t]

(* The fields the switch of gc_mark_object follows.  (ENV has a further    *)
(* pointer, lib, which it does not follow: the library table roots the     *)
(* same string.)                                                           *)
MarkedFields(t) ==
  CASE t = "PAIR"   -> {"car", "cdr"}
    [] t = "CXT"    -> {"regs", "up"}
    [] t = "FUNC"   -> {"locals"}
    [] t = "IREP"   -> {"cxt"}
    [] t = "ERROR"  -> {"type", "msg", "irrs", "stack"}
    [] t = "VECTOR" -> {"data"}
    [] t = "ID"     -> {"id", "env"}
    [] t = "ENV"    -> {"keys", "vals", "up"}
    [] t = "DATA"   -> {"data"}
    [] t = "DICT"   -> {"keys", "vals"}
    [] t = "RECORD" -> {"type", "datum"}
    [] t = "SYMBOL" -> {"str"}
    [] t = "CP"     -> {"prev", "in", "out"}
    [] OTHER        -> {}

Field == UNION {FieldsOf[t] : t \in Types}

ASSUME NullAssumption == Null \notin Obj /\ Null \notin Names
ASSUME TypesAssumption == Types \subseteq DOMAIN FieldsOf /\ Free \notin Types
ASSUME PagesAssumption ==
  Pages \subseteq SUBSET Obj /\ \A p, q \in Pages : p = q \/ p \cap q = {}
ASSUME BoundAssumption == MaxArena \in Nat /\ MaxWeak \in Nat
ASSUME ReqAssumption ==
  NoReq \notin [tt: Types, str: Obj \cup {Null}, name: Names \cup {Null}]

VARIABLES
  heap,      \* addresses of the pages obtained so far
  tt,        \* type of the object at an address, or Free
  slot,      \* contents of the fields of an object
  name,      \* contents of a string object
  weak,      \* entries <<table, key, value>> of the weak tables
  oblist,    \* entries <<string, symbol>> of the symbol table
  root,      \* what each root holds
  arena,     \* pic->arena[0 .. arena_idx-1]
  gcEnable,  \* pic->gc_enable
  req,       \* the allocation in progress
  stage,     \* its attempts so far: 0, 1 (collected), 2 (grown)
  phase,     \* "run", "alloc", "mark", "clear", "sweep" or "panic"
  mark,      \* BLACK objects
  gray,      \* BLACK objects whose fields are still to be visited
  weaks,     \* heap->weaks: the chain of marked weak tables
  todo,      \* entries left to look at in this pass over the chain
  again,     \* j > 0: the last pass marked something
  unswept    \* pages the sweep has not come to yet

mutVars == << slot, name, weak, oblist, root, arena >>
gcVars  == << mark, gray, weaks, todo, again, unswept >>
vars == << heap, tt, slot, name, weak, oblist, root, arena, gcEnable,
           req, stage, phase, mark, gray, weaks, todo, again, unswept >>

Allocated == {o \in Obj : tt[o] # Free}

(***************************************************************************)
(* What the program can still reach: the least set that holds the roots    *)
(* and is closed under fields and under weak entries whose table and key   *)
(* it holds.                                                               *)
(***************************************************************************)
Arena == {arena[i] : i \in DOMAIN arena}
RootSet == Arena \cup ({root[r] : r \in Roots} \ {Null})

Closed(S) ==
  /\ RootSet \subseteq S
  /\ \A o \in S : \A f \in Field : slot[o][f] \in S \cup {Null}
  /\ \A e \in weak : e[1] \in S /\ e[2] \in S => e[3] \in S

Reachable == {o \in Obj : \A S \in SUBSET Obj : Closed(S) => o \in S}

-----------------------------------------------------------------------------
NullFields == [f \in Field |-> Null]

(* pic_open: no page yet, and gc_enable is false until boot is over. *)
Init ==
  /\ heap = {}
  /\ tt = [o \in Obj |-> Free]
  /\ slot = [o \in Obj |-> NullFields]
  /\ name = [o \in Obj |-> Null]
  /\ weak = {} /\ oblist = {}
  /\ root = [r \in Roots |-> Null]
  /\ arena = << >>
  /\ gcEnable = FALSE
  /\ req = NoReq /\ stage = 0 /\ phase = "run"
  /\ mark = {} /\ gray = {} /\ weaks = {}
  /\ todo = {} /\ again = FALSE /\ unswept = {}

-----------------------------------------------------------------------------
(* The mutator. *)

Running == phase = "run"

EnableGc ==
  /\ Running /\ ~gcEnable
  /\ gcEnable' = TRUE
  /\ UNCHANGED << heap, tt, mutVars, req, stage, phase, gcVars >>

(* set-car!, vector-set!, a global definition's weak value...: any store   *)
(* into a field.  The string of a symbol is never replaced.                *)
SetField(o, f, v) ==
  /\ Running
  /\ f \in FieldsOf[tt[o]] \ {"str"}
  /\ slot' = [slot EXCEPT ![o][f] = v]
  /\ UNCHANGED << heap, tt, name, weak, oblist, root, arena, gcEnable,
                  req, stage, phase, gcVars >>

SetRoot(r, v) ==
  /\ Running
  /\ root' = [root EXCEPT ![r] = v]
  /\ UNCHANGED << heap, tt, slot, name, weak, oblist, arena, gcEnable,
                  req, stage, phase, gcVars >>

gc_protect(o) == arena' = Append(arena, o)

pic_protect(o) ==
  /\ Running /\ Len(arena) < MaxArena
  /\ gc_protect(o)
  /\ UNCHANGED << heap, tt, slot, name, weak, oblist, root, gcEnable,
                  req, stage, phase, gcVars >>

(* pic_leave returns to an index pic_enter gave out earlier. *)
pic_leave(n) ==
  /\ Running
  /\ arena' = SubSeq(arena, 1, n)
  /\ UNCHANGED << heap, tt, slot, name, weak, oblist, root, gcEnable,
                  req, stage, phase, gcVars >>

pic_weak_set(w, k, v) ==
  /\ Running
  /\ tt[w] = "WEAK"
  /\ weak' = {e \in weak : << e[1], e[2] >> # << w, k >>}
               \cup {<< w, k, v >>}
  /\ Cardinality(weak') <= MaxWeak
  /\ UNCHANGED << heap, tt, slot, name, oblist, root, arena, gcEnable,
                  req, stage, phase, gcVars >>

pic_weak_del(w, k) ==
  /\ Running
  /\ \E v \in Obj : /\ << w, k, v >> \in weak
                    /\ weak' = weak \ {<< w, k, v >>}
  /\ UNCHANGED << heap, tt, slot, name, oblist, root, arena, gcEnable,
                  req, stage, phase, gcVars >>

(* pic_intern finds the name: the symbol is protected and returned. *)
InternOld(s, sym) ==
  /\ Running /\ Len(arena) < MaxArena
  /\ tt[s] = "STRING"
  /\ \E e \in oblist : name[e[1]] = name[s] /\ e[2] = sym
  /\ gc_protect(sym)
  /\ UNCHANGED << heap, tt, slot, name, weak, oblist, root, gcEnable,
                  req, stage, phase, gcVars >>

(* Mutant: the table is not searched first. *)
InternNew_NoLookup(s) ==
  /\ Running /\ Len(arena) < MaxArena
  /\ tt[s] = "STRING"
  /\ oblist' = oblist \cup {<< s, Null >>}
  /\ req' = [tt |-> "SYMBOL", str |-> s, name |-> Null]
  /\ phase' = "alloc"
  /\ UNCHANGED << heap, tt, slot, name, weak, root, arena, gcEnable,
                  stage, gcVars >>

(* pic_intern does not find it: a dummy entry goes in the table before the *)
(* symbol is allocated, so the collector can run with the dummy in place.  *)
InternNew(s) ==
  /\ Running /\ Len(arena) < MaxArena
  /\ "SYMBOL" \in Types
  /\ tt[s] = "STRING"
  /\ \A e \in oblist : name[e[1]] # name[s]
  /\ oblist' = oblist \cup {<< s, Null >>}
  /\ req' = [tt |-> "SYMBOL", str |-> s, name |-> Null]
  /\ phase' = "alloc"
  /\ UNCHANGED << heap, tt, slot, name, weak, root, arena, gcEnable,
                  stage, gcVars >>

(* Any other constructor calls pic_obj_alloc and fills the fields before    *)
(* anything else can allocate.  Only pic_make_error does not: see MakeError. *)
Request(t, n) ==
  /\ Running /\ Len(arena) < MaxArena
  /\ t \in Types \ {"SYMBOL", "ERROR"} /\ (t = "STRING" <=> n # Null)
  /\ req' = [tt |-> t, str |-> Null, name |-> n]
  /\ phase' = "alloc"
  /\ UNCHANGED << heap, tt, mutVars, gcEnable, stage, gcVars >>

-----------------------------------------------------------------------------
(* pic_obj_alloc: allocate, else collect, else grow, else panic.  An       *)
(* attempt may fail with some address free: sizes differ, and a free block *)
(* may be too small.                                                       *)

NewFields == [NullFields EXCEPT !["str"] = req.str]

Grant(o) ==
  /\ phase = "alloc"
  /\ o \in heap \ Allocated
  /\ tt' = [tt EXCEPT ![o] = req.tt]
  /\ name' = [name EXCEPT ![o] = req.name]
  /\ slot' = [slot EXCEPT ![o] = IF req.tt = "SYMBOL" THEN NewFields
                                                      ELSE NullFields]
  /\ oblist' = IF req.tt = "SYMBOL"
                 THEN (oblist \ {<< req.str, Null >>}) \cup {<< req.str, o >>}
                 ELSE oblist
  /\ gc_protect(o)
  /\ phase' = "run" /\ req' = NoReq /\ stage' = 0
  /\ UNCHANGED << heap, weak, root, gcEnable, gcVars >>

(* pic_gc returns at once when gc_enable is false. *)
GcDisabled ==
  /\ phase = "alloc" /\ stage = 0 /\ ~gcEnable
  /\ stage' = 1
  /\ UNCHANGED << heap, tt, mutVars, gcEnable, req, phase, gcVars >>

heap_morecore == \E p \in Pages : p \cap heap = {} /\ heap' = heap \cup p

Grow ==
  /\ phase = "alloc" /\ stage = 1
  /\ heap_morecore
  /\ stage' = 2
  /\ UNCHANGED << tt, mutVars, gcEnable, req, phase, gcVars >>

pic_panic ==
  /\ phase = "alloc" /\ stage > 0
  /\ stage = 1 => \A p \in Pages : p \cap heap # {}  \* malloc has no more
  /\ phase' = "panic"
  /\ UNCHANGED << heap, tt, mutVars, gcEnable, req, stage, gcVars >>

-----------------------------------------------------------------------------
(* gc_mark_phase *)

MarkRoots ==
  /\ phase = "alloc" /\ stage = 0 /\ gcEnable
  /\ mark' = RootSet /\ gray' = RootSet
  /\ todo' = {} /\ again' = TRUE
  /\ phase' = "mark"
  /\ UNCHANGED << heap, tt, mutVars, gcEnable, req, stage, weaks, unswept >>

(* Mutant: the null checks before the recursive calls are missing. *)
Children_NoNullCheck(o) == {slot[o][f] : f \in MarkedFields(tt[o])}

Children(o) == {slot[o][f] : f \in MarkedFields(tt[o])} \ {Null}

(* One call of gc_mark_object on an object it has just made BLACK. *)
gc_mark_object(o) ==
  /\ phase = "mark" /\ o \in gray
  /\ mark' = mark \cup Children(o)
  /\ gray' = (gray \ {o}) \cup (Children(o) \ mark)
  /\ weaks' = IF tt[o] = "WEAK" THEN weaks \cup {o} ELSE weaks
  /\ UNCHANGED << heap, tt, mutVars, gcEnable, req, stage, phase,
                  todo, again, unswept >>

(* The do-while over the chain: one more pass, from the head it has now. *)
NextPass ==
  /\ phase = "mark" /\ gray = {} /\ todo = {} /\ again
  /\ todo' = {e \in weak : e[1] \in weaks}
  /\ again' = FALSE
  /\ UNCHANGED << heap, tt, mutVars, gcEnable, req, stage, phase,
                  mark, gray, weaks, unswept >>

(* Mutants: a pass does not count what it marks; it follows the value of   *)
(* any key; it counts every live key.                                      *)
InspectEntry_NoRepeat(e) ==
  /\ phase = "mark" /\ gray = {} /\ e \in todo
  /\ todo' = todo \ {e}
  /\ IF e[2] \in mark /\ e[3] \notin mark
       THEN mark' = mark \cup {e[3]} /\ gray' = {e[3]}
       ELSE UNCHANGED << mark, gray >>
  /\ UNCHANGED << heap, tt, mutVars, gcEnable, req, stage, phase,
                  weaks, unswept, again >>

InspectEntry_StrongValue(e) ==
  /\ phase = "mark" /\ gray = {} /\ e \in todo
  /\ todo' = todo \ {e}
  /\ IF e[3] \notin mark
       THEN mark' = mark \cup {e[3]} /\ gray' = {e[3]} /\ again' = TRUE
       ELSE UNCHANGED << mark, gray, again >>
  /\ UNCHANGED << heap, tt, mutVars, gcEnable, req, stage, phase,
                  weaks, unswept >>

InspectEntry_CountsBlack(e) ==
  /\ phase = "mark" /\ gray = {} /\ e \in todo
  /\ todo' = todo \ {e}
  /\ IF e[2] \in mark
       THEN /\ mark' = mark \cup {e[3]}
            /\ gray' = {e[3]} \ mark
            /\ again' = TRUE
       ELSE UNCHANGED << mark, gray, again >>
  /\ UNCHANGED << heap, tt, mutVars, gcEnable, req, stage, phase,
                  weaks, unswept >>

(* An entry whose key is BLACK and whose value is WHITE marks the value. *)
InspectEntry(e) ==
  /\ phase = "mark" /\ gray = {} /\ e \in todo
  /\ todo' = todo \ {e}
  /\ IF e[2] \in mark /\ e[3] \notin mark
       THEN /\ mark' = mark \cup {e[3]}
            /\ gray' = {e[3]}
            /\ again' = TRUE
       ELSE UNCHANGED << mark, gray, again >>
  /\ UNCHANGED << heap, tt, mutVars, gcEnable, req, stage, phase,
                  weaks, unswept >>

EndMark ==
  /\ phase = "mark" /\ gray = {} /\ todo = {} /\ ~again
  /\ phase' = "clear"
  /\ UNCHANGED << heap, tt, mutVars, gcEnable, req, stage, gcVars >>

-----------------------------------------------------------------------------
(* gc_sweep_phase *)

(* Mutant: entries of dead keys stay. *)
ClearWeak_KeepsDeadKeys(w) ==
  /\ phase = "clear" /\ w \in weaks
  /\ weaks' = weaks \ {w}
  /\ UNCHANGED << heap, tt, slot, name, weak, oblist, root, arena, gcEnable,
                  req, stage, phase, mark, gray, todo, again, unswept >>

(* Pop a table off the chain and delete its entries with a WHITE key. *)
ClearWeak(w) ==
  /\ phase = "clear" /\ w \in weaks
  /\ weak' = {e \in weak : e[1] = w => e[2] \in mark}
  /\ weaks' = weaks \ {w}
  /\ UNCHANGED << heap, tt, slot, name, oblist, root, arena, gcEnable,
                  req, stage, phase, mark, gray, todo, again, unswept >>

(* Delete the entries of WHITE symbols; a dummy entry stays. *)
ClearOblist ==
  /\ phase = "clear" /\ weaks = {}
  /\ oblist' = {e \in oblist : e[2] # Null => e[2] \in mark}
  /\ unswept' = {p \in Pages : p \subseteq heap}
  /\ phase' = "sweep"
  /\ UNCHANGED << heap, tt, slot, name, weak, root, arena, gcEnable,
                  req, stage, mark, gray, weaks, todo, again >>

(* Mutant: survivors are left BLACK. *)
gc_sweep_page_StaysBlack(p) ==
  LET dead == (p \cap Allocated) \ mark IN
  /\ phase = "sweep" /\ p \in unswept
  /\ unswept' = unswept \ {p}
  /\ tt' = [o \in Obj |-> IF o \in dead THEN Free ELSE tt[o]]
  /\ slot' = [o \in Obj |-> IF o \in dead THEN NullFields ELSE slot[o]]
  /\ name' = [o \in Obj |-> IF o \in dead THEN Null ELSE name[o]]
  /\ weak' = {e \in weak : e[1] \notin dead}
  /\ UNCHANGED << heap, oblist, root, arena, gcEnable, req, stage, phase,
                  mark, gray, weaks, todo, again >>

(* Whiten the BLACK objects of a page, then finalize and free the others. *)
gc_sweep_page(p) ==
  LET dead == (p \cap Allocated) \ mark IN
  /\ phase = "sweep" /\ p \in unswept
  /\ unswept' = unswept \ {p}
  /\ mark' = mark \ p
  /\ tt' = [o \in Obj |-> IF o \in dead THEN Free ELSE tt[o]]
  /\ slot' = [o \in Obj |-> IF o \in dead THEN NullFields ELSE slot[o]]
  /\ name' = [o \in Obj |-> IF o \in dead THEN Null ELSE name[o]]
  /\ weak' = {e \in weak : e[1] \notin dead}
  /\ UNCHANGED << heap, oblist, root, arena, gcEnable, req, stage, phase,
                  gray, weaks, todo, again >>

(* The pages are swept; a heap that is still nearly full gets a new page. *)
EndSweep ==
  /\ phase = "sweep" /\ unswept = {}
  /\ UNCHANGED heap \/ heap_morecore
  /\ stage' = 1 /\ phase' = "alloc"
  /\ UNCHANGED << tt, mutVars, gcEnable, req, gcVars >>

-----------------------------------------------------------------------------
(* The mutator only has the addresses of objects it can reach. *)
Mutate ==
  \/ EnableGc
  \/ \E o \in Reachable, f \in Field, v \in Reachable \cup {Null} :
       SetField(o, f, v)
  \/ \E r \in Roots, v \in Reachable \cup {Null} : SetRoot(r, v)
  \/ \E o \in Reachable : pic_protect(o)
  \/ \E n \in 0 .. Len(arena) - 1 : pic_leave(n)
  \/ \E w, k, v \in Reachable : pic_weak_set(w, k, v)
  \/ \E w, k \in Reachable : pic_weak_del(w, k)
  \/ \E s \in Reachable, sym \in Obj : InternOld(s, sym)
  \/ \E s \in Reachable : InternNew(s)
  \/ \E t \in Types, n \in Names \cup {Null} : Request(t, n)

Allocate == (\E o \in Obj : Grant(o)) \/ GcDisabled \/ Grow \/ pic_panic

Collect ==
  \/ MarkRoots
  \/ \E o \in Obj : gc_mark_object(o)
  \/ NextPass
  \/ \E e \in todo : InspectEntry(e)
  \/ EndMark
  \/ \E w \in Obj : ClearWeak(w)
  \/ ClearOblist
  \/ \E p \in Pages : gc_sweep_page(p)
  \/ EndSweep

Next == Mutate \/ Allocate \/ Collect

(* A collection runs to its end: nothing else runs in the meantime. *)
Spec == Init /\ [][Next]_vars /\ WF_vars(Collect)

-----------------------------------------------------------------------------
Collecting == phase \in {"mark", "clear", "sweep"}

TypeOK ==
  /\ heap \subseteq Obj
  /\ tt \in [Obj -> Types \cup {Free}]
  /\ slot \in [Obj -> [Field -> Obj \cup {Null}]]
  /\ name \in [Obj -> Names \cup {Null}]
  /\ weak \subseteq Obj \X Obj \X Obj
  /\ oblist \subseteq Obj \X (Obj \cup {Null})
  /\ root \in [Roots -> Obj \cup {Null}]
  /\ arena \in Seq(Obj)
  /\ gcEnable \in BOOLEAN
  /\ req \in {NoReq} \cup
              [tt: Types, str: Obj \cup {Null}, name: Names \cup {Null}]
  /\ stage \in 0 .. 2
  /\ phase \in {"run", "alloc", "mark", "clear", "sweep", "panic"}
  /\ mark \subseteq Obj /\ gray \subseteq Obj /\ weaks \subseteq Obj
  /\ todo \subseteq Obj \X Obj \X Obj /\ again \in BOOLEAN /\ unswept \subseteq Pages

(* What the program can reach is never freed, at any step of a collection  *)
(* (gc_sweep_page frees only what gc_mark_phase left WHITE).               *)
NoDangling == Reachable \subseteq Allocated

(* While the program runs, nothing in memory holds the address of a freed  *)
(* object: no field, even of garbage, no key or value of a weak table, no  *)
(* string or symbol of the symbol table (606-639 of gc.c).                 *)
HeapClosed ==
  phase \in {"run", "alloc"} =>
    /\ Closed(Allocated)
    /\ \A e \in weak : {e[1], e[2]} \subseteq Allocated
    /\ \A e \in oblist : {e[1], e[2]} \subseteq Allocated \cup {Null}

(* A collection is exact: when the sweep is over the heap holds what is    *)
(* reachable and nothing else, ephemeron cycles included (475-501).        *)
CollectionExact == phase = "sweep" /\ unswept = {} => Allocated = Reachable

(* The assertion at the head of gc_mark_phase (420), and its counterpart   *)
(* for the marks: a collection starts with no chain and a WHITE heap.      *)
CollectionStartsClean ==
  phase \in {"run", "alloc"} => weaks = {} /\ mark = {} /\ gray = {}

(* Interning stays unique across collections: one entry for a name, and a  *)
(* symbol the program can reach is still the one its name interns to.      *)
InternUnique ==
  /\ \A d, e \in oblist :
       phase = "run" /\ name[d[1]] = name[e[1]] => d = e
  /\ \A o \in Reachable :
       tt[o] = "SYMBOL" => << slot[o]["str"], o >> \in oblist

(* A collection never drops a weak entry whose table and key are both      *)
(* reachable, whatever the order in which tables and keys were marked.     *)
WeakEntryKept ==
  [][ Collecting =>
        \A e \in weak : e[1] \in Reachable /\ e[2] \in Reachable
                         => e \in weak' ]_vars

(* The recursion and the do-while of the mark phase, and the sweep, end:   *)
(* the allocation that started them gets to its second attempt.            *)
CollectionEnds == Collecting ~> phase = "alloc"
=============================================================================
