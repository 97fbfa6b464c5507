------------------------------- MODULE GcProofs -------------------------------
(***************************************************************************)
(* What holds of the collector for every set of objects, roots, types and  *)
(* pages.  The argument: Kept is what the collector has decided to keep    *)
(* (everything allocated until marking is over, then what is marked, then  *)
(* what is marked or already swept).  Kept is always allocated and always  *)
(* closed, so it holds everything reachable; and from the end of marking   *)
(* on it holds nothing else.                                               *)
(***************************************************************************)
EXTENDS Gc, TLAPS

Kept ==
  CASE phase = "clear" -> mark
    [] phase = "sweep" -> mark \cup (Allocated \ UNION unswept)
    [] OTHER -> Allocated

(* Kept is allocated, closed, and closed under the keys of its tables (the *)
(* tables still on the chain excepted, until they are cleared).            *)
KeptInv ==
  /\ Kept \subseteq Allocated
  /\ Closed(Kept)
  /\ \A e \in weak : /\ tt[e[1]] = "WEAK" /\ e[1] \in Allocated
                     /\ e[1] \in Kept /\ (phase = "clear" => e[1] \notin weaks)
                          => e[2] \in Kept

(* Only the fields of its type hold anything in an object. *)
SlotInv ==
  \A o \in Obj, f \in Field :
    slot[o][f] # Null => o \in Allocated /\ f \in FieldsOf[tt[o]]

(* An entry of the symbol table: its symbol is a symbol of its string, or  *)
(* it is the dummy of the request being served.                            *)
OblistInv ==
  \A e \in oblist :
    /\ e[2] # Null => tt[e[2]] = "SYMBOL" /\ slot[e[2]]["str"] = e[1]
    /\ e[2] = Null => req # NoReq /\ req.str = e[1]
    /\ phase # "clear" => e[2] \in Kept \cup {Null}

ReqInv ==
  /\ phase = "run" <=> req = NoReq
  /\ req # NoReq => /\ req.str \in Reachable \cup {Null}
                    /\ req.tt = "SYMBOL" <=> req.str # Null

PageInv ==
  /\ heap = UNION {p \in Pages : p \subseteq heap}
  /\ Allocated \subseteq heap
  /\ phase = "sweep" => mark \subseteq UNION unswept

IdleInv ==
  /\ ~Collecting => mark = {}
  /\ phase # "mark" => gray = {}
  /\ phase \notin {"mark", "clear"} => weaks = {}

(* Between the start of marking and its end: the tricolor invariant, and   *)
(* its counterpart for weak entries.                                       *)
MarkInv ==
  phase = "mark" =>
    /\ RootSet \subseteq mark /\ gray \subseteq mark /\ weaks \subseteq mark
    /\ mark \subseteq Allocated
    /\ \A o \in mark \ gray :
         /\ \A f \in Field : slot[o][f] \in mark \cup {Null}
         /\ tt[o] = "WEAK" => o \in weaks
    /\ gray # {} => again
    /\ todo \subseteq {e \in weak : e[1] \in weaks}
    /\ ~again => \A e \in weak : e[1] \in weaks /\ e[2] \in mark
                                   => e[3] \in mark \/ e \in todo

ClearInv == phase = "clear" => weaks \subseteq mark

(* Nothing unreachable is ever marked, or kept once marking is over. *)
ExactInv ==
  /\ phase = "mark" => mark \subseteq Reachable
  /\ phase \in {"clear", "sweep"} => Kept \subseteq Reachable

IInv == /\ TypeOK /\ KeptInv /\ SlotInv /\ OblistInv /\ ReqInv /\ PageInv
        /\ IdleInv /\ MarkInv /\ ClearInv /\ ExactInv

-----------------------------------------------------------------------------
(* gc_mark_object follows every pointer field of every type. *)
LEMMA MarkedFieldsAll ==
  ASSUME NEW t \in Types
  PROVE  MarkedFields(t) = FieldsOf[t] /\ FieldsOf[t] \subseteq Field
<1>1. t \in {"PAIR", "CXT", "FUNC", "IREP", "ERROR", "VECTOR",
            "ID", "ENV", "DATA", "DICT", "RECORD", "SYMBOL",
            "CP", "STRING", "BLOB", "PORT", "WEAK"}
  BY TypesAssumption DEF FieldsOf
<1>2. MarkedFields(t) = FieldsOf[t]
  <2>1. CASE t = "PAIR"
    BY <2>1 DEF FieldsOf, MarkedFields
  <2>2. CASE t = "CXT"
    BY <2>2 DEF FieldsOf, MarkedFields
  <2>3. CASE t = "FUNC"
    BY <2>3 DEF FieldsOf, MarkedFields
  <2>4. CASE t = "IREP"
    BY <2>4 DEF FieldsOf, MarkedFields
  <2>5. CASE t = "ERROR"
    BY <2>5 DEF FieldsOf, MarkedFields
  <2>6. CASE t = "VECTOR"
    BY <2>6 DEF FieldsOf, MarkedFields
  <2>7. CASE t = "ID"
    BY <2>7 DEF FieldsOf, MarkedFields
  <2>8. CASE t = "ENV"
    BY <2>8 DEF FieldsOf, MarkedFields
  <2>9. CASE t = "DATA"
    BY <2>9 DEF FieldsOf, MarkedFields
  <2>10. CASE t = "DICT"
    BY <2>10 DEF FieldsOf, MarkedFields
  <2>11. CASE t = "RECORD"
    BY <2>11 DEF FieldsOf, MarkedFields
  <2>12. CASE t = "SYMBOL"
    BY <2>12 DEF FieldsOf, MarkedFields
  <2>13. CASE t = "CP"
    BY <2>13 DEF FieldsOf, MarkedFields
  <2>14. CASE t = "STRING"
    BY <2>14 DEF FieldsOf, MarkedFields
  <2>15. CASE t = "BLOB"
    BY <2>15 DEF FieldsOf, MarkedFields
  <2>16. CASE t = "PORT"
    BY <2>16 DEF FieldsOf, MarkedFields
  <2>17. CASE t = "WEAK"
    BY <2>17 DEF FieldsOf, MarkedFields
  <2>18. QED
    BY <1>1, <2>1, <2>2, <2>3, <2>4, <2>5, <2>6, <2>7, <2>8, <2>9, <2>10, <2>11, <2>12, <2>13, <2>14, <2>15, <2>16, <2>17
<1>3. QED
  BY <1>2 DEF Field

LEMMA NullDistinct == Null \notin Obj
BY NullAssumption

(* Reachable is the least closed set of objects. *)
LEMMA ReachableLeast ==
  ASSUME NEW S \in SUBSET Obj, Closed(S)
  PROVE  Reachable \subseteq S
BY DEF Reachable

LEMMA ReachableClosed ==
  ASSUME TypeOK
  PROVE  Closed(Reachable) /\ Reachable \subseteq Obj
<1>1. Reachable \subseteq Obj
  BY DEF Reachable
<1>2. RootSet \subseteq Reachable
  <2>1. RootSet \subseteq Obj
    BY NullDistinct DEF RootSet, Arena, TypeOK
  <2>2. QED
    BY <2>1 DEF Closed, Reachable
<1>3. ASSUME NEW o \in Reachable, NEW f \in Field
      PROVE  slot[o][f] \in Reachable \cup {Null}
  <2>1. slot[o][f] \in Obj \cup {Null}
    BY <1>1 DEF TypeOK
  <2>2. ASSUME slot[o][f] # Null, NEW S \in SUBSET Obj, Closed(S)
        PROVE  slot[o][f] \in S
    <3>1. o \in S
      BY <2>2 DEF Reachable
    <3>2. QED
      BY <2>2, <3>1 DEF Closed
  <2>3. QED
    BY <2>1, <2>2 DEF Reachable
<1>4. ASSUME NEW e \in weak, e[1] \in Reachable, e[2] \in Reachable
      PROVE  e[3] \in Reachable
  <2>1. e[3] \in Obj
    BY DEF TypeOK
  <2>2. ASSUME NEW S \in SUBSET Obj, Closed(S)
        PROVE  e[3] \in S
    <3>1. e[1] \in S /\ e[2] \in S
      BY <1>4, <2>2 DEF Reachable
    <3>2. QED
      BY <2>2, <3>1 DEF Closed
  <2>3. QED
    BY <2>1, <2>2 DEF Reachable
<1>5. QED
  BY <1>1, <1>2, <1>3, <1>4 DEF Closed

(* A step that disturbs only what lies outside a closed set K loses        *)
(* nothing of what is reachable.                                           *)
LEMMA ReachableKept ==
  ASSUME TypeOK, NEW K \in SUBSET Obj, Closed(K),
         root' = root, arena' = arena,
         \A e \in weak : e[1] \in K /\ e[2] \in K => e \in weak',
         \A o \in K : slot'[o] = slot[o]
  PROVE  Reachable \subseteq Reachable'
<1>1. SUFFICES ASSUME NEW o \in Reachable, NEW S \in SUBSET Obj, Closed(S)'
               PROVE  o \in S
  BY DEF Reachable
<1>2. Closed(S \cap K)
  <2>1. RootSet' = RootSet
    BY DEF RootSet, Arena
  <2>2. RootSet \subseteq S \cap K
    BY <1>1, <2>1 DEF Closed
  <2>3. ASSUME NEW p \in S \cap K, NEW f \in Field
        PROVE  slot[p][f] \in (S \cap K) \cup {Null}
    BY <1>1 DEF Closed
  <2>4. ASSUME NEW e \in weak, e[1] \in S \cap K, e[2] \in S \cap K
        PROVE  e[3] \in S \cap K
    <3>1. e[3] \in K
      BY <2>4 DEF Closed
    <3>2. e \in weak'
      BY <2>4
    <3>3. e[3] \in S
      BY <1>1, <2>4, <3>2 DEF Closed
    <3>4. QED
      BY <3>1, <3>3
  <2>5. QED
    BY <2>2, <2>3, <2>4 DEF Closed
<1>3. QED
  BY <1>2 DEF Reachable

-----------------------------------------------------------------------------
(* Type correctness, one step per action. *)

LEMMA InitType == Init => TypeOK
<1> SUFFICES ASSUME Init PROVE TypeOK
  OBVIOUS
<1>1. /\ slot \in [Obj -> [Field -> Obj \cup {Null}]]
      /\ tt \in [Obj -> Types \cup {Free}]
      /\ name \in [Obj -> Names \cup {Null}]
      /\ root \in [Roots -> Obj \cup {Null}]
  BY DEF Init, NullFields
<1>2. arena \in Seq(Obj)
  BY DEF Init
<1>3. /\ heap \subseteq Obj /\ weak \subseteq Obj \X Obj \X Obj
      /\ oblist \subseteq Obj \X (Obj \cup {Null})
      /\ mark \subseteq Obj /\ gray \subseteq Obj /\ weaks \subseteq Obj
      /\ todo \subseteq Obj \X Obj \X Obj /\ unswept \subseteq Pages
  BY DEF Init
<1>4. stage \in 0 .. 2 /\ phase = "run" /\ req = NoReq
  BY DEF Init
<1>5. gcEnable \in BOOLEAN /\ again \in BOOLEAN
  BY Zenon DEF Init
<1>6. QED
  BY <1>1, <1>2, <1>3, <1>4, <1>5 DEF TypeOK

LEMMA MutateType == TypeOK /\ Mutate => TypeOK'
<1> SUFFICES ASSUME TypeOK, Mutate PROVE TypeOK'
  OBVIOUS
<1> USE DEF TypeOK, mutVars, gcVars, Running, gc_protect
<1>0. Reachable \subseteq Obj
  BY DEF Reachable
<1>1. CASE EnableGc
  BY <1>1 DEF EnableGc
<1>2. ASSUME NEW o \in Reachable, NEW f \in Field,
             NEW v \in Reachable \cup {Null}, SetField(o, f, v)
      PROVE  TypeOK'
  BY <1>0, <1>2 DEF SetField
<1>3. ASSUME NEW r \in Roots, NEW v \in Reachable \cup {Null}, SetRoot(r, v)
      PROVE  TypeOK'
  BY <1>0, <1>3 DEF SetRoot
<1>4. ASSUME NEW o \in Reachable, pic_protect(o)
      PROVE  TypeOK'
  BY <1>0, <1>4 DEF pic_protect
<1>5. ASSUME NEW n \in 0 .. Len(arena) - 1, pic_leave(n)
      PROVE  TypeOK'
  BY <1>5 DEF pic_leave
<1>6. ASSUME NEW w \in Reachable, NEW k \in Reachable, NEW v \in Reachable,
             pic_weak_set(w, k, v)
      PROVE  TypeOK'
  BY <1>0, <1>6 DEF pic_weak_set
<1>7. ASSUME NEW w \in Reachable, NEW k \in Reachable, pic_weak_del(w, k)
      PROVE  TypeOK'
  BY <1>7 DEF pic_weak_del
<1>8. ASSUME NEW s \in Reachable, NEW sym \in Obj, InternOld(s, sym)
      PROVE  TypeOK'
  BY <1>8 DEF InternOld
<1>9. ASSUME NEW s \in Reachable, InternNew(s)
      PROVE  TypeOK'
  BY <1>0, <1>9 DEF InternNew
<1>10. ASSUME NEW t \in Types, NEW n \in Names \cup {Null}, Request(t, n)
       PROVE  TypeOK'
  BY <1>10 DEF Request
<1>11. QED
  BY <1>1, <1>2, <1>3, <1>4, <1>5, <1>6, <1>7, <1>8, <1>9, <1>10 DEF Mutate

LEMMA AllocateType == TypeOK /\ ReqInv /\ Allocate => TypeOK'
<1> SUFFICES ASSUME TypeOK, ReqInv, Allocate PROVE TypeOK'
  OBVIOUS
<1> USE DEF TypeOK, mutVars, gcVars
<1>1. ASSUME NEW o \in Obj, Grant(o)
      PROVE  TypeOK'
  <2>1. req \in [tt: Types, str: Obj \cup {Null}, name: Names \cup {Null}]
    BY <1>1 DEF Grant, ReqInv
  <2>2. slot' \in [Obj -> [Field -> Obj \cup {Null}]]
    BY <1>1, <2>1 DEF Grant, NewFields, NullFields
  <2>3. oblist' \subseteq Obj \X (Obj \cup {Null})
    <3>1. CASE req.tt = "SYMBOL"
      <4>1. req.str \in Obj
        BY <1>1, <2>1, <3>1 DEF ReqInv, Grant, Reachable
      <4>2. QED
        BY <1>1, <3>1, <4>1 DEF Grant
    <3>2. QED
      BY <1>1, <3>1 DEF Grant
  <2>4. arena' \in Seq(Obj)
    BY <1>1 DEF Grant, gc_protect
  <2>5. QED
    BY <1>1, <2>1, <2>2, <2>3, <2>4 DEF Grant
<1>2. CASE GcDisabled
  BY <1>2 DEF GcDisabled
<1>3. CASE Grow
  BY <1>3, PagesAssumption DEF Grow, heap_morecore
<1>4. CASE pic_panic
  BY <1>4 DEF pic_panic
<1>5. QED
  BY <1>1, <1>2, <1>3, <1>4 DEF Allocate

LEMMA CollectType == TypeOK /\ MarkInv /\ Collect => TypeOK'
<1> SUFFICES ASSUME TypeOK, MarkInv, Collect PROVE TypeOK'
  OBVIOUS
<1> USE DEF TypeOK, mutVars, gcVars
<1>1. CASE MarkRoots
  <2>1. RootSet \subseteq Obj
    BY NullDistinct DEF RootSet, Arena
  <2>2. QED
    BY <1>1, <2>1 DEF MarkRoots
<1>2. ASSUME NEW o \in Obj, gc_mark_object(o)
      PROVE  TypeOK'
  <2>1. tt[o] \in Types
    BY <1>2 DEF gc_mark_object, MarkInv, Allocated
  <2>2. Children(o) \subseteq Obj
    BY <2>1, MarkedFieldsAll DEF Children
  <2>3. QED
    BY <1>2, <2>2 DEF gc_mark_object
<1>3. CASE NextPass
  BY <1>3 DEF NextPass
<1>4. ASSUME NEW e \in todo, InspectEntry(e)
      PROVE  TypeOK'
  <2>1. e[3] \in Obj
    OBVIOUS
  <2>2. again' \in BOOLEAN
    <3>1. again' = TRUE \/ again' = again
      BY <1>4 DEF InspectEntry
    <3>2. QED
      BY <3>1, Zenon
  <2>3. mark' \subseteq Obj /\ gray' \subseteq Obj
    BY <1>4, <2>1 DEF InspectEntry
  <2>4. QED
    BY <1>4, <2>2, <2>3 DEF InspectEntry
<1>5. CASE EndMark
  BY <1>5 DEF EndMark
<1>6. ASSUME NEW w \in Obj, ClearWeak(w)
      PROVE  TypeOK'
  BY <1>6 DEF ClearWeak
<1>7. CASE ClearOblist
  BY <1>7 DEF ClearOblist
<1>8. ASSUME NEW p \in Pages, gc_sweep_page(p)
      PROVE  TypeOK'
  BY <1>8 DEF gc_sweep_page, NullFields
<1>9. CASE EndSweep
  BY <1>9, PagesAssumption DEF EndSweep, heap_morecore
<1>10. QED
  BY <1>1, <1>2, <1>3, <1>4, <1>5, <1>6, <1>7, <1>8, <1>9 DEF Collect

-----------------------------------------------------------------------------
(* The inductive invariant. *)

LEMMA InitInv == Init => IInv
<1> SUFFICES ASSUME Init PROVE IInv
  OBVIOUS
<1>1. /\ phase = "run" /\ weak = {} /\ oblist = {} /\ heap = {} /\ mark = {}
      /\ gray = {} /\ weaks = {} /\ req = NoReq /\ arena = << >>
  BY DEF Init
<1>2. Allocated = {} /\ RootSet = {}
  BY <1>1 DEF Init, Allocated, RootSet, Arena
<1>3. Kept = {}
  BY <1>1, <1>2 DEF Kept
<1>4. KeptInv
  BY <1>1, <1>2, <1>3 DEF KeptInv, Closed
<1>5. SlotInv
  BY DEF SlotInv, Init, NullFields
<1>6. OblistInv /\ ReqInv
  BY <1>1 DEF OblistInv, ReqInv
<1>7. PageInv
  <2>1. UNION {p \in Pages : p \subseteq {}} = {}
    OBVIOUS
  <2>2. QED
    BY <1>1, <1>2, <2>1 DEF PageInv
<1>8. IdleInv /\ MarkInv /\ ClearInv /\ ExactInv
  BY <1>1 DEF IdleInv, MarkInv, ClearInv, ExactInv, Collecting
<1>9. QED
  BY InitType, <1>4, <1>5, <1>6, <1>7, <1>8 DEF IInv

(* What the program can reach is kept. *)
LEMMA ReachableInKept == IInv => Reachable \subseteq Kept /\ Kept \subseteq Allocated
<1> SUFFICES ASSUME IInv PROVE Reachable \subseteq Kept /\ Kept \subseteq Allocated
  OBVIOUS
<1>1. Kept \subseteq Allocated /\ Closed(Kept)
  BY DEF IInv, KeptInv
<1>2. QED
  BY <1>1, ReachableLeast DEF Allocated

(* A step of the mutator that allocates nothing: what it owes to IInv. *)
LEMMA MutatorFrame ==
  ASSUME IInv, Running, TypeOK',
         UNCHANGED << heap, tt, req, phase, oblist, gcVars >>,
         Closed(Allocated)', SlotInv',
         \A e \in weak' : tt[e[1]] = "WEAK" /\ {e[1], e[2]} \subseteq Allocated,
         \A o \in Obj : tt[o] = "SYMBOL" => slot'[o]["str"] = slot[o]["str"]
  PROVE  IInv'
<1>1. phase = "run" /\ phase' = "run" /\ UNCHANGED gcVars
  BY DEF Running
<1>2. Allocated' = Allocated /\ Kept = Allocated /\ Kept' = Allocated'
  BY <1>1 DEF Kept, Allocated
<1>3. KeptInv'
  BY <1>1, <1>2 DEF KeptInv
<1>4. OblistInv'
  <2>1. SUFFICES ASSUME NEW e \in oblist PROVE
          /\ e[2] # Null => tt'[e[2]] = "SYMBOL" /\ slot'[e[2]]["str"] = e[1]
          /\ e[2] = Null => req' # NoReq /\ req'.str = e[1]
          /\ phase' # "clear" => e[2] \in Kept' \cup {Null}
    BY DEF OblistInv
  <2>2. e[2] \in Obj \cup {Null}
    BY DEF IInv, TypeOK
  <2>3. QED
    BY <1>1, <1>2, <2>2 DEF IInv, OblistInv
<1>5. ReqInv'
  BY <1>1 DEF ReqInv, IInv
<1>6. PageInv'
  BY <1>1, <1>2 DEF PageInv, IInv
<1>7. IdleInv'
  BY <1>1 DEF IdleInv, IInv, Collecting, gcVars
<1>8. MarkInv' /\ ClearInv' /\ ExactInv'
  BY <1>1 DEF MarkInv, ClearInv, ExactInv
<1>9. QED
  BY <1>3, <1>4, <1>5, <1>6, <1>7, <1>8 DEF IInv

(* A step that starts a request: the string of a new symbol is reachable.  *)
LEMMA RequestFrame ==
  ASSUME IInv, TypeOK', phase = "run", phase' = "alloc",
         UNCHANGED << heap, tt, slot, weak, root, arena, gcVars >>,
         NEW t \in Types, NEW s \in Reachable \cup {Null},
         NEW n \in Names \cup {Null},
         req' = [tt |-> t, str |-> s, name |-> n],
         t = "SYMBOL" <=> s # Null,
         oblist' \subseteq oblist \cup {<< s, Null >>}
  PROVE  IInv'
<1>1. UNCHANGED << weaks, gray, mark >>
  BY DEF gcVars
<1>2. Allocated' = Allocated /\ Kept = Allocated /\ Kept' = Allocated'
  BY DEF Kept, Allocated
<1>3. Reachable' = Reachable /\ Closed(Allocated)' = Closed(Allocated)
  BY <1>2 DEF Reachable, Closed, RootSet, Arena
<1>4. KeptInv'
  BY <1>2, <1>3 DEF KeptInv, IInv
<1>5. SlotInv'
  BY <1>2 DEF SlotInv, IInv
<1>6. req' # NoReq /\ req'.tt = t /\ req'.str = s
  <2>1. s \in Obj \cup {Null}
    BY DEF Reachable
  <2>2. QED
    BY <2>1, ReqAssumption
<1>7. ReqInv'
  BY <1>3, <1>6 DEF ReqInv
<1>8. OblistInv'
  <2>1. SUFFICES ASSUME NEW e \in oblist' PROVE
          /\ e[2] # Null => tt[e[2]] = "SYMBOL" /\ slot[e[2]]["str"] = e[1]
          /\ e[2] = Null => req' # NoReq /\ req'.str = e[1]
          /\ e[2] \in Allocated \cup {Null}
    BY <1>2 DEF OblistInv
  <2>2. CASE e \in oblist
    BY <2>2, <1>2 DEF IInv, OblistInv, ReqInv
  <2>3. CASE e = << s, Null >>
    BY <2>3, <1>6
  <2>4. QED
    BY <2>2, <2>3
<1>9. PageInv' /\ IdleInv' /\ MarkInv' /\ ClearInv' /\ ExactInv'
  BY <1>1, <1>2 DEF IInv, PageInv, IdleInv, MarkInv, ClearInv, ExactInv, Collecting
<1>10. QED
  BY <1>4, <1>5, <1>7, <1>8, <1>9 DEF IInv

LEMMA MutateInv == IInv /\ Mutate => IInv'
<1> SUFFICES ASSUME IInv, Mutate PROVE IInv'
  OBVIOUS
<1>t. TypeOK /\ TypeOK'
  BY MutateType DEF IInv
<1>r. Reachable \subseteq Allocated /\ Allocated \subseteq Obj
  BY ReachableInKept DEF Allocated
<1>k. ASSUME Running
      PROVE  /\ Closed(Allocated) /\ SlotInv
             /\ \A e \in weak : /\ tt[e[1]] = "WEAK"
                                /\ {e[1], e[2]} \subseteq Allocated
  <2>1. Kept = Allocated
    BY <1>k DEF Kept, Running
  <2>2. QED
    BY <2>1, <1>k DEF IInv, KeptInv, Running
<1> USE DEF mutVars
<1>1. CASE EnableGc
  <2>1. UNCHANGED << heap, tt, mutVars, req, phase, gcVars >> /\ Running
    BY <1>1 DEF EnableGc
  <2>2. Allocated' = Allocated /\ Closed(Allocated)' /\ SlotInv'
    BY <2>1, <1>k DEF Allocated, Closed, RootSet, Arena, SlotInv
  <2>3. QED
    BY <2>1, <2>2, <1>k, <1>t, MutatorFrame
<1>2. ASSUME NEW o \in Reachable, NEW f \in Field,
             NEW v \in Reachable \cup {Null}, SetField(o, f, v)
      PROVE  IInv'
  <2>1. /\ UNCHANGED << heap, tt, req, phase, weak, oblist, root, arena, gcVars >>
        /\ Running /\ f \in FieldsOf[tt[o]] \ {"str"}
        /\ slot' = [slot EXCEPT ![o][f] = v]
    BY <1>2 DEF SetField
  <2>2. Closed(Allocated)'
    BY <2>1, <1>k, <1>r, <1>t DEF Allocated, Closed, RootSet, Arena, TypeOK
  <2>3. SlotInv'
    BY <2>1, <1>k, <1>r, <1>t DEF Allocated, SlotInv, TypeOK
  <2>4. \A p \in Obj : slot'[p]["str"] = slot[p]["str"]
    BY <2>1, <1>r, <1>t DEF TypeOK
  <2>5. QED
    BY <2>1, <2>2, <2>3, <2>4, <1>k, <1>t, MutatorFrame
<1>3. ASSUME NEW r \in Roots, NEW v \in Reachable \cup {Null}, SetRoot(r, v)
      PROVE  IInv'
  <2>1. /\ UNCHANGED << heap, tt, slot, req, phase, weak, oblist, arena, gcVars >>
        /\ Running /\ root' = [root EXCEPT ![r] = v]
    BY <1>3 DEF SetRoot
  <2>2. Closed(Allocated)'
    <3>1. RootSet' \subseteq Allocated
      BY <2>1, <1>k, <1>r, <1>t DEF Closed, RootSet, Arena, TypeOK
    <3>2. QED
      BY <2>1, <3>1, <1>k DEF Allocated, Closed
  <2>3. SlotInv'
    BY <2>1, <1>k DEF Allocated, SlotInv
  <2>4. QED
    BY <2>1, <2>2, <2>3, <1>k, <1>t, MutatorFrame
<1>4. ASSUME NEW o \in Reachable, pic_protect(o)
      PROVE  IInv'
  <2>1. /\ UNCHANGED << heap, tt, slot, req, phase, weak, oblist, root, gcVars >>
        /\ Running /\ arena' = Append(arena, o)
    BY <1>4 DEF pic_protect, gc_protect
  <2>2. RootSet' \subseteq Allocated
    BY <2>1, <1>k, <1>r, <1>t DEF Closed, RootSet, Arena, TypeOK
  <2>3. Closed(Allocated)' /\ SlotInv'
    BY <2>1, <2>2, <1>k DEF Allocated, Closed, SlotInv
  <2>4. QED
    BY <2>1, <2>3, <1>k, <1>t, MutatorFrame
<1>5. ASSUME NEW n \in 0 .. Len(arena) - 1, pic_leave(n)
      PROVE  IInv'
  <2>1. /\ UNCHANGED << heap, tt, slot, req, phase, weak, oblist, root, gcVars >>
        /\ Running /\ arena' = SubSeq(arena, 1, n)
    BY <1>5 DEF pic_leave
  <2>2. Arena' \subseteq Arena
    BY <2>1, <1>t DEF Arena, TypeOK
  <2>3. RootSet' \subseteq Allocated
    BY <2>1, <2>2, <1>k DEF Closed, RootSet
  <2>4. Closed(Allocated)' /\ SlotInv'
    BY <2>1, <2>3, <1>k DEF Allocated, Closed, SlotInv
  <2>5. QED
    BY <2>1, <2>4, <1>k, <1>t, MutatorFrame
<1>6. ASSUME NEW w \in Reachable, NEW k \in Reachable, NEW v \in Reachable,
             pic_weak_set(w, k, v)
      PROVE  IInv'
  <2>1. /\ UNCHANGED << heap, tt, slot, req, phase, oblist, root, arena, gcVars >>
        /\ Running /\ tt[w] = "WEAK"
        /\ weak' \subseteq weak \cup {<< w, k, v >>}
    BY <1>6 DEF pic_weak_set
  <2>2. RootSet' = RootSet
    BY <2>1 DEF RootSet, Arena
  <2>3. Closed(Allocated)' /\ SlotInv'
    BY <2>1, <2>2, <1>k, <1>r DEF Allocated, Closed, SlotInv
  <2>4. QED
    BY <2>1, <2>3, <1>k, <1>r, <1>t, MutatorFrame
<1>7. ASSUME NEW w \in Reachable, NEW k \in Reachable, pic_weak_del(w, k)
      PROVE  IInv'
  <2>1. /\ UNCHANGED << heap, tt, slot, req, phase, oblist, root, arena, gcVars >>
        /\ Running /\ weak' \subseteq weak
    BY <1>7 DEF pic_weak_del
  <2>2. RootSet' = RootSet
    BY <2>1 DEF RootSet, Arena
  <2>3. Closed(Allocated)' /\ SlotInv'
    BY <2>1, <2>2, <1>k DEF Allocated, Closed, SlotInv
  <2>4. QED
    BY <2>1, <2>3, <1>k, <1>t, MutatorFrame
<1>8. ASSUME NEW s \in Reachable, NEW sym \in Obj, InternOld(s, sym)
      PROVE  IInv'
  <2>1. /\ UNCHANGED << heap, tt, slot, req, phase, weak, oblist, root, gcVars >>
        /\ Running /\ arena' = Append(arena, sym)
        /\ \E e \in oblist : e[2] = sym
    BY <1>8 DEF InternOld, gc_protect
  <2>2. sym \in Allocated
    BY <2>1, <1>r, NullDistinct, ReachableInKept DEF IInv, OblistInv, Running
  <2>3. RootSet' \subseteq Allocated
    BY <2>1, <2>2, <1>k, <1>t DEF Closed, RootSet, Arena, TypeOK
  <2>4. Closed(Allocated)' /\ SlotInv'
    BY <2>1, <2>3, <1>k DEF Allocated, Closed, SlotInv
  <2>5. QED
    BY <2>1, <2>4, <1>k, <1>t, MutatorFrame
<1>9. ASSUME NEW s \in Reachable, InternNew(s)
      PROVE  IInv'
  <2>1. /\ UNCHANGED << heap, tt, slot, weak, root, arena, gcVars >>
        /\ phase = "run" /\ phase' = "alloc"
        /\ oblist' = oblist \cup {<< s, Null >>}
        /\ req' = [tt |-> "SYMBOL", str |-> s, name |-> Null]
        /\ "SYMBOL" \in Types
    BY <1>9 DEF InternNew, Running
  <2>2. s # Null /\ Null \in Names \cup {Null}
    BY <1>r, NullDistinct
  <2>3. QED
    BY <2>1, <2>2, RequestFrame, <1>t
<1>10. ASSUME NEW t \in Types, NEW n \in Names \cup {Null}, Request(t, n)
       PROVE  IInv'
  <2>1. /\ UNCHANGED << heap, tt, slot, weak, oblist, root, arena, gcVars >>
        /\ phase = "run" /\ phase' = "alloc" /\ t # "SYMBOL"
        /\ req' = [tt |-> t, str |-> Null, name |-> n]
    BY <1>10 DEF Request, Running
  <2>2. /\ Null \in Reachable \cup {Null}
        /\ oblist' \subseteq oblist \cup {<< Null, Null >>}
    BY <2>1
  <2>3. QED
    BY <2>1, <2>2, RequestFrame, <1>t
<1>11. QED
  BY <1>1, <1>2, <1>3, <1>4, <1>5, <1>6, <1>7, <1>8, <1>9, <1>10 DEF Mutate

LEMMA AllocateInv == IInv /\ Allocate => IInv'
<1> SUFFICES ASSUME IInv, Allocate PROVE IInv'
  OBVIOUS
<1>p. phase = "alloc" /\ UNCHANGED gcVars
  BY DEF Allocate, Grant, GcDisabled, Grow, pic_panic, gcVars, mutVars
<1>t. TypeOK /\ TypeOK'
  BY AllocateType DEF IInv
<1>k. Kept = Allocated /\ Closed(Allocated) /\ Reachable \subseteq Allocated
  BY <1>p, ReachableInKept DEF Kept, IInv, KeptInv
<1>g. UNCHANGED << mark, gray, weaks, todo, again, unswept >>
  BY <1>p DEF gcVars
<1>1. ASSUME NEW o \in Obj, Grant(o)
      PROVE  IInv'
  <2>1. /\ o \in heap /\ o \notin Allocated
        /\ phase' = "run" /\ req' = NoReq
        /\ tt' = [tt EXCEPT ![o] = req.tt]
        /\ UNCHANGED << heap, weak, root >>
        /\ arena' = Append(arena, o)
    BY <1>1 DEF Grant, gc_protect
  <2>2. req \in [tt: Types, str: Obj \cup {Null}, name: Names \cup {Null}]
    BY <1>p, <1>t DEF IInv, ReqInv, TypeOK
  <2>3. Allocated' = Allocated \cup {o}
    BY <2>1, <2>2, <1>t, TypesAssumption DEF Allocated, TypeOK
  <2>4. req.str \in Allocated \cup {Null}
    BY <1>k, <1>p DEF IInv, ReqInv
  <2>5. /\ \A p \in Obj \ {o} : slot'[p] = slot[p] /\ tt'[p] = tt[p]
        /\ tt'[o] = req.tt
    BY <1>1, <2>1, <1>t DEF Grant, TypeOK
  <2>6. \A f \in Field :
          \/ slot'[o][f] = Null
          \/ (f = "str" /\ req.tt = "SYMBOL" /\ slot'[o][f] = req.str)
    BY <1>1, <1>t DEF Grant, NewFields, NullFields, TypeOK
  <2>7. Closed(Allocated)'
    <3>1. RootSet' \subseteq Allocated'
      BY <2>1, <2>3, <1>k, <1>t DEF Closed, RootSet, Arena, TypeOK
    <3>2. ASSUME NEW p \in Allocated', NEW f \in Field
          PROVE  slot'[p][f] \in Allocated' \cup {Null}
      <4>1. CASE p = o
        BY <4>1, <2>3, <2>4, <2>6
      <4>2. CASE p # o
        BY <4>2, <2>3, <2>5, <1>k DEF Closed, Allocated
      <4>3. QED
        BY <4>1, <4>2
    <3>3. \A e \in weak : {e[1], e[2]} \subseteq Allocated
      BY <1>p, <1>k DEF IInv, KeptInv
    <3>4. \A e \in weak : e[3] \in Allocated
      BY <3>3, <1>k DEF Closed
    <3>5. QED
      BY <3>1, <3>2, <3>4, <2>1, <2>3 DEF Closed
  <2>8. Kept' = Allocated'
    BY <2>1 DEF Kept
  <2>9. KeptInv'
    <3>1. ASSUME NEW e \in weak
          PROVE  tt'[e[1]] = "WEAK" /\ e[1] \in Allocated /\ e[2] \in Allocated
      <4>1. tt[e[1]] = "WEAK" /\ e[1] \in Allocated /\ e[2] \in Allocated
        BY <1>p, <1>k DEF IInv, KeptInv
      <4>2. QED
        BY <4>1, <2>1, <2>5 DEF Allocated
    <3>2. QED
      BY <3>1, <2>1, <2>3, <2>7, <2>8 DEF KeptInv
  <2>10. SlotInv'
    <3>1. SUFFICES ASSUME NEW p \in Obj, NEW f \in Field, slot'[p][f] # Null
                   PROVE  p \in Allocated' /\ f \in FieldsOf[tt'[p]]
      BY DEF SlotInv
    <3>2. CASE p = o
      <4>1. FieldsOf["SYMBOL"] = {"str"}
        BY DEF FieldsOf
      <4>2. QED
        BY <3>1, <3>2, <4>1, <2>3, <2>5, <2>6
    <3>3. CASE p # o
      BY <3>1, <3>3, <2>3, <2>5 DEF IInv, SlotInv
    <3>4. QED
      BY <3>2, <3>3
  <2>11. OblistInv'
    <3>1. SUFFICES ASSUME NEW e \in oblist'
                   PROVE  /\ e[2] \in Allocated' /\ e[2] # Null
                          /\ tt'[e[2]] = "SYMBOL" /\ slot'[e[2]]["str"] = e[1]
      BY <2>8 DEF OblistInv
    <3>2. CASE e \in oblist /\ e[2] # Null
      <4>1. /\ e[2] \in Allocated /\ tt[e[2]] = "SYMBOL"
            /\ slot[e[2]]["str"] = e[1]
        BY <3>2, <1>p, <1>k DEF IInv, OblistInv
      <4>2. QED
        BY <3>2, <4>1, <2>1, <2>3, <2>5 DEF Allocated
    <3>3. CASE e \in oblist /\ e[2] = Null
      <4>1. e[1] = req.str /\ e[1] \in Obj
        BY <3>3, <1>t DEF IInv, OblistInv, TypeOK
      <4>2. req.tt = "SYMBOL"
        BY <4>1, <1>p, NullDistinct DEF IInv, ReqInv
      <4>3. e = << req.str, Null >>
        BY <3>3, <4>1, <1>t DEF TypeOK
      <4>4. QED
        BY <3>1, <3>3, <4>2, <4>3, <1>1, <2>1, <1>t, NullDistinct DEF Grant
    <3>4. CASE e \notin oblist
      <4>1. req.tt = "SYMBOL" /\ e = << req.str, o >>
        BY <3>1, <3>4, <1>1 DEF Grant
      <4>2. slot'[o] = NewFields /\ "str" \in Field
        <5>1. "str" \in FieldsOf["SYMBOL"] /\ req.tt \in Types
          BY <2>2 DEF FieldsOf
        <5>2. QED
          BY <4>1, <5>1, <1>1, <1>t DEF Grant, TypeOK, Field
      <4>3. slot'[o]["str"] = req.str
        BY <4>2 DEF NewFields, NullFields
      <4>4. QED
        BY <4>1, <4>3, <2>3, <2>5, NullDistinct
    <3>5. QED
      BY <3>2, <3>3, <3>4
  <2>12. ReqInv' /\ PageInv'
    BY <2>1, <2>3 DEF IInv, ReqInv, PageInv
  <2>13. IdleInv' /\ MarkInv' /\ ClearInv' /\ ExactInv'
    BY <1>p, <1>g, <2>1 DEF IInv, IdleInv, MarkInv, ClearInv, ExactInv, Collecting
  <2>14. QED
    BY <1>t, <2>9, <2>10, <2>11, <2>12, <2>13 DEF IInv
<1>2. CASE GcDisabled \/ Grow \/ pic_panic
  <2>1. /\ UNCHANGED << tt, slot, weak, oblist, root, arena, req >>
        /\ phase' \in {"alloc", "panic"}
    BY <1>2 DEF GcDisabled, Grow, pic_panic, mutVars
  <2>2. Allocated' = Allocated /\ Kept' = Allocated
    BY <2>1 DEF Allocated, Kept
  <2>3. Reachable' = Reachable /\ Closed(Allocated)' = Closed(Allocated)
    BY <2>1, <2>2 DEF Reachable, Closed, RootSet, Arena
  <2>4. KeptInv' /\ SlotInv' /\ OblistInv' /\ ReqInv'
    <3>1. KeptInv'
      BY <2>1, <2>2, <2>3, <1>k, <1>p DEF IInv, KeptInv
    <3>2. SlotInv'
      BY <2>1, <2>2 DEF IInv, SlotInv
    <3>3. OblistInv'
      BY <2>1, <2>2, <1>k, <1>p DEF IInv, OblistInv
    <3>4. ReqInv'
      BY <2>1, <2>3, <1>p DEF IInv, ReqInv
    <3>5. QED
      BY <3>1, <3>2, <3>3, <3>4
  <2>5. PageInv'
    <3>1. heap' = heap \/ \E p \in Pages : heap' = heap \cup p
      BY <1>2 DEF GcDisabled, Grow, heap_morecore, pic_panic
    <3>2. QED
      BY <3>1, <2>1, <2>2 DEF IInv, PageInv
  <2>6. IdleInv' /\ MarkInv' /\ ClearInv' /\ ExactInv'
    BY <1>p, <1>g, <2>1 DEF IInv, IdleInv, MarkInv, ClearInv, ExactInv, Collecting
  <2>7. QED
    BY <1>t, <2>4, <2>5, <2>6 DEF IInv
<1>3. QED
  BY <1>1, <1>2 DEF Allocate

(* A step of the mark phase: what it owes to IInv. *)
LEMMA MarkFrame ==
  ASSUME IInv, TypeOK', phase \in {"alloc", "mark"}, phase' = "mark",
         UNCHANGED << heap, tt, mutVars, req >>,
         MarkInv', mark' \subseteq Reachable
  PROVE  IInv'
<1>1. UNCHANGED << slot, weak, oblist, root, arena >>
  BY DEF mutVars
<1>2. Allocated' = Allocated /\ Kept = Allocated /\ Kept' = Allocated'
  BY DEF Kept, Allocated
<1>3. Reachable' = Reachable /\ Closed(Allocated)' = Closed(Allocated)
  BY <1>1, <1>2 DEF Reachable, Closed, RootSet, Arena
<1>4. KeptInv'
  BY <1>1, <1>2, <1>3 DEF KeptInv, IInv
<1>5. SlotInv' /\ PageInv'
  BY <1>1, <1>2 DEF SlotInv, PageInv, IInv
<1>6. OblistInv'
  BY <1>1, <1>2 DEF OblistInv, IInv
<1>7. ReqInv'
  BY <1>3 DEF ReqInv, IInv
<1>8. IdleInv' /\ ClearInv' /\ ExactInv'
  BY <1>3 DEF IdleInv, ClearInv, ExactInv, Collecting
<1>9. QED
  BY <1>4, <1>5, <1>6, <1>7, <1>8 DEF IInv

LEMMA MarkRootsInv == IInv /\ MarkRoots => IInv'
<1> SUFFICES ASSUME IInv, MarkRoots PROVE IInv'
  OBVIOUS
<1>1. TypeOK /\ TypeOK'
  BY CollectType DEF IInv, Collect
<1>2. /\ phase = "alloc" /\ phase' = "mark" /\ todo' = {} /\ again' = TRUE
      /\ mark' = RootSet /\ gray' = RootSet /\ weaks' = weaks
      /\ UNCHANGED << heap, tt, mutVars, req >>
  BY DEF MarkRoots
<1>3. weaks = {}
  BY <1>2 DEF IInv, IdleInv
<1>4. RootSet \subseteq Reachable
  BY <1>1, ReachableClosed DEF Closed
<1>5. RootSet' = RootSet /\ Allocated' = Allocated
  BY <1>2 DEF RootSet, Arena, mutVars, Allocated
<1>6. Reachable \subseteq Allocated
  BY ReachableInKept
<1>7. MarkInv'
  BY <1>2, <1>3, <1>4, <1>5, <1>6 DEF MarkInv
<1>8. QED
  BY <1>1, <1>2, <1>4, <1>7, MarkFrame

(* The children gc_mark_object marks are all the fields hold. *)
LEMMA ChildrenAll ==
  ASSUME TypeOK, SlotInv, NEW o \in Allocated
  PROVE  /\ \A f \in Field : slot[o][f] \in Children(o) \cup {Null}
         /\ \A c \in Children(o) : \E f \in Field : c = slot[o][f] /\ c # Null
<1>1. tt[o] \in Types /\ o \in Obj
  BY DEF TypeOK, Allocated
<1>2. MarkedFields(tt[o]) = FieldsOf[tt[o]] /\ FieldsOf[tt[o]] \subseteq Field
  BY <1>1, MarkedFieldsAll
<1>3. QED
  BY <1>1, <1>2 DEF Children, SlotInv

LEMMA MarkObjectInv ==
  ASSUME IInv, NEW o \in Obj, gc_mark_object(o)
  PROVE  IInv'
<1>1. TypeOK /\ TypeOK'
  BY CollectType DEF IInv, Collect
<1>2. /\ phase = "mark" /\ phase' = "mark" /\ o \in gray
      /\ mark' = mark \cup Children(o)
      /\ gray' = (gray \ {o}) \cup (Children(o) \ mark)
      /\ weaks' = IF tt[o] = "WEAK" THEN weaks \cup {o} ELSE weaks
      /\ UNCHANGED << heap, tt, mutVars, req, todo, again >>
  BY DEF gc_mark_object
<1>3. UNCHANGED << slot, weak, root, arena >>
  BY <1>2 DEF mutVars
<1>4. MarkInv /\ mark \subseteq Reachable /\ o \in mark /\ o \in Allocated
  BY <1>2 DEF IInv, ExactInv, MarkInv
<1>5. /\ \A f \in Field : slot[o][f] \in Children(o) \cup {Null}
      /\ \A c \in Children(o) : \E f \in Field : c = slot[o][f] /\ c # Null
  BY <1>1, <1>4, ChildrenAll DEF IInv
<1>6. Children(o) \subseteq Reachable
  BY <1>1, <1>4, <1>5, ReachableClosed DEF Closed
<1>7. again
  BY <1>2, <1>4 DEF MarkInv
<1>8. MarkInv'
  <2>1. RootSet' = RootSet /\ Allocated' = Allocated
    BY <1>2, <1>3 DEF RootSet, Arena, Allocated
  <2>2. RootSet' \subseteq mark' /\ gray' \subseteq mark' /\ weaks' \subseteq mark'
    BY <1>2, <1>4, <2>1 DEF MarkInv
  <2>3. mark' \subseteq Allocated'
    BY <1>2, <1>4, <1>6, <2>1, ReachableInKept DEF MarkInv
  <2>4. ASSUME NEW p \in mark' \ gray'
        PROVE  /\ \A f \in Field : slot[p][f] \in mark' \cup {Null}
               /\ tt[p] = "WEAK" => p \in weaks'
    <3>1. CASE p = o
      BY <3>1, <1>2, <1>5
    <3>2. CASE p # o
      <4>1. p \in mark \ gray
        BY <3>2, <1>2
      <4>2. QED
        BY <4>1, <1>2, <1>4 DEF MarkInv
    <3>3. QED
      BY <3>1, <3>2
  <2>5. todo' \subseteq {e \in weak' : e[1] \in weaks'}
    BY <1>2, <1>3, <1>4 DEF MarkInv
  <2>6. again'
    BY <1>2, <1>7
  <2>7. QED
    BY <2>2, <2>3, <2>4, <2>5, <2>6, <1>2, <1>3 DEF MarkInv
<1>9. QED
  BY <1>1, <1>2, <1>4, <1>6, <1>8, MarkFrame

LEMMA NextPassInv == IInv /\ NextPass => IInv'
<1> SUFFICES ASSUME IInv, NextPass PROVE IInv'
  OBVIOUS
<1>1. TypeOK'
  BY CollectType DEF IInv, Collect
<1>2. /\ phase = "mark" /\ phase' = "mark" /\ gray = {}
      /\ todo' = {e \in weak : e[1] \in weaks}
      /\ UNCHANGED << heap, tt, mutVars, req, mark, gray, weaks >>
  BY DEF NextPass
<1>3. UNCHANGED << slot, weak, root, arena >>
  BY <1>2 DEF mutVars
<1>4. RootSet' = RootSet /\ Allocated' = Allocated
  BY <1>2, <1>3 DEF RootSet, Arena, Allocated
<1>5. MarkInv'
  BY <1>2, <1>3, <1>4 DEF MarkInv, IInv
<1>6. QED
  BY <1>1, <1>2, <1>5, MarkFrame DEF IInv, ExactInv

LEMMA InspectEntryInv ==
  ASSUME IInv, NEW e \in todo, InspectEntry(e)
  PROVE  IInv'
<1>1. TypeOK /\ TypeOK'
  BY CollectType DEF IInv, Collect
<1>2. /\ phase = "mark" /\ phase' = "mark" /\ gray = {}
      /\ todo' = todo \ {e}
      /\ UNCHANGED << heap, tt, mutVars, req, weaks >>
  BY DEF InspectEntry
<1>3. UNCHANGED << slot, weak, root, arena >>
  BY <1>2 DEF mutVars
<1>4. RootSet' = RootSet /\ Allocated' = Allocated
  BY <1>2, <1>3 DEF RootSet, Arena, Allocated
<1>5. MarkInv /\ mark \subseteq Reachable
  BY <1>2 DEF IInv, ExactInv
<1>6. e \in weak /\ e[1] \in weaks /\ e[1] \in mark
  BY <1>2, <1>5 DEF MarkInv
<1>7. CASE e[2] \in mark /\ e[3] \notin mark
  <2>1. mark' = mark \cup {e[3]} /\ gray' = {e[3]} /\ again'
    BY <1>7 DEF InspectEntry
  <2>2. e[3] \in Reachable
    BY <1>1, <1>5, <1>6, <1>7, ReachableClosed DEF Closed
  <2>3. e[3] \in Allocated
    BY <2>2, ReachableInKept
  <2>4. MarkInv'
    BY <1>2, <1>3, <1>4, <1>5, <2>1, <2>3 DEF MarkInv
  <2>5. QED
    BY <1>1, <1>2, <1>5, <2>1, <2>2, <2>4, MarkFrame
<1>8. CASE ~ (e[2] \in mark /\ e[3] \notin mark)
  <2>1. UNCHANGED << mark, gray, again >>
    BY <1>8 DEF InspectEntry
  <2>2. MarkInv'
    BY <1>2, <1>3, <1>4, <1>5, <1>8, <2>1 DEF MarkInv
  <2>3. QED
    BY <1>1, <1>2, <1>5, <2>1, <2>2, MarkFrame
<1>9. QED
  BY <1>7, <1>8

(* When marking ends, what is marked is closed. *)
LEMMA EndMarkInv == IInv /\ EndMark => IInv'
<1> SUFFICES ASSUME IInv, EndMark PROVE IInv'
  OBVIOUS
<1>1. TypeOK /\ TypeOK'
  BY CollectType DEF IInv, Collect
<1>2. /\ phase = "mark" /\ phase' = "clear" /\ gray = {} /\ todo = {} /\ ~again
      /\ UNCHANGED << heap, tt, slot, weak, oblist, root, arena, req >>
      /\ UNCHANGED << mark, gray, weaks >>
  BY DEF EndMark, mutVars, gcVars
<1>3. MarkInv /\ mark \subseteq Reachable
  BY <1>2 DEF IInv, ExactInv
<1>4. \A e \in weak : tt[e[1]] = "WEAK"
  BY DEF IInv, KeptInv
<1>5. \A e \in weak : e[1] \in mark => e[1] \in weaks
  BY <1>2, <1>3, <1>4 DEF MarkInv
<1>6. Closed(mark)
  BY <1>2, <1>3, <1>5 DEF Closed, MarkInv
<1>7. Kept' = mark /\ Allocated' = Allocated /\ Reachable' = Reachable
  BY <1>2 DEF Kept, Allocated, Reachable, Closed, RootSet, Arena
<1>8. KeptInv'
  <2>1. Closed(Kept)'
    BY <1>2, <1>6, <1>7 DEF Closed, RootSet, Arena
  <2>2. QED
    BY <2>1, <1>2, <1>3, <1>5, <1>7 DEF IInv, KeptInv, MarkInv
<1>9. SlotInv' /\ OblistInv' /\ ReqInv' /\ PageInv'
  BY <1>2, <1>7 DEF IInv, SlotInv, OblistInv, ReqInv, PageInv
<1>10. IdleInv' /\ MarkInv' /\ ClearInv' /\ ExactInv'
  BY <1>2, <1>3, <1>7
  DEF IdleInv, MarkInv, ClearInv, ExactInv, Collecting
<1>11. QED
  BY <1>1, <1>8, <1>9, <1>10 DEF IInv

LEMMA ClearWeakInv ==
  ASSUME IInv, NEW w \in Obj, ClearWeak(w)
  PROVE  IInv'
<1>1. TypeOK /\ TypeOK'
  BY CollectType DEF IInv, Collect
<1>2. /\ phase = "clear" /\ phase' = "clear" /\ weaks' = weaks \ {w}
      /\ weak' = {e \in weak : e[1] = w => e[2] \in mark}
      /\ UNCHANGED << heap, tt, slot, oblist, root, arena, req, mark, gray >>
  BY DEF ClearWeak
<1>3. Kept = mark /\ Kept' = mark /\ Allocated' = Allocated
  BY <1>2 DEF Kept, Allocated
<1>4. Closed(mark) /\ mark \subseteq Reachable /\ mark \in SUBSET Obj
  BY <1>1, <1>2, <1>3 DEF IInv, KeptInv, ExactInv, TypeOK
<1>5. Reachable \subseteq Reachable'
  BY <1>1, <1>2, <1>4, ReachableKept
<1>6. KeptInv'
  <2>1. Closed(mark)'
    BY <1>2, <1>4 DEF Closed, RootSet, Arena
  <2>2. QED
    BY <2>1, <1>2, <1>3 DEF IInv, KeptInv, Closed
<1>7. SlotInv' /\ OblistInv' /\ PageInv'
  BY <1>2, <1>3 DEF IInv, SlotInv, OblistInv, PageInv
<1>8. ReqInv'
  BY <1>2, <1>5 DEF IInv, ReqInv
<1>9. IdleInv' /\ MarkInv' /\ ClearInv' /\ ExactInv'
  BY <1>2, <1>3, <1>4, <1>5
  DEF IInv, IdleInv, MarkInv, ClearInv, ExactInv, Collecting
<1>10. QED
  BY <1>1, <1>6, <1>7, <1>8, <1>9 DEF IInv

LEMMA ClearOblistInv == IInv /\ ClearOblist => IInv'
<1> SUFFICES ASSUME IInv, ClearOblist PROVE IInv'
  OBVIOUS
<1>1. TypeOK'
  BY CollectType DEF IInv, Collect
<1>2. /\ phase = "clear" /\ phase' = "sweep" /\ weaks = {}
      /\ oblist' = {e \in oblist : e[2] # Null => e[2] \in mark}
      /\ unswept' = {p \in Pages : p \subseteq heap}
      /\ UNCHANGED << heap, tt, slot, weak, root, arena, req, mark, gray, weaks >>
  BY DEF ClearOblist
<1>3. Kept = mark /\ Allocated' = Allocated /\ Reachable' = Reachable
  BY <1>2 DEF Kept, Allocated, Reachable, Closed, RootSet, Arena
<1>4. mark \subseteq Allocated /\ Allocated \subseteq UNION unswept'
  BY <1>2, <1>3 DEF IInv, KeptInv, PageInv
<1>5. Kept' = mark
  BY <1>2, <1>3, <1>4 DEF Kept
<1>6. KeptInv'
  <2>1. Closed(mark)'
    BY <1>2, <1>3 DEF IInv, KeptInv, Closed, RootSet, Arena
  <2>2. QED
    BY <2>1, <1>2, <1>3, <1>5 DEF IInv, KeptInv
<1>7. OblistInv'
  BY <1>2, <1>5 DEF IInv, OblistInv
<1>8. SlotInv' /\ ReqInv' /\ PageInv'
  BY <1>2, <1>3, <1>4 DEF IInv, SlotInv, ReqInv, PageInv
<1>9. IdleInv' /\ MarkInv' /\ ClearInv' /\ ExactInv'
  BY <1>2, <1>3, <1>5 DEF IInv, IdleInv, MarkInv, ClearInv, ExactInv, Collecting
<1>10. QED
  BY <1>1, <1>6, <1>7, <1>8, <1>9 DEF IInv

LEMMA SweepPageInv ==
  ASSUME IInv, NEW p \in Pages, gc_sweep_page(p)
  PROVE  IInv'
<1> DEFINE dead == (p \cap Allocated) \ mark
<1>1. TypeOK /\ TypeOK'
  BY CollectType DEF IInv, Collect
<1>2. /\ phase = "sweep" /\ phase' = "sweep" /\ p \in unswept
      /\ unswept' = unswept \ {p} /\ mark' = mark \ p
      /\ weak' = {e \in weak : e[1] \notin dead}
      /\ tt' = [o \in Obj |-> IF o \in dead THEN Free ELSE tt[o]]
      /\ slot' = [o \in Obj |-> IF o \in dead THEN NullFields ELSE slot[o]]
      /\ UNCHANGED << heap, oblist, root, arena, req, gray, weaks >>
  BY DEF gc_sweep_page
<1>3. /\ Allocated' = Allocated \ dead
      /\ \A o \in Obj \ dead : tt'[o] = tt[o] /\ slot'[o] = slot[o]
  BY <1>1, <1>2 DEF Allocated, TypeOK
<1>4. UNION unswept = p \cup UNION unswept' /\ p \cap UNION unswept' = {}
  BY <1>1, <1>2, PagesAssumption DEF TypeOK
<1>5. mark \subseteq Kept /\ Kept \subseteq Allocated /\ Closed(Kept)
  BY <1>2 DEF Kept, IInv, KeptInv
<1>6. Kept' = Kept
  BY <1>2, <1>3, <1>4, <1>5 DEF Kept
<1>7. Kept \cap dead = {}
  BY <1>2, <1>4 DEF Kept
<1>8. Kept \in SUBSET Obj
  BY <1>5 DEF Allocated
<1>9. Reachable \subseteq Reachable'
  <2>1. \A e \in weak : e[1] \in Kept /\ e[2] \in Kept => e \in weak'
    BY <1>2, <1>7
  <2>2. \A o \in Kept : slot'[o] = slot[o]
    BY <1>3, <1>7, <1>8
  <2>3. QED
    BY <2>1, <2>2, <1>1, <1>2, <1>5, <1>8, ReachableKept
<1>10. KeptInv'
  <2>1. Closed(Kept)'
    BY <1>2, <1>3, <1>5, <1>6, <1>7, <1>8 DEF Closed, RootSet, Arena
  <2>2. \A e \in weak' : /\ tt'[e[1]] = "WEAK" /\ e[1] \in Allocated'
                         /\ e[1] \in Kept => e[2] \in Kept
    BY <1>2, <1>3 DEF IInv, KeptInv, Allocated
  <2>3. QED
    BY <2>1, <2>2, <1>2, <1>3, <1>5, <1>6, <1>7 DEF KeptInv
<1>11. SlotInv'
  <2>1. SUFFICES ASSUME NEW o \in Obj, NEW f \in Field, slot'[o][f] # Null
                 PROVE  o \in Allocated' /\ f \in FieldsOf[tt'[o]]
    BY DEF SlotInv
  <2>2. o \notin dead
    BY <2>1, <1>2 DEF NullFields
  <2>3. QED
    BY <2>1, <2>2, <1>3 DEF IInv, SlotInv
<1>12. OblistInv'
  <2>1. SUFFICES ASSUME NEW e \in oblist PROVE
          /\ e[2] # Null => tt'[e[2]] = "SYMBOL" /\ slot'[e[2]]["str"] = e[1]
          /\ e[2] = Null => req # NoReq /\ req.str = e[1]
          /\ e[2] \in Kept \cup {Null}
    BY <1>2, <1>6 DEF OblistInv
  <2>2. /\ e[2] # Null => tt[e[2]] = "SYMBOL" /\ slot[e[2]]["str"] = e[1]
        /\ e[2] = Null => req # NoReq /\ req.str = e[1]
        /\ e[2] \in Kept \cup {Null}
    BY <1>2 DEF IInv, OblistInv
  <2>3. QED
    BY <2>2, <1>3, <1>7, <1>8
<1>13. ReqInv' /\ PageInv'
  BY <1>2, <1>3, <1>4, <1>9 DEF IInv, ReqInv, PageInv
<1>14. IdleInv' /\ MarkInv' /\ ClearInv' /\ ExactInv'
  BY <1>2, <1>6, <1>9 DEF IInv, IdleInv, MarkInv, ClearInv, ExactInv, Collecting
<1>15. QED
  BY <1>1, <1>10, <1>11, <1>12, <1>13, <1>14 DEF IInv

LEMMA EndSweepInv == IInv /\ EndSweep => IInv'
<1> SUFFICES ASSUME IInv, EndSweep PROVE IInv'
  OBVIOUS
<1>1. TypeOK'
  BY CollectType DEF IInv, Collect
<1>2. /\ phase = "sweep" /\ phase' = "alloc" /\ unswept = {}
      /\ UNCHANGED << tt, slot, weak, oblist, root, arena, req, mark, gray, weaks >>
      /\ heap' = heap \/ \E p \in Pages : heap' = heap \cup p
  BY DEF EndSweep, heap_morecore, mutVars, gcVars
<1>3. mark = {} /\ Kept = Allocated
  BY <1>2 DEF IInv, PageInv, Kept
<1>4. Kept' = Allocated /\ Allocated' = Allocated /\ Reachable' = Reachable
  BY <1>2 DEF Kept, Allocated, Reachable, Closed, RootSet, Arena
<1>5. Closed(Kept)'
  BY <1>2, <1>3, <1>4 DEF IInv, KeptInv, Closed, RootSet, Arena
<1>6. KeptInv' /\ SlotInv' /\ OblistInv' /\ ReqInv'
  BY <1>2, <1>3, <1>4, <1>5 DEF IInv, KeptInv, SlotInv, OblistInv, ReqInv
<1>7. PageInv'
  BY <1>2, <1>4 DEF IInv, PageInv
<1>8. IdleInv' /\ MarkInv' /\ ClearInv' /\ ExactInv'
  BY <1>2, <1>3 DEF IInv, IdleInv, MarkInv, ClearInv, ExactInv, Collecting
<1>9. QED
  BY <1>1, <1>6, <1>7, <1>8 DEF IInv

-----------------------------------------------------------------------------
THEOREM Invariance == Spec => []IInv
<1>1. Init => IInv
  BY InitInv
<1>2. IInv /\ [Next]_vars => IInv'
  <2> SUFFICES ASSUME IInv, [Next]_vars PROVE IInv'
    OBVIOUS
  <2>1. CASE Mutate
    BY <2>1, MutateInv
  <2>2. CASE Allocate
    BY <2>2, AllocateInv
  <2>3. CASE Collect
    BY <2>3, MarkRootsInv, MarkObjectInv, NextPassInv, InspectEntryInv,
       EndMarkInv, ClearWeakInv, ClearOblistInv, SweepPageInv, EndSweepInv
    DEF Collect
  <2>4. CASE UNCHANGED vars
    <3>1. Allocated' = Allocated /\ Kept' = Kept /\ Reachable' = Reachable
          /\ RootSet' = RootSet
      BY <2>4 DEF vars, Allocated, Kept, Reachable, Closed, RootSet, Arena
    <3>2. Closed(Kept)' = Closed(Kept)
      BY <2>4, <3>1 DEF vars, Closed
    <3>3. QED
      BY <2>4, <3>1, <3>2
      DEF vars, IInv, TypeOK, KeptInv, SlotInv, OblistInv, ReqInv, PageInv,
          IdleInv, MarkInv, ClearInv, ExactInv, Collecting
  <2>5. QED
    BY <2>1, <2>2, <2>3, <2>4 DEF Next
<1>3. QED
  BY <1>1, <1>2, PTL DEF Spec

(* TypeOK holds of every heap, whatever its size. *)
THEOREM TypeCorrect == Spec => []TypeOK
BY Invariance, PTL DEF IInv

(* No address the program can still reach is ever freed, at any step of a  *)
(* collection (gc_mark_phase and gc_sweep_page together).                  *)
THEOREM ReachableIsAllocated == Spec => []NoDangling
<1>1. IInv => NoDangling
  BY ReachableInKept DEF NoDangling
<1>2. QED
  BY <1>1, Invariance, PTL

(* Outside a collection no field, weak table entry or symbol table entry   *)
(* holds the address of a freed object (gc_sweep_phase clears before it    *)
(* frees).                                                                 *)
THEOREM NoStaleAddress == Spec => []HeapClosed
<1>1. IInv => HeapClosed
  <2> SUFFICES ASSUME IInv, phase \in {"run", "alloc"}
               PROVE  /\ Closed(Allocated)
                      /\ \A e \in weak : {e[1], e[2]} \subseteq Allocated
                      /\ \A e \in oblist : {e[1], e[2]} \subseteq Allocated \cup {Null}
    BY DEF HeapClosed
  <2>1. Kept = Allocated
    BY DEF Kept
  <2>2. Closed(Allocated) /\ \A e \in weak : {e[1], e[2]} \subseteq Allocated
    BY <2>1 DEF IInv, KeptInv
  <2>3. ASSUME NEW e \in oblist
        PROVE  {e[1], e[2]} \subseteq Allocated \cup {Null}
    <3>1. e[2] \in Allocated \cup {Null}
      BY <2>1 DEF IInv, OblistInv
    <3>2. CASE e[2] = Null
      <4>1. e[1] = req.str /\ req # NoReq
        BY <3>2 DEF IInv, OblistInv
      <4>2. e[1] \in Reachable \cup {Null}
        BY <4>1 DEF IInv, ReqInv
      <4>3. QED
        BY <3>1, <4>2, <2>1, ReachableInKept
    <3>3. CASE e[2] # Null
      <4>1. tt[e[2]] = "SYMBOL" /\ slot[e[2]]["str"] = e[1] /\ e[2] \in Obj
        BY <3>1, <3>3 DEF IInv, OblistInv, Allocated
      <4>2. "SYMBOL" \in Types
        BY <3>1, <3>3, <4>1 DEF IInv, TypeOK, Allocated
      <4>3. "str" \in Field
        BY <4>2 DEF Field, FieldsOf
      <4>4. QED
        BY <2>2, <3>1, <3>3, <4>1, <4>3 DEF Closed
    <3>4. QED
      BY <3>2, <3>3
  <2>4. QED
    BY <2>2, <2>3
<1>2. QED
  BY <1>1, Invariance, PTL

(* A finished sweep leaves exactly what is reachable: ephemerons whose     *)
(* keys die are reclaimed with their values.                               *)
THEOREM SweepIsExact == Spec => []CollectionExact
<1>1. IInv => CollectionExact
  <2> SUFFICES ASSUME IInv, phase = "sweep", unswept = {}
               PROVE  Allocated = Reachable
    BY DEF CollectionExact
  <2>1. Kept = Allocated /\ Kept \subseteq Reachable
    BY DEF IInv, Kept, PageInv, ExactInv, KeptInv
  <2>2. QED
    BY <2>1, ReachableInKept
<1>2. QED
  BY <1>1, Invariance, PTL

(* The assertion of gc_mark_phase: each collection starts with an empty    *)
(* weak chain, and with no object BLACK.                                   *)
THEOREM ChainEmptyAtStart == Spec => []CollectionStartsClean
<1>1. IInv => CollectionStartsClean
  BY DEF IInv, IdleInv, CollectionStartsClean, Collecting
<1>2. QED
  BY <1>1, Invariance, PTL

(* A collection never removes the weak entry of a reachable table and key. *)
THEOREM LiveEntriesStay == Spec => WeakEntryKept
<1>1. IInv /\ [Next]_vars => [Collecting =>
        \A e \in weak : e[1] \in Reachable /\ e[2] \in Reachable
                         => e \in weak']_vars
  <2> SUFFICES ASSUME IInv, [Next]_vars, Collecting,
                      NEW e \in weak, e[1] \in Reachable, e[2] \in Reachable
               PROVE  e \in weak'
    BY Zenon
  <2>1. Reachable \subseteq Kept
    BY ReachableInKept
  <2>2. ASSUME NEW w \in Obj, ClearWeak(w) PROVE e \in weak'
    <3>1. Kept = mark
      BY <2>2 DEF ClearWeak, Kept
    <3>2. QED
      BY <2>1, <2>2, <3>1 DEF ClearWeak
  <2>3. ASSUME NEW p \in Pages, gc_sweep_page(p) PROVE e \in weak'
    <3>1. phase = "sweep" /\ p \in unswept
      BY <2>3 DEF gc_sweep_page
    <3>2. Kept \cap ((p \cap Allocated) \ mark) = {}
      BY <3>1 DEF Kept
    <3>3. QED
      BY <2>1, <2>3, <3>2 DEF gc_sweep_page
  <2>4. CASE Mutate \/ Allocate
    BY <2>4 DEF Mutate, Allocate, Collecting, Running, EnableGc, SetField,
       SetRoot, pic_protect, pic_leave, pic_weak_set, pic_weak_del, InternOld,
       InternNew, Request, Grant, GcDisabled, Grow, pic_panic
  <2>5. ASSUME Collect, ~ \E w \in Obj : ClearWeak(w),
               ~ \E p \in Pages : gc_sweep_page(p)
        PROVE  e \in weak'
    BY <2>5 DEF Collect, MarkRoots, gc_mark_object, NextPass, InspectEntry,
       EndMark, ClearOblist, EndSweep, mutVars
  <2>6. CASE UNCHANGED vars
    BY <2>6 DEF vars
  <2>7. QED
    BY <2>2, <2>3, <2>4, <2>5, <2>6 DEF Next
<1>2. QED
  BY <1>1, Invariance, PTL DEF Spec, WeakEntryKept

-----------------------------------------------------------------------------
(* The symbol table: one entry for a name, an entry for every symbol the   *)
(* collector keeps, and the dummy of a symbol that is being allocated.     *)
SymbolInv ==
  /\ \A d, e \in oblist : name[d[1]] = name[e[1]] => d = e
  /\ \A o \in Kept : tt[o] = "SYMBOL" => << slot[o]["str"], o >> \in oblist
  /\ req # NoReq /\ req.tt = "SYMBOL" => << req.str, Null >> \in oblist

(* The string of an entry outlives every sweep, so its name stays put.     *)
LEMMA EntryStringKept ==
  ASSUME IInv, phase # "clear", NEW e \in oblist
  PROVE  e[1] \in Kept
<1>0. e[1] \in Obj /\ e[2] \in Kept \cup {Null}
  BY DEF IInv, TypeOK, OblistInv
<1>1. CASE e[2] = Null
  BY <1>0, <1>1, ReachableInKept, NullDistinct DEF IInv, OblistInv, ReqInv
<1>2. CASE e[2] # Null
  <2>1. e[2] \in Kept /\ tt[e[2]] = "SYMBOL" /\ slot[e[2]]["str"] = e[1]
    BY <1>0, <1>2 DEF IInv, OblistInv
  <2>2. "SYMBOL" \in Types
    BY <2>1, TypesAssumption DEF IInv, TypeOK, KeptInv, Allocated
  <2>3. "str" \in Field
    BY <2>2 DEF Field, FieldsOf
  <2>4. slot[e[2]]["str"] \in Kept \cup {Null}
    BY <2>1, <2>3 DEF IInv, KeptInv, Closed
  <2>5. QED
    BY <1>0, <2>1, <2>4, NullDistinct
<1>3. QED
  BY <1>1, <1>2

(* A step that neither makes nor frees a symbol.                           *)
LEMMA SymbolFrame ==
  ASSUME SymbolInv, Kept' \subseteq Kept,
         UNCHANGED << name, oblist >>,
         req' # NoReq /\ req'.tt = "SYMBOL" => req' = req,
         \A o \in Kept : /\ tt'[o] = tt[o]
                         /\ tt[o] = "SYMBOL" => slot'[o]["str"] = slot[o]["str"]
  PROVE  SymbolInv'
BY DEF SymbolInv

LEMMA MutateSymbol == IInv /\ SymbolInv /\ Mutate => SymbolInv'
<1> SUFFICES ASSUME IInv, SymbolInv, Mutate PROVE SymbolInv'
  OBVIOUS
<1>t. TypeOK /\ Reachable \subseteq Allocated /\ Allocated \subseteq Obj
  BY ReachableInKept DEF IInv, Allocated
<1>k. /\ phase = "run" /\ tt' = tt /\ name' = name
      /\ phase' \in {"run", "alloc"}
  BY DEF Mutate, Running, EnableGc, SetField, SetRoot, pic_protect, pic_leave,
     pic_weak_set, pic_weak_del, InternOld, InternNew, Request, mutVars
<1>a. Kept = Allocated /\ Kept' = Allocated
  BY <1>k DEF Kept, Allocated
<1>1. ASSUME NEW o \in Reachable, NEW f \in Field,
             NEW v \in Reachable \cup {Null}, SetField(o, f, v)
      PROVE  SymbolInv'
  <2>1. \A p \in Obj : slot'[p]["str"] = slot[p]["str"]
    BY <1>1, <1>t DEF SetField, TypeOK
  <2>2. QED
    BY <2>1, <1>1, <1>k, <1>a, <1>t, SymbolFrame DEF SetField
<1>2. ASSUME NEW s \in Reachable, InternNew(s)
      PROVE  SymbolInv'
  <2>1. /\ oblist' = oblist \cup {<< s, Null >>} /\ slot' = slot
        /\ \A e \in oblist : name[e[1]] # name[s]
    BY <1>2 DEF InternNew
  <2>2. req' = [tt |-> "SYMBOL", str |-> s, name |-> Null]
    BY <1>2 DEF InternNew
  <2>3. QED
    BY <2>1, <2>2, <1>k, <1>a DEF SymbolInv
<1>3. ASSUME NEW t \in Types, NEW n \in Names \cup {Null}, Request(t, n)
      PROVE  SymbolInv'
  <2>1. /\ req' = [tt |-> t, str |-> Null, name |-> n] /\ t # "SYMBOL"
        /\ oblist' = oblist /\ slot' = slot
    BY <1>3 DEF Request, mutVars
  <2>2. QED
    BY <2>1, <1>k, <1>a, SymbolFrame
<1>4. CASE slot' = slot /\ oblist' = oblist /\ req' = req
  BY <1>4, <1>k, <1>a, SymbolFrame
<1>5. QED
  BY <1>1, <1>2, <1>3, <1>4
  DEF Mutate, EnableGc, SetRoot, pic_protect, pic_leave, pic_weak_set,
      pic_weak_del, InternOld, mutVars

(* The dummy entry becomes the entry of the symbol allocated for it.       *)
LEMMA GrantSymbol ==
  ASSUME IInv, SymbolInv, NEW o \in Obj, Grant(o)
  PROVE  SymbolInv'
<1>1. /\ phase = "alloc" /\ phase' = "run" /\ o \notin Allocated
      /\ tt' = [tt EXCEPT ![o] = req.tt]
      /\ name' = [name EXCEPT ![o] = req.name]
  BY DEF Grant
<1>2. TypeOK /\ Kept = Allocated /\ Kept' = Allocated'
  BY <1>1 DEF IInv, Kept
<1>3. Allocated' \subseteq Allocated \cup {o}
  BY <1>1, <1>2 DEF Allocated, TypeOK
<1>4. /\ \A e \in oblist : e[1] \in Allocated /\ name'[e[1]] = name[e[1]]
      /\ \A p \in Allocated : tt'[p] = tt[p] /\ slot'[p] = slot[p]
      /\ tt'[o] = req.tt
  <2>1. \A e \in oblist : e[1] \in Allocated
    BY <1>1, <1>2, EntryStringKept
  <2>2. QED
    BY <2>1, <1>1, <1>2 DEF Grant, Allocated, TypeOK
<1>5. CASE req.tt # "SYMBOL"
  <2>1. oblist' = oblist
    BY <1>5 DEF Grant
  <2>2. req' = NoReq
    BY DEF Grant
  <2>3. QED
    BY <2>1, <2>2, <1>2, <1>3, <1>4, <1>5 DEF SymbolInv
<1>6. CASE req.tt = "SYMBOL"
  <2>1. /\ oblist' = (oblist \ {<< req.str, Null >>}) \cup {<< req.str, o >>}
        /\ slot' = [slot EXCEPT ![o] = NewFields]
    BY <1>6 DEF Grant
  <2>2. req \in [tt: Types, str: Obj \cup {Null}, name: Names \cup {Null}]
    BY <1>1, <1>2 DEF IInv, ReqInv, TypeOK
  <2>3. "SYMBOL" \in Types /\ "str" \in FieldsOf["SYMBOL"]
    BY <1>6, <2>2 DEF FieldsOf
  <2>4. slot'[o]["str"] = req.str
    BY <2>1, <2>3, <1>2 DEF NewFields, NullFields, Field, TypeOK
  <2>5. << req.str, Null >> \in oblist
    BY <1>1, <1>6 DEF IInv, ReqInv, SymbolInv
  <2>6. \A d, e \in oblist' : name'[d[1]] = name'[e[1]] => d = e
    BY <2>1, <2>5, <1>4 DEF SymbolInv
  <2>7. \A p \in Kept' : tt'[p] = "SYMBOL" => << slot'[p]["str"], p >> \in oblist'
    BY <2>1, <2>4, <1>2, <1>3, <1>4, NullDistinct DEF SymbolInv, Allocated
  <2>8. req' = NoReq
    BY DEF Grant
  <2>9. QED
    BY <2>6, <2>7, <1>1 DEF SymbolInv, Grant
<1>7. QED
  BY <1>5, <1>6

LEMMA AllocateSymbol == IInv /\ SymbolInv /\ Allocate => SymbolInv'
<1> SUFFICES ASSUME IInv, SymbolInv, Allocate PROVE SymbolInv'
  OBVIOUS
<1>1. CASE \E o \in Obj : Grant(o)
  BY <1>1, GrantSymbol
<1>2. CASE GcDisabled \/ Grow \/ pic_panic
  <2>1. /\ UNCHANGED << tt, slot, name, oblist, req >>
        /\ phase = "alloc" /\ phase' \in {"alloc", "panic"}
    BY <1>2 DEF GcDisabled, Grow, pic_panic, mutVars
  <2>2. Kept' = Kept
    BY <2>1 DEF Kept, Allocated
  <2>3. QED
    BY <2>1, <2>2, SymbolFrame
<1>3. QED
  BY <1>1, <1>2 DEF Allocate

LEMMA CollectSymbol == IInv /\ SymbolInv /\ Collect => SymbolInv'
<1> SUFFICES ASSUME IInv, SymbolInv, Collect PROVE SymbolInv'
  OBVIOUS
<1>t. TypeOK /\ Kept \subseteq Allocated
  BY ReachableInKept DEF IInv
<1>1. ASSUME phase \in {"alloc", "mark"}, phase' = "mark",
             UNCHANGED << tt, slot, name, oblist, req >>
      PROVE  SymbolInv'
  <2>1. Kept' = Kept
    BY <1>1 DEF Kept, Allocated
  <2>2. QED
    BY <1>1, <2>1, SymbolFrame
<1>2. CASE EndMark
  <2>1. /\ phase = "mark" /\ phase' = "clear"
        /\ UNCHANGED << tt, slot, name, oblist, req, mark >>
    BY <1>2 DEF EndMark, mutVars, gcVars
  <2>2. Kept' = mark /\ Kept = Allocated /\ mark \subseteq Allocated
    BY <2>1 DEF Kept, IInv, MarkInv
  <2>3. QED
    BY <2>1, <2>2, SymbolFrame
<1>3. ASSUME NEW w \in Obj, ClearWeak(w)
      PROVE  SymbolInv'
  <2>1. /\ phase = "clear" /\ phase' = "clear"
        /\ UNCHANGED << tt, slot, name, oblist, req, mark >>
    BY <1>3 DEF ClearWeak
  <2>2. Kept' = Kept
    BY <2>1 DEF Kept
  <2>3. QED
    BY <2>1, <2>2, SymbolFrame
<1>4. CASE ClearOblist
  <2>1. /\ phase = "clear" /\ phase' = "sweep"
        /\ oblist' = {e \in oblist : e[2] # Null => e[2] \in mark}
        /\ unswept' = {p \in Pages : p \subseteq heap}
        /\ UNCHANGED << heap, tt, slot, name, req, mark >>
    BY <1>4 DEF ClearOblist
  <2>2. Kept = mark /\ Kept' = mark
    BY <2>1 DEF Kept, Allocated, IInv, PageInv
  <2>3. QED
    BY <2>1, <2>2 DEF SymbolInv
<1>5. ASSUME NEW p \in Pages, gc_sweep_page(p)
      PROVE  SymbolInv'
  <2> DEFINE dead == (p \cap Allocated) \ mark
  <2>1. /\ phase = "sweep" /\ phase' = "sweep" /\ p \in unswept
        /\ unswept' = unswept \ {p} /\ mark' = mark \ p
        /\ tt' = [o \in Obj |-> IF o \in dead THEN Free ELSE tt[o]]
        /\ slot' = [o \in Obj |-> IF o \in dead THEN NullFields ELSE slot[o]]
        /\ name' = [o \in Obj |-> IF o \in dead THEN Null ELSE name[o]]
        /\ UNCHANGED << oblist, req >>
    BY <1>5 DEF gc_sweep_page
  <2>2. Kept' \subseteq Kept /\ Kept \cap dead = {} /\ Kept \subseteq Obj
    <3>1. UNION unswept = p \cup UNION unswept' /\ p \cap UNION unswept' = {}
      BY <2>1, <1>t, PagesAssumption DEF TypeOK
    <3>2. Allocated' \subseteq Allocated \ dead
      BY <2>1 DEF Allocated
    <3>3. QED
      BY <2>1, <3>1, <3>2, <1>t DEF Kept, Allocated
  <2>3. \A o \in Kept : tt'[o] = tt[o] /\ slot'[o] = slot[o] /\ name'[o] = name[o]
    BY <2>1, <2>2
  <2>4. \A e \in oblist : e[1] \in Kept
    BY <2>1, EntryStringKept
  <2> HIDE DEF dead
  <2>5. QED
    BY <2>1, <2>2, <2>3, <2>4 DEF SymbolInv
<1>6. CASE EndSweep
  <2>1. /\ phase = "sweep" /\ phase' = "alloc" /\ unswept = {}
        /\ UNCHANGED << tt, slot, name, oblist, req >>
    BY <1>6 DEF EndSweep, mutVars
  <2>2. Kept' = Kept
    BY <2>1 DEF Kept, Allocated, IInv, PageInv
  <2>3. QED
    BY <2>1, <2>2, SymbolFrame
<1>7. QED
  BY <1>1, <1>2, <1>3, <1>4, <1>5, <1>6
  DEF Collect, MarkRoots, gc_mark_object, NextPass, InspectEntry, mutVars

(* A name is in the symbol table once, and a symbol that the program can   *)
(* reach is the one its name is interned to: pic_intern gives the same     *)
(* symbol for the same name as long as anything holds it, whatever the     *)
(* collector does meanwhile.                                               *)
THEOREM SymbolsUnique == Spec => []InternUnique
<1>1. Init => SymbolInv
  BY DEF Init, SymbolInv, Kept, Allocated
<1>2. IInv /\ SymbolInv /\ [Next]_vars => SymbolInv'
  <2>1. ASSUME SymbolInv, UNCHANGED vars PROVE SymbolInv'
    <3>1. Kept' = Kept
      BY <2>1 DEF vars, Kept, Allocated
    <3>2. QED
      BY <2>1, <3>1, SymbolFrame DEF vars
  <2>2. QED
    BY <2>1, MutateSymbol, AllocateSymbol, CollectSymbol DEF Next
<1>3. IInv /\ SymbolInv => InternUnique
  <2> SUFFICES ASSUME IInv, SymbolInv PROVE InternUnique
    OBVIOUS
  <2>1. Reachable \subseteq Kept
    BY ReachableInKept
  <2>2. QED
    BY <2>1 DEF SymbolInv, InternUnique
<1>4. QED
  BY <1>1, <1>2, <1>3, Invariance, PTL DEF Spec
=============================================================================
