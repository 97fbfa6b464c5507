---------------------------------- MODULE Library ----------------------------------
(***************************************************************************)
(* Libraries and what a program at top level does with them: lib.c, the    *)
(* forms define-library, import and export (boot.c), pic_eval (eval.c) and *)
(* the access to variables by name (proc.c).                               *)
(*                                                                         *)
(* A name is a sequence of characters.  A library maps the names known in  *)
(* it to uids, which are the variables, and the aliases it exports to its  *)
(* own names.  The four forms every library begins with are left out.      *)
(***************************************************************************)
EXTENDS Naturals, Sequences, SequencesExt, Functions

CONSTANTS
  Char,           \* the characters of symbols
  User,           \* the library a program starts in: picrin.user
  Titles,         \* the lists of symbols programs call libraries by
  Symbols,        \* the symbols programs write
  ImportSets,     \* the operands of import: records of title and mods
  MaxEvals,       \* bound: calls of pic_eval in progress
  MaxSteps        \* bound: steps of a program, errors and returns not counted

Name == Seq(Char)
Mods == [kind: {"only", "rename", "prefix", "except"}, syms: Seq(Name)]

ASSUME NamesAssumption ==
  /\ {"/", "."} \subseteq Char
  /\ User \in Name /\ ~Contains(User, "/")
  /\ Titles \subseteq Seq(Name) /\ Symbols \subseteq Name
ASSUME ImportsAssumption ==
  \A set \in ImportSets :
    /\ set \in [title: Seq(Name), mods: Seq(Mods)]
    /\ \A i \in DOMAIN set.mods : set.mods[i].kind = "prefix" => set.mods[i].syms # << >>

VARIABLES
  libs,           \* pic->ltable
  lib,            \* pic->lib
  globals,        \* the uids with a variable
  macros,         \* the uids with a macro
  evals,          \* the calls of pic_eval in progress, below them the C program
  raising,        \* an error is on its way to a handler
  shadowed,       \* history: the uids that have lost a macro to a define
                  \*   which has not been compiled
  steps           \* history: the steps counted so far

vars == << libs, lib, globals, macros, evals, raising, shadowed, steps >>

Call(l, prev, phase) ==   \* moved is history: see HomeLibrary
  [lib |-> l, prev |-> prev, phase |-> phase, defs |-> {}, moved |-> FALSE]
NewLibrary == [env |-> << >>, exports |-> << >>]

Put(f, c, v) == [d \in DOMAIN f \union {c} |-> IF d = c THEN v ELSE f[d]]

Init ==
  /\ libs = [l \in {User} |-> NewLibrary] /\ lib = User
  /\ globals = {} /\ macros = {} /\ shadowed = {}
  /\ evals = << Call(User, User, "run") >>
  /\ raising = FALSE /\ steps = 0

-----------------------------------------------------------------------------
(* Names.                                                                  *)

(* Mutant: a slash may be in a name.                                       *)
Mangles_Slash(title) ==
  title # << >> /\ \A i \in DOMAIN title : ~Contains(title[i], ".")

(* mangle refuses the empty list and a symbol with a dot or a slash.       *)
Mangles(title) ==
  title # << >> /\ \A i \in DOMAIN title : ~Contains(title[i], ".") /\ ~Contains(title[i], "/")

(* join of the elements with dots between them.                            *)
mangle(title) ==
  LET joined[k \in 1 .. Len(title)] ==
        IF k = 1 THEN title[1] ELSE joined[k - 1] \o << "." >> \o title[k]
  IN  joined[Len(title)]

Uid(l, id) == l \o << "/" >> \o id

(* At top level a name without a variable gets one of its own.             *)
pic_find_identifier(ls, l, id) ==
  IF id \in DOMAIN ls[l].env THEN ls ELSE [ls EXCEPT ![l].env = Put(@, id, Uid(l, id))]

Variable(l, id) == pic_find_identifier(libs, l, id)[l].env[id]

pic_put_identifier(ls, l, id, uid) == [ls EXCEPT ![l].env = Put(@, id, uid)]

Bound(uid) == uid \in globals \union macros

-----------------------------------------------------------------------------
(* What import gathers from a library and what it does with it.  A slot is *)
(* an alias and the name it is exported by; a symbol that only looks for   *)
(* in vain gives none.                                                     *)

Slot(alias, name) == << alias, name >>
NoSlot == << >>
Fault == << "", "", "" >>     \* the error of taking the alias of no slot

(* assq: the first slot of that alias; it stumbles over a missing one.     *)
Assq(alist, s) ==
  LET i == SelectInSeq(alist, LAMBDA x : x = NoSlot \/ x[1] = s)
  IN  IF i = 0 THEN NoSlot ELSE IF alist[i] = NoSlot THEN Fault ELSE alist[i]

(* except passes the slots of those aliases over.                          *)
Excepted(alist, syms) ==
  LET kept[i \in 0 .. Len(alist)] ==
        IF i = 0 THEN << >>
        ELSE IF Contains(syms, alist[i][1]) THEN kept[i - 1]
        ELSE Append(kept[i - 1], alist[i])
  IN  kept[Len(alist)]

(* The template of the renames has no unquote: its keys are lists, which   *)
(* are no symbol, and rename leaves every slot as it is.                   *)
Modified(alist, mod) ==
  LET found == [i \in DOMAIN mod.syms |-> Assq(alist, mod.syms[i])] IN
  IF mod.kind = "only" /\ Contains(found, Fault) THEN << Fault >>
  ELSE IF mod.kind # "only" /\ Contains(alist, NoSlot) THEN << Fault >>
  ELSE CASE mod.kind = "only" -> found
         [] mod.kind = "rename" -> alist
         [] mod.kind = "prefix" ->
              [i \in DOMAIN alist |-> Slot(mod.syms[1] \o alist[i][1], alist[i][2])]
         [] mod.kind = "except" -> Excepted(alist, mod.syms)

(* collect, with library-exports in the order the table happens to have.   *)
collect(exports, mods) ==
  LET alist[k \in 0 .. Len(mods)] ==
        IF k = 0 THEN [i \in DOMAIN exports |-> Slot(exports[i], exports[i])]
        ELSE IF Contains(alist[k - 1], Fault) THEN alist[k - 1]
        ELSE Modified(alist[k - 1], mods[k])
  IN  alist[Len(mods)]

(* Mutant: bound first, looked at then.                                    *)
library_import_First(ls, l, name, alias) ==
  LET real == ls[l].exports[name]
      found == pic_find_identifier(ls, l, real)
      uid == found[l].env[real]
  IN  IF name \notin DOMAIN ls[l].exports THEN [libs |-> ls, ok |-> FALSE]
      ELSE [libs |-> pic_put_identifier(found, lib, alias, uid), ok |-> Bound(uid)]

(* library-import takes what is exported as name into the current library  *)
(* as alias; ok says whether it returns.                                   *)
library_import(ls, l, name, alias) ==
  LET real == ls[l].exports[name]
      found == pic_find_identifier(ls, l, real)
      uid == found[l].env[real]
  IN  IF name \notin DOMAIN ls[l].exports THEN [libs |-> ls, ok |-> FALSE]
      ELSE IF Bound(uid) THEN [libs |-> pic_put_identifier(found, lib, alias, uid), ok |-> TRUE]
      ELSE [libs |-> found, ok |-> FALSE]

(* Mutant: the alias is not used.                                          *)
Slotted_Swapped(done, l, s) ==
  IF ~done.ok \/ s \notin Name \X Name THEN [libs |-> done.libs, ok |-> FALSE]
  ELSE library_import(done.libs, l, s[2], s[2])

(* library-import of a slot, when all went well so far: it takes symbols.  *)
Slotted(done, l, s) ==
  IF ~done.ok \/ s \notin Name \X Name THEN [libs |-> done.libs, ok |-> FALSE]
  ELSE library_import(done.libs, l, s[2], s[1])

(* One slot after the other until one fails.                               *)
Imported(l, slots) ==
  LET done[k \in 0 .. Len(slots)] ==
        IF k = 0 THEN [libs |-> libs, ok |-> TRUE] ELSE Slotted(done[k - 1], l, slots[k])
  IN  done[Len(slots)]

Exports(l) == DOMAIN libs[l].exports

-----------------------------------------------------------------------------
(* What a program does in the call of pic_eval it is in.  Every refused    *)
(* call that changes nothing is an Error.                                  *)

Now == evals[Len(evals)]
Runs == ~raising
Expands == Runs /\ Now.phase = "expand"
Changes == steps < MaxSteps /\ steps' = steps + 1
Quiet == UNCHANGED << globals, macros, shadowed >>
Stays == UNCHANGED << lib, evals >>
Fails(ok) == raising' = ~ok

(* make-library, as define-library uses it: the name is a mangled title.   *)
pic_make_library ==
  \E title \in Titles :
    /\ Runs /\ Changes /\ Quiet /\ Stays /\ Fails(TRUE)
    /\ Mangles(title) /\ mangle(title) \notin DOMAIN libs
    /\ libs' = Put(libs, mangle(title), NewLibrary)

(* current-library with an argument.                                       *)
pic_in_library ==
  \E l \in DOMAIN libs :
    /\ Runs /\ Changes /\ Quiet /\ Fails(TRUE) /\ UNCHANGED libs
    /\ lib' = l
    /\ evals' = [evals EXCEPT ![Len(evals)].moved = TRUE]

(* library-export; pic_export has the name for its alias.                  *)
library_export ==
  \E name, alias \in Symbols :
    /\ Runs /\ Changes /\ Quiet /\ Stays /\ Fails(TRUE)
    /\ libs' = [libs EXCEPT ![lib].exports = Put(@, alias, name)]

Import(l, mods) ==
  /\ Runs /\ Changes /\ Quiet /\ Stays
  /\ \E exports \in SetToSeqs(Exports(l)) :
       \E done \in {Imported(l, collect(exports, mods))} :
         libs' = done.libs /\ Fails(done.ok)

import_set(set) ==
  /\ Mangles(set.title) /\ mangle(set.title) \in DOMAIN libs
  /\ Import(mangle(set.title), set.mods)
import == \E set \in ImportSets : import_set(set)

(* For a program in C: pic_import takes all of a library, pic_define gives *)
(* a variable a value from outside.                                        *)
pic_import == \E l \in DOMAIN libs : Import(l, << >>)

pic_define ==
  \E l \in DOMAIN libs, name \in Symbols :
    /\ Runs /\ Changes /\ Stays /\ Fails(TRUE)
    /\ libs' = pic_find_identifier(libs, l, name)
    /\ globals' = globals \union {Variable(l, name)}
    /\ UNCHANGED << macros, shadowed >>

-----------------------------------------------------------------------------
(* The two halves of pic_eval, expansion and execution.  Names are looked  *)
(* up in the library that was given to it, not in the current one.         *)

(* A name in the program, and pic_ref.                                     *)
expand_var ==
  \E name \in Symbols :
    /\ Expands /\ Changes /\ Quiet /\ Stays /\ Fails(TRUE)
    /\ libs' = pic_find_identifier(libs, Now.lib, name)

(* The macro of that name goes at once, the variable comes later.          *)
expand_define ==
  \E name \in Symbols :
    \E uid \in {Variable(Now.lib, name)} :
      /\ Expands /\ Changes /\ Fails(TRUE)
      /\ libs' = pic_find_identifier(libs, Now.lib, name)
      /\ macros' = macros \ {uid}
      /\ shadowed' = shadowed \union (macros \intersect {uid})
      /\ evals' = [evals EXCEPT ![Len(evals)].defs = @ \union {uid}]
      /\ UNCHANGED << lib, globals >>

expand_defmacro ==
  \E name \in Symbols :
    /\ Expands /\ Changes /\ Stays /\ Fails(TRUE)
    /\ libs' = pic_find_identifier(libs, Now.lib, name)
    /\ macros' = macros \union {Variable(Now.lib, name)}
    /\ UNCHANGED << globals, shadowed >>

(* Compilation declares the variables of the definitions; what runs after  *)
(* it gives them their values.                                             *)
pic_compile ==
  /\ Expands /\ Fails(TRUE)
  /\ globals' = globals \union Now.defs
  /\ shadowed' = shadowed \ Now.defs
  /\ evals' = [evals EXCEPT ![Len(evals)] =
                  [Call(Now.lib, Now.prev, "run") EXCEPT !.moved = Now.moved]]
  /\ UNCHANGED << libs, lib, macros, steps >>

(* eval, a form of define-library's body, or a form that pic_load reads.   *)
pic_eval ==
  \E l \in DOMAIN libs :
    /\ Runs /\ Len(evals) <= MaxEvals /\ Changes /\ Quiet /\ Fails(TRUE)
    /\ lib' = l
    /\ evals' = Append(evals, Call(l, lib, "expand"))
    /\ UNCHANGED libs

Restored == lib' = Now.prev /\ evals' = Front(evals)

Return ==
  /\ Runs /\ Len(evals) > 1 /\ Now.phase = "run"
  /\ Quiet /\ Fails(TRUE) /\ Restored /\ UNCHANGED << libs, steps >>

Error ==
  /\ Runs /\ raising' = TRUE
  /\ Quiet /\ Stays /\ UNCHANGED << libs, steps >>

(* Mutant: the current library stays.                                      *)
Catch_Forgets ==
  /\ raising /\ Len(evals) > 1 /\ evals' = Front(evals)
  /\ Quiet /\ UNCHANGED << lib, libs, raising, steps >>

(* The pic_catch of pic_eval, which raises the error again.                *)
Catch ==
  /\ raising /\ Len(evals) > 1
  /\ Quiet /\ Restored /\ UNCHANGED << libs, raising, steps >>

(* A handler of the program's own.                                         *)
Handled ==
  /\ raising /\ raising' = FALSE
  /\ Quiet /\ Stays /\ UNCHANGED << libs, steps >>

(* A continuation of a call further out: what pic_eval would do on return  *)
(* is not done for the calls that are left.                                *)
Escape ==
  \E to \in 1 .. Len(evals) - 1 :
    /\ Runs /\ Changes /\ Quiet /\ Fails(TRUE) /\ UNCHANGED << libs, lib >>
    /\ evals' = [SubSeq(evals, 1, to) EXCEPT ![to].moved = TRUE]

Next ==
  \/ pic_make_library \/ pic_in_library \/ library_export
  \/ import \/ pic_import \/ pic_define
  \/ expand_var \/ expand_define \/ expand_defmacro
  \/ pic_compile \/ pic_eval \/ Return
  \/ Error \/ Catch \/ Handled \/ Escape

Spec == Init /\ [][Next]_vars

-----------------------------------------------------------------------------
(* The program that pic_eval runs in a library exports from and imports    *)
(* into that library, whatever the calls of pic_eval inside it do, return  *)
(* or raise (eval.c:1102-1115): unless it has set the current library      *)
(* itself, or a continuation has brought control back to it past another   *)
(* call of pic_eval, nothing moves it.  Such a move ends with the call.    *)
HomeLibrary == lib = Now.lib \/ Now.moved

(* Two libraries that both make a variable of their own never make the     *)
(* same one: the uid "lib/name" (lib.c:91) can be taken apart again.       *)
OwnVariables ==
  \A l, m \in DOMAIN libs :
    l # m => \A i \in DOMAIN libs[l].env, j \in DOMAIN libs[m].env :
               libs[l].env[i] = Uid(l, i) /\ libs[m].env[j] = Uid(m, j) => Uid(l, i) # Uid(m, j)

(* A name that stands for another library's variable stands for one that   *)
(* has been defined: import refuses the others (lib.c:218, 294), also when *)
(* it fails half way.  What can come between is a define that takes a      *)
(* macro away when it is expanded (eval.c:146), until it is compiled: which *)
(* is never, when the expansion of its value raises an error.              *)
ImportsDefined ==
  \A l \in DOMAIN libs : \A id \in DOMAIN libs[l].env :
    libs[l].env[id] # Uid(l, id) => libs[l].env[id] \in globals \union macros \union shadowed

(* What R7RS says an import set denotes: a map from the names it binds to  *)
(* the names it takes, when there are those that only names.               *)
Meant(d, mod) ==
  CASE mod.kind = "only" -> Restrict(d, ToSet(mod.syms) \intersect DOMAIN d)
    [] mod.kind = "except" -> Restrict(d, DOMAIN d \ ToSet(mod.syms))
    [] mod.kind = "prefix" ->
         [id \in {mod.syms[1] \o a : a \in DOMAIN d} |->
            d[CHOOSE a \in DOMAIN d : id = mod.syms[1] \o a]]
    [] OTHER -> d

Denoted(exports, mods) ==
  LET d[k \in 0 .. Len(mods)] ==
        IF k = 0 THEN [a \in exports |-> a] ELSE Meant(d[k - 1], mods[k])
  IN  d[Len(mods)]

Bindings(l, mods) ==
  LET d == Denoted(Exports(l), mods)
  IN  [id \in DOMAIN d |-> libs[l].env[libs[l].exports[d[id]]]]

With(f, g) == [id \in DOMAIN f \union DOMAIN g |-> IF id \in DOMAIN g THEN g[id] ELSE f[id]]

(* An import that succeeds binds exactly the names its import set denotes, *)
(* each to the variable that the exporting library has under the name it   *)
(* exports (boot.c:606-662, lib.c:271-301), and touches no other name: for *)
(* sets without rename, which boot.c:638 has wrong.                        *)
ImportsRight ==
  [][\A set \in ImportSets :
       (~raising' /\ mangle(set.title) # lib
          /\ (\A i \in DOMAIN set.mods : set.mods[i].kind # "rename") /\ import_set(set))
       => libs' = [libs EXCEPT ![lib].env = With(@, Bindings(mangle(set.title), set.mods))]]_vars

(* What R7RS says of rename: the first name it is given becomes the second.*)
NewName(mod, a) == IF a = mod.syms[1] THEN mod.syms[2] ELSE a
Renamed(exports, mod) ==
  [id \in {NewName(mod, a) : a \in exports} |-> CHOOSE a \in exports : id = NewName(mod, a)]

(* The import set that only renames binds the new name to the variable     *)
(* that was exported by the old one (boot.c:636-639).                      *)
RenameBinds ==
  [][\A set \in ImportSets :
       LET l == mangle(set.title)
           d == Renamed(Exports(l), set.mods[1])
       IN  Len(set.mods) = 1 /\ set.mods[1].kind = "rename" /\ import_set(set) =>
             \/ raising' \/ l = lib \/ set.mods[1].syms[2] \in Exports(l)
             \/ libs' = [libs EXCEPT ![lib].env =
                            With(@, [id \in DOMAIN d |-> libs[l].env[libs[l].exports[d[id]]]])]]_vars
=============================================================================
